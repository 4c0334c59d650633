------------------------------ MODULE Wsl2Setup ------------------------------
(***************************************************************************)
(* Preparing containers on Windows: the Automator installs a distribution   *)
(* and containerd in WSL2, step by step and in a goroutine of its own; a    *)
(* Proxy forwards a TCP port to the socket of containerd with socat; main   *)
(* tries a proxy at once (the fast path), and a setup when that fails, and  *)
(* every setup that succeeds starts a proxy of its own (OnReady). Requests  *)
(* start a setup as well.                                                   *)
(*                                                                         *)
(* Most commands of a setup have no time limit, and Automator.Cancel has no *)
(* caller: a command that hangs keeps its setup running for good.           *)
(***************************************************************************)
EXTENDS Naturals, FiniteSets

CONSTANTS
    Names,      \* distributions of Ubuntu
    Requests,   \* calls of startWSL2
    Overrides,  \* names they may carry
    MaxRuns,    \* bound on the setups
    MayBreak,   \* commands that query or prepare WSL may fail
    NoName

Wsl2SetupAssumption ==
    /\ MaxRuns \in Nat \ {0}
    /\ Overrides \subseteq Names /\ NoName \notin Names
    /\ MayBreak \in BOOLEAN

Runs == 1..MaxRuns
Fast == MaxRuns + 1       \* the proxy of the fast path
Proxies == 1..Fast

VARIABLES
    name,       \* Automator.cfg.DistroName
    status,     \* Automator.status
    setup,      \* per call of run: where it is, its distribution, and the name that Start found
    machine,    \* the distributions there are; which have containerd, its files, its socket
    proxy,      \* per proxy: where its Start is, or its health loop, and its distribution
    running,    \* proxies whose running is set
    socat,      \* proxies whose socat listens
    stored,     \* wsl2Proxy of main, or 0
    request,    \* per request, where its handler is
    main,
    target      \* the proxy that main stops

sVars == <<name, status, setup>>
pVars == <<proxy, running, socat>>
vars == <<sVars, machine, pVars, stored, request, main, target>>

Steps == 1..6  \* WSL2, distribution, containerd, its configuration, GPU, verification

Alive == main # "ended"

May(x) == x => MayBreak

-----------------------------------------------------------------------------
\* The automator.

MayStart_mutAlways == TRUE

MayStart == ~status.running

\* What Start sets the status to.
Started == [started |-> TRUE, running |-> TRUE, error |-> FALSE, steps |-> [i \in Steps |-> "pending"]]

\* Start, or its refusal.
Start ==
    IF ~MayStart THEN UNCHANGED <<status, setup>>
    ELSE \E r \in Runs :
            /\ setup[r].pc = "none" /\ \A k \in Runs : k < r => setup[k].pc # "none"
            /\ status' = Started
            /\ setup' = [setup EXCEPT ![r].pc = "detect"]

\* Step i comes out as o, and run goes on at pc.
Step(r, i, o, pc) ==
    /\ status' = [status EXCEPT !.steps = [k \in Steps |-> IF k = i THEN o ELSE IF k = i + 1 THEN "running" ELSE @[k]]]
    /\ setup' = [setup EXCEPT ![r].pc = pc]

Failed_mutGoesOn(s, i) == [s EXCEPT !.steps[i] = "failed", !.error = TRUE]

\* setStep and setError.
Failed(s, i) == [s EXCEPT !.steps[i] = "failed", !.error = TRUE, !.running = FALSE]

Fails(r, i) ==
    /\ status' = Failed(status, i)
    /\ setup' = [setup EXCEPT ![r].pc = "failed"]

At(r, pc) == Alive /\ setup[r].pc = pc

\* Is there WSL at all?
Detect(r) ==
    /\ At(r, "detect")
    /\ \/ machine.wsl /\ Step(r, 1, "done", "find")
       \/ ~machine.wsl /\ Fails(r, 1)
    /\ UNCHANGED <<name, machine, pVars, stored, request, main, target>>

\* findUbuntuDistro takes the first distribution listed, whatever its name.
Find(r) ==
    /\ At(r, "find")
    /\ \/ \E d \in machine.distros : setup' = [setup EXCEPT ![r].pc = "use", ![r].distro = d]
       \/ May(machine.distros # {}) /\ setup' = [setup EXCEPT ![r].pc = "install"]
    /\ UNCHANGED <<name, status, machine, pVars, stored, request, main, target>>

\* By wsl --install, or else by a download and wsl --import.
Installed == [machine EXCEPT !.distros = @ \cup {name}]

Install(r) ==
    /\ At(r, "install")
    /\ \/ /\ machine' = Installed
          /\ setup' = [setup EXCEPT ![r].pc = "installed"]
          /\ UNCHANGED status
       \/ Fails(r, 2) /\ UNCHANGED machine
    /\ UNCHANGED <<name, pVars, stored, request, main, target>>

\* The name is read again.
Name(r) ==
    /\ At(r, "installed")
    /\ setup' = [setup EXCEPT ![r].pc = "use", ![r].distro = name]
    /\ UNCHANGED <<name, status, machine, pVars, stored, request, main, target>>

Use(r) ==
    /\ At(r, "use")
    /\ Step(r, 2, "done", "containerd")
    /\ UNCHANGED <<name, machine, pVars, stored, request, main, target>>

\* Installed already, or installed now: the package may start it.
Containerd(r) ==
    /\ At(r, "containerd")
    /\ LET d == setup[r].distro
       IN  \/ d \in machine.containerd /\ Step(r, 3, "skipped", "configure") /\ UNCHANGED machine
           \/ /\ d \in machine.distros /\ May(d \in machine.containerd)
              /\ \E up \in {{}, {d}} : machine' = [machine EXCEPT !.containerd = @ \cup {d}, !.up = @ \cup up]
              /\ Step(r, 3, "done", "configure")
           \/ May(d \in machine.containerd) /\ Fails(r, 3) /\ UNCHANGED machine
    /\ UNCHANGED <<name, pVars, stored, request, main, target>>

\* The check looks for "configured" in the answer, which "not_configured" contains: only
\* when it fails altogether are the files written, each with a warning if that fails.
Configure(r) ==
    /\ At(r, "configure")
    /\ \/ Step(r, 4, "skipped", "gpu") /\ UNCHANGED machine
       \/ /\ MayBreak
          /\ \E f \in {{}, {setup[r].distro}} : machine' = [machine EXCEPT !.files = @ \cup f]
          /\ Step(r, 4, "done", "gpu")
    /\ UNCHANGED <<name, pVars, stored, request, main, target>>

Gpu(r) ==
    /\ At(r, "gpu")
    /\ \E o \in {"done", "skipped"} : Step(r, 5, o, "launch")
    /\ UNCHANGED <<name, machine, pVars, stored, request, main, target>>

\* The start script, if there is one; its failure is a warning.
Launch(r) ==
    /\ At(r, "launch")
    /\ machine' = [machine EXCEPT !.up = @ \cup ({setup[r].distro} \cap machine.files \cap machine.containerd)]
    /\ setup' = [setup EXCEPT ![r].pc = "verify"]
    /\ UNCHANGED <<name, status, pVars, stored, request, main, target>>

\* ctr version reaches containerd.
Verified(d) == d \in machine.up

\* The verification; OnReady makes a proxy for the distribution.
Verify(r) ==
    /\ At(r, "verify")
    /\ \/ /\ Verified(setup[r].distro)
          /\ status' = [status EXCEPT !.steps[6] = "done", !.running = FALSE]
          /\ setup' = [setup EXCEPT ![r].pc = "ready"]
          /\ proxy' = [proxy EXCEPT ![r] = [pc |-> "prepare", distro |-> setup[r].distro]]
       \/ Fails(r, 6) /\ UNCHANGED proxy
    /\ UNCHANGED <<name, machine, running, socat, stored, request, main, target>>

\* A command without a time limit does not end: all those that query WSL, the download, the
\* import, and what is run in the distribution, apart from the installing of packages.
Hang(r) ==
    /\ \E pc \in {"detect", "find", "install", "use", "containerd", "configure", "gpu", "launch", "verify"} : At(r, pc)
    /\ setup[r].pc = "detect" => machine.wsl
    /\ setup' = [setup EXCEPT ![r].pc = "hung"]
    /\ UNCHANGED <<name, status, machine, pVars, stored, request, main, target>>

\* What a setup does, as long as its commands end.
Setup(r) ==
    \/ Detect(r) \/ Find(r) \/ Install(r) \/ Name(r) \/ Use(r) \/ Containerd(r)
    \/ Configure(r) \/ Gpu(r) \/ Launch(r) \/ Verify(r)

-----------------------------------------------------------------------------
\* The proxies.

ProxyAt(n, pc) == Alive /\ proxy[n].pc = pc

Goes(n, pc) == proxy' = [proxy EXCEPT ![n].pc = pc]

\* The distribution of the fast path is detected.
DetectDistro(n) ==
    /\ ProxyAt(n, "detect")
    /\ \/ \E d \in machine.distros : proxy' = [proxy EXCEPT ![n] = [pc |-> "prepare", distro |-> d]]
       \/ May(machine.distros # {}) /\ Goes(n, "failed")
    /\ UNCHANGED <<sVars, machine, running, socat, stored, request, main, target>>

\* containerd is started if it is there, and what became of it is not looked at.
Prepare(n) ==
    /\ ProxyAt(n, "prepare")
    /\ \/ /\ proxy[n].distro \in machine.distros
          /\ machine' = [machine EXCEPT !.up = @ \cup ({proxy[n].distro} \cap machine.containerd)]
          /\ Goes(n, "clean")
       \/ Goes(n, "failed") /\ UNCHANGED machine
    /\ UNCHANGED <<sVars, running, socat, stored, request, main, target>>

\* pkill of what still listens in this distribution.
Clean(n) ==
    /\ ProxyAt(n, "clean")
    /\ socat' = {m \in socat : proxy[m].distro # proxy[n].distro}
    /\ Goes(n, "listen")
    /\ UNCHANGED <<sVars, machine, running, stored, request, main, target>>

\* socat starts, and ends at once when the port is taken.
Bound(n) == IF socat = {} THEN {n} ELSE socat

Listen(n) ==
    /\ ProxyAt(n, "listen")
    /\ socat' = Bound(n)
    /\ Goes(n, "probe")
    /\ UNCHANGED <<sVars, machine, running, stored, request, main, target>>

\* Something answers on the port, or the time is up.
Probe(n) ==
    /\ ProxyAt(n, "probe")
    /\ \/ socat # {} /\ running' = running \cup {n} /\ Goes(n, "up") /\ UNCHANGED socat
       \/ Goes(n, "failed") /\ socat' = socat \ {n} /\ UNCHANGED running
    /\ UNCHANGED <<sVars, machine, stored, request, main, target>>

Store(n) ==
    /\ ProxyAt(n, "up") /\ stored' = n
    /\ Goes(n, "watched")
    /\ UNCHANGED <<sVars, machine, running, socat, request, main, target>>

\* The health loop sees the process end.
Noticed(n) == running \ {n}

Notice(n) ==
    /\ ProxyAt(n, "watched") /\ n \notin socat
    /\ running' = Noticed(n)
    /\ Goes(n, "closed")
    /\ UNCHANGED <<sVars, machine, socat, stored, request, main, target>>

SocatDies(n) ==
    /\ Alive /\ n \in socat
    /\ socat' = socat \ {n}
    /\ UNCHANGED <<sVars, machine, proxy, running, stored, request, main, target>>

\* containerd ends in a distribution.
ContainerdEnds(d) ==
    /\ d \in machine.up
    /\ machine' = [machine EXCEPT !.up = @ \ {d}]
    /\ UNCHANGED <<sVars, pVars, stored, request, main, target>>

Proxying(n) ==
    \/ DetectDistro(n) \/ Prepare(n) \/ Clean(n) \/ Listen(n) \/ Probe(n)
    \/ Store(n) \/ Notice(n)

-----------------------------------------------------------------------------
\* startWSL2: SetConfig, if a name is given, and Start.
SetConfig(h) ==
    /\ Alive /\ request[h] = "idle"
    /\ \E n \in Overrides \cup {name} : name' = n
    /\ request' = [request EXCEPT ![h] = "start"]
    /\ UNCHANGED <<status, setup, machine, pVars, stored, main, target>>

Ask(h) ==
    /\ Alive /\ request[h] = "start"
    /\ Start
    /\ request' = [request EXCEPT ![h] = "answered"]
    /\ UNCHANGED <<name, machine, pVars, stored, main, target>>

\* main: no container runtime was found. The fast path, ...
MainTries ==
    /\ main = "begins"
    /\ main' = "tries"
    /\ Goes(Fast, "detect")
    /\ UNCHANGED <<sVars, machine, running, socat, stored, request, target>>

\* ... or a setup;
MainServes ==
    /\ main = "tries"
    /\ main' = "serves"
    /\ \/ proxy[Fast].pc \in {"watched", "closed"} /\ UNCHANGED <<status, setup>>
       \/ proxy[Fast].pc = "failed" /\ Start
    /\ UNCHANGED <<name, machine, pVars, stored, request, target>>

\* What Stop of the stored proxy leaves.
Killed == socat \ (running \cap {stored})

\* on a signal, Stop of the stored proxy, if it runs: kill its process ...
MainStops ==
    /\ main = "serves"
    /\ main' = "stops" /\ target' = stored
    /\ running' = running \ {stored} /\ socat' = Killed
    /\ UNCHANGED <<sVars, machine, proxy, stored, request>>

\* ... and wait for its health loop; then the distribution is terminated.
MainEnds ==
    /\ main = "stops"
    /\ target # 0 => proxy[target].pc = "closed"
    /\ main' = "ended"
    /\ LET d == IF target = 0 THEN NoName ELSE proxy[target].distro
       IN  /\ socat' = {m \in socat : proxy[m].distro # d}
           /\ machine' = [machine EXCEPT !.up = @ \ {d}]
    /\ UNCHANGED <<sVars, proxy, running, stored, request, target>>

Init ==
    /\ name \in Names
    /\ status = [started |-> FALSE, running |-> FALSE, error |-> FALSE, steps |-> [i \in Steps |-> "pending"]]
    /\ setup = [r \in Runs |-> [pc |-> "none", distro |-> NoName]]
    /\ \E w \in BOOLEAN, ds, cs \in SUBSET Names :
          /\ cs \subseteq ds /\ (~w => ds = {})
          /\ machine = [wsl |-> w, distros |-> ds, containerd |-> cs, files |-> {}, up |-> {}]
    /\ proxy = [n \in Proxies |-> [pc |-> "none", distro |-> NoName]]
    /\ running = {} /\ socat = {} /\ stored = 0
    /\ request = [h \in Requests |-> "idle"]
    /\ main = "begins" /\ target = 0

MainGoesOn == MainTries \/ MainServes \/ MainEnds

Next ==
    \/ \E r \in Runs : Setup(r) \/ Hang(r)
    \/ \E d \in Names : ContainerdEnds(d)
    \/ \E n \in Proxies : Proxying(n) \/ SocatDies(n)
    \/ \E h \in Requests : SetConfig(h) \/ Ask(h)
    \/ MainGoesOn \/ MainStops

\* Goroutines that can go on do so: those of a setup unless a command hangs, which no step of
\* Setup leaves. A proxy is started with a context that ends (main.go), so that its steps do.
Fairness ==
    /\ \A r \in Runs : WF_vars(Setup(r))
    /\ \A n \in Proxies : WF_vars(Proxying(n))
    /\ WF_vars(MainGoesOn)

Spec == Init /\ [][Next]_vars /\ Fairness

-----------------------------------------------------------------------------
\* Properties.

\* The variables have their types.
TypeOK ==
    /\ name \in Names
    /\ status \in [started : BOOLEAN, running : BOOLEAN, error : BOOLEAN,
                   steps : [Steps -> {"pending", "running", "done", "failed", "skipped"}]]
    /\ \A r \in Runs : setup[r].distro \in Names \cup {NoName}
    /\ machine.up \subseteq machine.containerd /\ machine.containerd \subseteq machine.distros
    /\ running \subseteq Proxies /\ Cardinality(socat) <= 1 /\ socat \subseteq Proxies
    /\ stored \in Proxies \cup {0} /\ target \in Proxies \cup {0}
    /\ main \in {"begins", "tries", "serves", "stops", "ended"}

Good(i) == status.steps[i] \in {"done", "skipped"}

\* The status that the user interface shows of a setup that has ended is that of one setup:
\* all steps are good, or all up to the one that failed and none after it was begun.
StatusIsOneSetup ==
    status.started /\ ~status.running =>
        IF ~status.error THEN \A i \in Steps : Good(i)
        ELSE \E k \in Steps : /\ status.steps[k] = "failed"
                              /\ \A i \in Steps : (i < k => Good(i)) /\ (i > k => status.steps[i] \notin {"done", "skipped", "failed"})

\* A setup ends, and can be asked for again, unless one of its commands hangs.
SetupEnds == status.running ~> (~status.running \/ ~Alive \/ \E r \in Runs : setup[r].pc = "hung")

\* After a signal the program ends.
ProgramEnds == (main = "stops") ~> (main = "ended")
=============================================================================
