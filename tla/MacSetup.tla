------------------------------ MODULE MacSetup -------------------------------
(***************************************************************************)
(* Preparing containers on macOS: an Automator installs Homebrew and        *)
(* Colima, starts Colima and waits for the socket of containerd. There are  *)
(* two of them: main makes one of its own when it finds no runtime, the     *)
(* REST handler has the one that the pages start and show.                  *)
(*                                                                         *)
(* Some commands of a setup have no time limit, and Automator.Cancel has no *)
(* caller: a command that hangs keeps its setup running for good.           *)
(***************************************************************************)
EXTENDS Naturals

CONSTANT MaxRuns  \* bound on the setups

MacSetupAssumption == MaxRuns \in Nat \ {0}

Runs == 1..MaxRuns
Automators == {"main", "page"}
Steps == 1..4  \* Homebrew, Colima, its start, verification

VARIABLES
    status,    \* per automator, Automator.status
    setup,     \* per call of run: its automator and where it is
    machine,   \* what is installed, whether the machine of Colima runs, and the socket
    started    \* main is past the check of the runtime

vars == <<status, setup, machine, started>>

Idle == [started |-> FALSE, running |-> FALSE, error |-> FALSE, steps |-> [i \in Steps |-> "pending"]]

MayStart(a) == ~status[a].running

\* Start of an automator, or its refusal.
Start(a) ==
    IF ~MayStart(a) THEN UNCHANGED <<status, setup>>
    ELSE \E r \in Runs :
            /\ setup[r].pc = "none" /\ \A k \in Runs : k < r => setup[k].pc # "none"
            /\ status' = [status EXCEPT ![a] = [Idle EXCEPT !.started = TRUE, !.running = TRUE]]
            /\ setup' = [setup EXCEPT ![r] = [automator |-> a, pc |-> "brew"]]

\* Step i of the automator of r is done, and run goes on at pc.
Done(r, i, pc) ==
    /\ status' = [status EXCEPT ![setup[r].automator].steps =
                     [k \in Steps |-> IF k = i THEN "done" ELSE IF k = i + 1 THEN "running" ELSE @[k]]]
    /\ setup' = [setup EXCEPT ![r].pc = pc]

\* setStep and setError.
Failed(s, i) == [s EXCEPT !.steps[i] = "failed", !.error = TRUE, !.running = FALSE]

Fails(r, i) ==
    /\ status' = [status EXCEPT ![setup[r].automator] = Failed(@, i)]
    /\ setup' = [setup EXCEPT ![r].pc = "failed"]
    /\ UNCHANGED <<machine, started>>

Brew(r) ==
    /\ setup[r].pc = "brew"
    /\ \/ machine' = [machine EXCEPT !.brew = TRUE] /\ Done(r, 1, "colima") /\ UNCHANGED started
       \/ ~machine.brew /\ Fails(r, 1)

\* An upgrade that fails is a warning.
Colima(r) ==
    /\ setup[r].pc = "colima"
    /\ \/ machine' = [machine EXCEPT !.colima = TRUE] /\ Done(r, 2, "start") /\ UNCHANGED started
       \/ ~machine.colima /\ Fails(r, 2)

\* A Colima that runs is left as it is, whatever its runtime.
StartColima(r) ==
    /\ setup[r].pc = "start"
    /\ \/ /\ machine' = [machine EXCEPT !.vm = IF @ = "off" THEN "containerd" ELSE @]
          /\ setup' = [setup EXCEPT ![r].pc = "wait"]
          /\ UNCHANGED <<status, started>>
       \/ machine.vm = "off" /\ Fails(r, 3)

\* The socket appears in time, or not.
WaitForSocket(r) ==
    /\ setup[r].pc = "wait"
    /\ \/ machine.socket /\ Done(r, 3, "verify") /\ UNCHANGED <<machine, started>>
       \/ ~machine.socket /\ Fails(r, 3)

\* ctr version, or else the socket itself.
Verify(r) ==
    /\ setup[r].pc = "verify"
    /\ \/ /\ machine.socket
          /\ status' = [status EXCEPT ![setup[r].automator] = [@ EXCEPT !.steps[4] = "done", !.running = FALSE]]
          /\ setup' = [setup EXCEPT ![r].pc = "ready"]
          /\ UNCHANGED <<machine, started>>
       \/ ~machine.socket /\ Fails(r, 4)

\* A command without a time limit does not end: the installing of Homebrew, the upgrade of a
\* Colima that is there, and the question whether it runs.
Hang(r) ==
    /\ \/ setup[r].pc = "brew" /\ ~machine.brew
       \/ setup[r].pc = "colima" /\ machine.colima
       \/ setup[r].pc = "start"
    /\ setup' = [setup EXCEPT ![r].pc = "hung"]
    /\ UNCHANGED <<status, machine, started>>

\* What a setup does, as long as its commands end.
Setup(r) == Brew(r) \/ Colima(r) \/ StartColima(r) \/ WaitForSocket(r) \/ Verify(r)

\* containerd in the machine of Colima makes its socket; the user stops the machine.
Colimas ==
    /\ \/ machine.vm = "containerd" /\ machine' = [machine EXCEPT !.socket = TRUE]
       \/ machine.vm # "off" /\ machine' = [machine EXCEPT !.vm = "off", !.socket = FALSE]
    /\ UNCHANGED <<status, setup, started>>

\* main finds a runtime, or makes an automator and starts it.
MainStarts ==
    /\ ~started /\ started' = TRUE
    /\ IF machine.socket THEN UNCHANGED <<status, setup>> ELSE Start("main")
    /\ UNCHANGED machine

\* startMacOS.
PageStarts ==
    /\ started /\ Start("page")
    /\ UNCHANGED <<machine, started>>

Init ==
    /\ status = [a \in Automators |-> Idle]
    /\ setup = [r \in Runs |-> [automator |-> "page", pc |-> "none"]]
    /\ machine \in [brew : BOOLEAN, colima : BOOLEAN, vm : {"off", "containerd", "docker"}, socket : {FALSE}]
    /\ machine.vm # "off" => machine.colima
    /\ started = FALSE

Next == (\E r \in Runs : Setup(r) \/ Hang(r)) \/ Colimas \/ MainStarts \/ PageStarts

\* A setup goes on, unless a command hangs, which no step of Setup leaves.
Spec == Init /\ [][Next]_vars /\ \A r \in Runs : WF_vars(Setup(r))

-----------------------------------------------------------------------------
\* Properties.

\* The status of an automator that has ended is that of one setup: all steps are done, or all
\* up to the one that failed.
StatusIsOneSetup ==
    \A a \in Automators :
        LET s == status[a]
        IN  s.started /\ ~s.running =>
               IF ~s.error THEN \A i \in Steps : s.steps[i] = "done"
               ELSE \E k \in Steps : s.steps[k] = "failed" /\ \A i \in Steps : (i < k) = (s.steps[i] = "done")

\* A setup ends, and can be asked for again, unless one of its commands hangs.
SetupEnds ==
    \A a \in Automators :
        status[a].running ~> (~status[a].running \/ \E r \in Runs : setup[r].automator = a /\ setup[r].pc = "hung")
=============================================================================
