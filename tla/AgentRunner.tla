----------------------------- MODULE AgentRunner ----------------------------
(***************************************************************************)
(* The agent inside the desktop program cpstart: Runner (cpstart/agent)     *)
(* starts and stops it, the REST handlers that change settings restart it   *)
(* (cpstart/server), main starts it first, hands it the container runtime   *)
(* of the WSL2 proxy and ends it (cmd/cpstart), and Agent.Start             *)
(* (agent/internal/core) is what runs.                                      *)
(*                                                                         *)
(* Start, Stop and SetRuntime hold Runner.mu; the goroutine of a run does   *)
(* not, and tells Start about itself through the atomic status alone.       *)
(***************************************************************************)
EXTENDS Naturals, FiniteSets

CONSTANTS
    Requests,  \* calls of setupConfig, updateResources and updateFeatures
    MaxRuns,   \* bound on the runs of the agent
    Refused,   \* the scheduler may refuse a registration
    DiskFails, \* the settings may fail to be saved
    Factory    \* the settings at start

AgentRunnerAssumption ==
    /\ MaxRuns \in Nat \ {0}
    /\ Factory \notin Requests
    /\ Refused \in BOOLEAN /\ DiskFails \in BOOLEAN

Runs == 1..MaxRuns

VARIABLES
    status,    \* Runner.status
    cur,       \* Runner.agent and Runner.cancel: the latest run, or 0
    done,      \* Runner.done: the channel of a run, or 0
    runs,      \* per run: where its goroutine is, what it knows
    closed,    \* channels that are closed
    settings,  \* Handler.cfg, also the Runner's: the request that changed it last
    request,   \* per request, where its handler is
    main,      \* where main is, the run that it told to end, and the channel it waits for
    proxy,     \* the WSL2 proxy is up
    panicked

vars == <<status, cur, done, runs, closed, settings, request, main, proxy, panicked>>

NoRun == [pc |-> "none", cancelled |-> FALSE, chan |-> 0, settings |-> Factory, runtime |-> FALSE]

Alive == ~panicked /\ main.pc # "ended"

Fresh == {n \in Runs : runs[n].pc = "none"}

-----------------------------------------------------------------------------
\* Runner.

MayStart_mutNotStarting == status # "running"

MayStart == status \notin {"running", "starting"}

\* Runner.Start: nothing to do, or a new agent in a goroutine of its own.
Start ==
    IF ~MayStart THEN UNCHANGED <<status, cur, done, runs>>
    ELSE /\ Fresh # {}
         /\ LET n == CHOOSE n \in Fresh : \A k \in Fresh : n <= k
            IN  /\ status' = "starting" /\ cur' = n /\ done' = n
                /\ runs' = [runs EXCEPT ![n] = [@ EXCEPT !.pc = "new", !.settings = settings]]

Stopped_mutKeepsContext == runs

\* Runner.Stop cancels the context of the latest run, and does not wait for it.
Stopped == IF cur = 0 THEN runs ELSE [runs EXCEPT ![cur].cancelled = TRUE]

Begun_mutUnset == status

\* The status that run sets.
Begun == "running"

\* run, up to the call of Agent.Start.
Begin(n) ==
    /\ Alive /\ runs[n].pc = "new"
    /\ status' = Begun
    /\ runs' = [runs EXCEPT ![n] = [@ EXCEPT !.pc = "registering", !.chan = done]]
    /\ UNCHANGED <<cur, done, closed, settings, request, main, proxy, panicked>>

\* Agent.Start registers the node and goes on to send heartbeats ...
Serve(n) ==
    /\ Alive /\ runs[n].pc = "registering" /\ ~runs[n].cancelled
    /\ runs' = [runs EXCEPT ![n].pc = "serving"]
    /\ UNCHANGED <<status, cur, done, closed, settings, request, main, proxy, panicked>>

\* ... or fails: the scheduler refuses, or the context ends during the call.
Fail(n) ==
    /\ Alive /\ runs[n].pc = "registering" /\ (Refused \/ runs[n].cancelled)
    /\ status' = "error"
    /\ runs' = [runs EXCEPT ![n].pc = "leaving"]
    /\ UNCHANGED <<cur, done, closed, settings, request, main, proxy, panicked>>

\* The heartbeats end with the context (heartbeat.Reporter.StartWithRetry), whatever the
\* state of the stream.
Return(n) ==
    /\ Alive /\ runs[n].pc = "serving" /\ runs[n].cancelled
    /\ runs' = [runs EXCEPT ![n].pc = "leaving"]
    /\ UNCHANGED <<status, cur, done, closed, settings, request, main, proxy, panicked>>

\* The deferred function of run: the status ...
Leave(n) ==
    /\ Alive /\ runs[n].pc = "leaving"
    /\ status' = "stopped"
    /\ runs' = [runs EXCEPT ![n].pc = "closing"]
    /\ UNCHANGED <<cur, done, closed, settings, request, main, proxy, panicked>>

\* ... and the channel.
Close(n) ==
    /\ Alive /\ runs[n].pc = "closing"
    /\ panicked' = (runs[n].chan \in closed)
    /\ closed' = closed \cup {runs[n].chan}
    /\ runs' = [runs EXCEPT ![n].pc = "gone"]
    /\ UNCHANGED <<status, cur, done, settings, request, main, proxy>>

-----------------------------------------------------------------------------
\* The handlers.
Goto(h, pc) == request' = [request EXCEPT ![h] = pc]

\* The settings in memory change before they are saved. Requests are served up to the end of the
\* program: the HTTP server is shut down after runner.Wait.
Change(h) ==
    /\ Alive /\ main.pc # "begins"
    /\ request[h] = "idle"
    /\ settings' = h
    /\ \/ Goto(h, "stop")
       \/ DiskFails /\ Goto(h, "error")
    /\ UNCHANGED <<status, cur, done, runs, closed, main, proxy, panicked>>

RequestStops(h) ==
    /\ Alive /\ request[h] = "stop"
    /\ runs' = Stopped
    /\ Goto(h, "start")
    /\ UNCHANGED <<status, cur, done, closed, settings, main, proxy, panicked>>

RequestStarts(h) ==
    /\ Alive /\ request[h] = "start"
    /\ Start
    /\ Goto(h, "answered")
    /\ UNCHANGED <<closed, settings, main, proxy, panicked>>

-----------------------------------------------------------------------------
\* main: start the agent, serve requests, ...
MainStarts ==
    /\ main.pc = "begins"
    /\ Start
    /\ main' = [main EXCEPT !.pc = "waits for a signal"]
    /\ UNCHANGED <<closed, settings, request, proxy, panicked>>

\* ... connect containerd through the proxy and give it to the agent ...
ProxyReady ==
    /\ Alive /\ main.pc = "waits for a signal" /\ ~proxy
    /\ proxy' = TRUE
    /\ runs' = IF cur = 0 THEN runs ELSE [runs EXCEPT ![cur].runtime = TRUE]
    /\ UNCHANGED <<status, cur, done, closed, settings, request, main, panicked>>

\* ... and on a signal runner.Stop, ...
MainStops ==
    /\ Alive /\ main.pc = "waits for a signal"
    /\ runs' = Stopped
    /\ main' = [main EXCEPT !.pc = "waits", !.told = cur]
    /\ UNCHANGED <<status, cur, done, closed, settings, request, proxy, panicked>>

\* ... runner.Wait on the channel that is there now ...
MainWaits ==
    /\ Alive /\ main.pc = "waits"
    /\ main' = [main EXCEPT !.pc = "waiting", !.chan = done]
    /\ UNCHANGED <<status, cur, done, runs, closed, settings, request, proxy, panicked>>

\* ... and, when it is closed, the end.
MainEnds ==
    /\ Alive /\ main.pc = "waiting" /\ main.chan \in closed
    /\ main' = [main EXCEPT !.pc = "ended"]
    /\ UNCHANGED <<status, cur, done, runs, closed, settings, request, proxy, panicked>>

Init ==
    /\ status = "stopped" /\ cur = 0 /\ done = 0
    /\ runs = [n \in Runs |-> NoRun]
    /\ closed = {} /\ settings = Factory
    /\ request = [h \in Requests |-> "idle"]
    /\ main = [pc |-> "begins", told |-> 0, chan |-> 0]
    /\ proxy = FALSE /\ panicked = FALSE

Goroutine(n) == Begin(n) \/ Serve(n) \/ Fail(n) \/ Return(n) \/ Leave(n) \/ Close(n)
Handler(h) == RequestStops(h) \/ RequestStarts(h)
MainGoesOn == MainStarts \/ MainWaits \/ MainEnds

Next ==
    \/ \E n \in Runs : Goroutine(n)
    \/ \E h \in Requests : Change(h) \/ Handler(h)
    \/ MainGoesOn \/ MainStops \/ ProxyReady

\* Goroutines that can go on do so; no signal, request or proxy has to come.
Fairness ==
    /\ \A n \in Runs : WF_vars(Goroutine(n))
    /\ \A h \in Requests : WF_vars(Handler(h))
    /\ WF_vars(MainGoesOn)

Spec == Init /\ [][Next]_vars /\ Fairness

-----------------------------------------------------------------------------
\* Properties.

At == {"none", "new", "registering", "serving", "leaving", "closing", "gone"}

\* The variables have their types; while the status is starting the latest run has not begun.
TypeOK ==
    /\ status \in {"stopped", "starting", "running", "error"}
    /\ cur \in Runs \cup {0} /\ done = cur
    /\ \A n \in Runs : runs[n].pc \in At /\ runs[n].chan \in Runs \cup {0}
    /\ closed \subseteq Runs
    /\ request \in [Requests -> {"idle", "stop", "start", "answered", "error"}]
    /\ settings \in Requests \cup {Factory}
    /\ status = "starting" => runs[cur].pc = "new"

Working(n) == runs[n].pc \in {"registering", "serving"}

\* A Start has come between the status error of a run that failed and its deferred function,
\* which sets the status and closes the channel without a look at what was started since.
Overtaken == \E m, n \in Runs : m < n /\ runs[m].pc = "leaving" /\ runs[n].pc # "none"

InTurn == ~panicked /\ \A m, n \in Runs : Working(m) /\ Working(n) => m = n

\* One agent at a time works on this machine, and no channel is closed twice, which would end
\* the program: through any number of restarts, unless a run was overtaken.
AgentsInTurn == []~Overtaken => []InTurn

\* After a signal the program ends, unless a run was overtaken, or a request has started an agent
\* between runner.Stop and runner.Wait: then main waits for one that nobody tells to end.
ShutdownEnds ==
    []~Overtaken => ((main.pc = "waits") ~> (main.pc = "ended" \/ (main.pc = "waiting" /\ main.chan # main.told)))

\* An answered change of settings is followed by an agent that has these settings or later
\* ones, unless the program is told to end or the registration fails.
ChangeTakesEffect ==
    \A h \in Requests :
        (request[h] = "answered" /\ settings = h)
          ~> \/ \E n \in Runs : runs[n].settings = h /\ runs[n].pc # "none"
             \/ settings # h \/ main.pc # "waits for a signal" \/ panicked
=============================================================================
