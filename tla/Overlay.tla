------------------------------- MODULE Overlay -------------------------------
(***************************************************************************)
(* The overlay network of an agent: the Manager of agent/internal/nebula    *)
(* writes what the registration returned to four files and runs nebula as   *)
(* a process; Agent.Start (agent/internal/core) configures and starts it,   *)
(* Agent.Stop stops it. The agent program stops an agent when its Start has *)
(* returned; the Runner of cpstart stops it whenever it is told to, and     *)
(* makes a new agent, with a Manager of its own and the same files.         *)
(***************************************************************************)
EXTENDS Naturals, FiniteSets

CONSTANTS
    MaxAgents,   \* bound on the agents made one after another
    Console,     \* cpstart runs the agents
    WritesFail   \* a file may not be writable

OverlayAssumption ==
    /\ MaxAgents \in Nat \ {0}
    /\ Console \in BOOLEAN /\ WritesFail \in BOOLEAN

Agents == 1..MaxAgents

\* The files, and what Configure goes on to after each.
After == [caCrt |-> "nodeCrt", nodeCrt |-> "nodeKey", nodeKey |-> "config", config |-> "start"]
Files == DOMAIN After

VARIABLES
    agent,     \* per agent, where its Start is; the file that it is about to write
    cancelled, \* agents whose context has ended
    stop,      \* per agent, where its Stop is
    file,      \* per file, the agent whose registration it is from, or 0
    running,   \* agents whose Manager.running is set
    exited,    \* agents whose Manager.done is closed
    process,   \* per agent, the agents whose files its nebula has read, {} if none runs
    nat        \* per agent, the detection of NAT: off, tries, cone or unknown

vars == <<agent, cancelled, stop, file, running, exited, process, nat>>

Goes(n, pc) == agent' = [agent EXCEPT ![n] = pc]

Writing(n) == agent[n] \in Files

\* The next agent, once its predecessor has ended or the Runner takes it to have ended.
Make(n) ==
    /\ agent[n] = "none"
    /\ \A k \in Agents : k < n => stop[k] = "stopped" /\ (agent[k] = "returned" \/ Console)
    /\ Goes(n, "registering")
    /\ UNCHANGED <<cancelled, stop, file, running, exited, process, nat>>

\* The registration, or its failure; Configure takes Manager.mu.
Register(n) ==
    /\ agent[n] = "registering"
    /\ \/ n \notin cancelled /\ Goes(n, "configure")
       \/ Goes(n, "returned")
    /\ UNCHANGED <<cancelled, stop, file, running, exited, process, nat>>

Configure(n) ==
    /\ agent[n] = "configure" /\ stop[n] # "waits"
    /\ Goes(n, "caCrt")
    /\ UNCHANGED <<cancelled, stop, file, running, exited, process, nat>>

AfterFailure_mutStart == "start"

\* Where Agent.Start goes on when the overlay could not be configured.
AfterFailure == "serving"

Write(n) ==
    /\ Writing(n)
    /\ \/ /\ file' = [file EXCEPT ![agent[n]] = n]
          /\ Goes(n, After[agent[n]])
       \/ WritesFail /\ Goes(n, AfterFailure) /\ UNCHANGED file
    /\ UNCHANGED <<cancelled, stop, running, exited, process, nat>>

Tracked_mutMissing(n) == running

\* Manager.running after a start.
Tracked(n) == running \cup {n}

\* Manager.Start: a process that reads the files, a monitor, the detection of NAT.
Start(n) ==
    /\ agent[n] = "start" /\ stop[n] # "waits"
    /\ Goes(n, "serving")
    /\ \/ /\ process' = [process EXCEPT ![n] = {file[f] : f \in Files}]
          /\ running' = Tracked(n)
          /\ nat' = [nat EXCEPT ![n] = "tries"]
       \/ UNCHANGED <<process, running, nat>>
    /\ UNCHANGED <<cancelled, stop, file, exited>>

\* The heartbeats go on until the context ends.
Return(n) ==
    /\ agent[n] = "serving" /\ n \in cancelled
    /\ Goes(n, "returned")
    /\ UNCHANGED <<cancelled, stop, file, running, exited, process, nat>>

\* nebula ends by itself, for instance when another one holds its device.
Dies(n) ==
    /\ process[n] # {}
    /\ process' = [process EXCEPT ![n] = {}]
    /\ UNCHANGED <<agent, cancelled, stop, file, running, exited, nat>>

Monitored(n) == running \ {n}

\* The monitor of the process sees its end.
Monitor(n) ==
    /\ nat[n] # "off" /\ process[n] = {} /\ n \notin exited
    /\ running' = Monitored(n)
    /\ exited' = exited \cup {n}
    /\ UNCHANGED <<agent, cancelled, stop, file, process, nat>>

\* The address of the scheduler answers, or six attempts are over, or nebula has ended.
DetectNat(n) ==
    /\ nat[n] = "tries"
    /\ \/ n \in running /\ \E t \in {"cone", "unknown"} : nat' = [nat EXCEPT ![n] = t]
       \/ n \notin running /\ nat' = [nat EXCEPT ![n] = "unknown"]
    /\ UNCHANGED <<agent, cancelled, stop, file, running, exited, process>>

\* A signal ends the context of the agent program; the Runner goes on to stop the agent.
Cancel(n) ==
    /\ agent[n] # "none" /\ n \notin cancelled
    /\ cancelled' = cancelled \cup {n}
    /\ UNCHANGED <<agent, stop, file, running, exited, process, nat>>

\* Agent.Stop: Manager.Stop takes the lock and, if nebula runs, ends its context ...
Stop(n) ==
    /\ stop[n] = "none" /\ ~Writing(n)
    /\ IF Console THEN n \in cancelled ELSE agent[n] = "returned"
    /\ stop' = [stop EXCEPT ![n] = IF n \in running THEN "waits" ELSE "stopped"]
    /\ process' = [process EXCEPT ![n] = IF n \in running THEN {} ELSE @]
    /\ UNCHANGED <<agent, cancelled, file, running, exited, nat>>

\* ... and waits for the monitor, five seconds at most.
Stopped(n) ==
    /\ stop[n] = "waits"
    /\ stop' = [stop EXCEPT ![n] = "stopped"]
    /\ running' = running \ {n}
    /\ process' = [process EXCEPT ![n] = {}]
    /\ UNCHANGED <<agent, cancelled, file, exited, nat>>

Init ==
    /\ agent = [n \in Agents |-> "none"]
    /\ cancelled = {}
    /\ stop = [n \in Agents |-> "none"]
    /\ file = [f \in Files |-> 0]
    /\ running = {} /\ exited = {}
    /\ process = [n \in Agents |-> {}]
    /\ nat = [n \in Agents |-> "off"]

Goroutine(n) ==
    \/ Register(n) \/ Configure(n) \/ Write(n) \/ Start(n) \/ Return(n)
    \/ Stop(n) \/ Stopped(n)

Next ==
    \E n \in Agents :
        \/ Make(n) \/ Goroutine(n) \/ Monitor(n) \/ DetectNat(n)
        \/ Dies(n) \/ Cancel(n)

\* Goroutines that can go on do so; no signal has to come.
Fairness == \A n \in Agents : WF_vars(Goroutine(n)) /\ WF_vars(Monitor(n))

Spec == Init /\ [][Next]_vars /\ Fairness

-----------------------------------------------------------------------------
\* Properties.

\* The variables have their types.
TypeOK ==
    /\ \A n \in Agents : Writing(n) \/ agent[n] \in {"none", "registering", "configure", "start", "serving", "returned"}
    /\ stop \in [Agents -> {"none", "waits", "stopped"}]
    /\ running \subseteq Agents /\ exited \subseteq Agents /\ running \cap exited = {}
    /\ \A n \in Agents : process[n] \subseteq Agents \cup {0}
    /\ nat \in [Agents -> {"off", "tries", "cone", "unknown"}]

\* A nebula process has read the files of one registration, its own: certificate, key and
\* configuration belong together, although earlier runs and failed writes leave files.
OwnFiles == \A n \in Agents : process[n] \subseteq {n}

\* Of an agent that has returned and was stopped, no nebula process is left.
StopEndsOverlay == \A n \in Agents : agent[n] = "returned" /\ stop[n] = "stopped" => process[n] = {}
=============================================================================
