----------------------------- MODULE AgentExec -----------------------------
(***************************************************************************)
(* The agent as the scheduler meets it (agent/internal/heartbeat and        *)
(* agent/internal/executor): a heartbeat fetches the commands queued for    *)
(* the node, each assign command starts a goroutine that runs one container *)
(* and reports the unit's status over the report stream, and any of this    *)
(* may be lost with the connection or with the agent process.  Containers   *)
(* live in containerd and survive the agent; a container's ID is the ID of  *)
(* its unit, so a node holds at most one container of a unit.               *)
(*                                                                         *)
(* There is one report stream, and one handler of it, per node.             *)
(***************************************************************************)
EXTENDS UnitReports

CONSTANT Outcomes   \* how a container's run may end

ASSUME OutcomesAssumption == Outcomes \subseteq {"Completed", "Failed", "Timeout"}

VARIABLES
    spawned,    \* goroutines of executeUnit that have not run yet, by node and unit
    launching,  \* those that have reported Running and have no container yet
    box         \* the container of each unit on each node

agentVars == <<spawned, launching, box>>

\* "running": a goroutine monitors it; "exited": its end is reported and it is yet
\* to be removed; "orphan", "left": the same, but the agent that did so is gone.
BoxStatus == {"none", "running", "exited", "orphan", "left"}

\* Reporter.Report: a Send on the stream.
Report(n, u, status) ==
    reports' = [reports EXCEPT ![n] = Append(@, [unit |-> u, status |-> status])]

-----------------------------------------------------------------------------
\* One round of the heartbeat stream.  An offline node comes back online; the
\* response carries the queued commands and each starts a goroutine.
Heartbeat(n) ==
    /\ node' = [node EXCEPT ![n] = IF @ = "Offline" THEN "Online" ELSE @]
    /\ PopCommands(n)
    /\ spawned' = [spawned EXCEPT ![n] = [u \in Units |-> @[u] + cmds[n][u]]]
    /\ UNCHANGED <<storeVars, wake, eng, pull, reportVars, launching, box>>

\* The same, but the response is lost: Send fails after PopCommands has emptied the
\* queue, or the agent has stopped waiting for it (500 ms).
LoseCommands(n) ==
    /\ \E u \in Units : cmds[n][u] > 0
    /\ node' = [node EXCEPT ![n] = IF @ = "Offline" THEN "Online" ELSE @]
    /\ PopCommands(n)
    /\ UNCHANGED <<storeVars, wake, eng, pull, reportVars, agentVars>>

\* handleAssign without a container runtime: the unit is reported Failed.
Refuse(n, u) ==
    /\ spawned[n][u] > 0
    /\ spawned' = [spawned EXCEPT ![n][u] = @ - 1]
    /\ Report(n, u, "Failed")
    /\ UNCHANGED <<storeVars, engineVars, rep, launching, box>>

\* executeUnit: report Running, then download, pull the image ...
Launch(n, u) ==
    /\ spawned[n][u] > 0
    /\ spawned' = [spawned EXCEPT ![n][u] = @ - 1]
    /\ launching' = [launching EXCEPT ![n][u] = @ + 1]
    /\ Report(n, u, "Running")
    /\ UNCHANGED <<storeVars, engineVars, rep, box>>

\* ... create the container, unless one with this ID exists, and start it ...
CreateContainer(n, u) ==
    /\ launching[n][u] > 0
    /\ box[n][u] = "none"
    /\ launching' = [launching EXCEPT ![n][u] = @ - 1]
    /\ box' = [box EXCEPT ![n][u] = "running"]
    /\ UNCHANGED <<storeVars, engineVars, reportVars, spawned>>

\* ... or fail in one of these steps.
LaunchFails(n, u) ==
    /\ launching[n][u] > 0
    /\ launching' = [launching EXCEPT ![n][u] = @ - 1]
    /\ Report(n, u, "Failed")
    /\ UNCHANGED <<storeVars, engineVars, rep, spawned, box>>

\* monitorContainer: the container has exited, or has run for 24 hours; its end is
\* reported ...
Exit(n, u, status) ==
    /\ box[n][u] = "running"
    /\ box' = [box EXCEPT ![n][u] = "exited"]
    /\ Report(n, u, status)
    /\ UNCHANGED <<storeVars, engineVars, rep, spawned, launching>>

\* ... and then the container is stopped and removed.
CleanupContainer(n, u) ==
    /\ box[n][u] = "exited"
    /\ box' = [box EXCEPT ![n][u] = "none"]
    /\ UNCHANGED <<storeVars, engineVars, reportVars, spawned, launching>>

\* A launch fails by itself only when the container's ID is still in use.
ExecStep(n, u) ==
    \/ Launch(n, u)
    \/ CreateContainer(n, u)
    \/ box[n][u] # "none" /\ LaunchFails(n, u)
    \/ \E status \in Outcomes : Exit(n, u, status)
    \/ CleanupContainer(n, u)

-----------------------------------------------------------------------------
\* The report stream breaks: what has not been received, from some report on, is gone.
LoseReports(n) ==
    /\ \E k \in 0..(Len(reports[n]) - 1) :
         reports' = [reports EXCEPT ![n] = SubSeq(@, 1, k)]
    /\ UNCHANGED <<storeVars, engineVars, rep, agentVars>>

\* The agent process ends and starts again: its goroutines and what it was sending
\* are gone, its containers stay with nobody to monitor or remove them, and it
\* registers again under its fingerprint.
AgentRestart(n) ==
    /\ node[n] # "None"
    /\ node' = [node EXCEPT ![n] = "Online"]
    /\ \E k \in 0..Len(reports[n]) :
         reports' = [reports EXCEPT ![n] = SubSeq(@, 1, k)]
    /\ spawned' = [spawned EXCEPT ![n] = [u \in Units |-> 0]]
    /\ launching' = [launching EXCEPT ![n] = [u \in Units |-> 0]]
    /\ box' = [box EXCEPT ![n] = [u \in Units |-> CASE @[u] = "running" -> "orphan"
                                                    [] @[u] = "exited"  -> "left"
                                                    [] OTHER            -> @[u]]]
    /\ UNCHANGED <<storeVars, cmds, wake, eng, pull, rep>>

-----------------------------------------------------------------------------
AgentTypeOK ==
    /\ spawned \in [Nodes -> [Units -> Nat]]
    /\ launching \in [Nodes -> [Units -> Nat]]
    /\ box \in [Nodes -> [Units -> BoxStatus]]

AgentInit ==
    /\ spawned = [n \in Nodes |-> [u \in Units |-> 0]]
    /\ launching = [n \in Nodes |-> [u \in Units |-> 0]]
    /\ box = [n \in Nodes |-> [u \in Units |-> "none"]]
=============================================================================
