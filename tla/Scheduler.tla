----------------------------- MODULE Scheduler -----------------------------
(***************************************************************************)
(* The scheduling core as a whole: the engine, the report handlers, the job *)
(* and node RPCs and the agents, over one store.  Their steps interleave in *)
(* every order.                                                             *)
(*                                                                         *)
(* What the environment may do besides (nodes going offline, lost messages, *)
(* crashes, cancellations) is bounded by a budget for each kind of event.   *)
(***************************************************************************)
EXTENDS AgentExec, JobControl

CONSTANTS
    Budget,  \* how often each kind of event may happen
    Prompt   \* reassignDelay never elapses between the two saves of one report

Kinds == {"flap", "cancel", "pull", "unregister", "crash", "lose", "agent", "refuse", "submit",
          "delay"}

ASSUME BudgetAssumption == Budget \in [Kinds -> Nat] /\ Prompt \in BOOLEAN

VARIABLES
    budget,  \* what is left of Budget
    done     \* history: the units the store has held as Completed

vars == <<storeVars, engineVars, reportVars, agentVars, controlVars, budget, done>>

Spend(kind) ==
    /\ budget[kind] > 0
    /\ budget' = [budget EXCEPT ![kind] = @ - 1]

Free == UNCHANGED budget

-----------------------------------------------------------------------------
EngineNext ==
    /\ EngineStep \/ WakeUp \/ Tick
    /\ Free
    /\ UNCHANGED <<reportVars, agentVars, controlVars>>

PullNext ==
    /\ \E n \in Nodes : \/ PullList(n) /\ Spend("pull")
                        \/ PullStep(n) /\ Free
    /\ UNCHANGED <<reportVars, agentVars, controlVars>>

HandlerNext(n) ==
    /\ RecvReport(n) \/ HandlerStep(n)
    /\ Free
    /\ UNCHANGED <<agentVars, controlVars>>

ExecNext(n, u) ==
    /\ ExecStep(n, u)
    /\ Free
    /\ UNCHANGED controlVars

HeartbeatNext(n) ==
    /\ Heartbeat(n)
    /\ Free
    /\ UNCHANGED controlVars

AgentFault ==
    /\ \/ \E n \in Nodes, u \in Units : Refuse(n, u) /\ Spend("refuse")
       \/ \E n \in Nodes, u \in Units : LaunchFails(n, u) /\ Spend("refuse")
       \/ \E n \in Nodes : LoseCommands(n) /\ Spend("lose")
       \/ \E n \in Nodes : LoseReports(n) /\ Spend("lose")
       \/ \E n \in Nodes : AgentRestart(n) /\ Spend("agent")
    /\ UNCHANGED controlVars

ControlNext ==
    /\ \/ \E u \in Units : SubmitUnit(u) /\ Free
       \/ \E j \in Jobs : SubmitJob(j) /\ Free
       \/ \E j \in Jobs : SubmitFails(j) /\ Spend("submit")
       \/ \E j \in Jobs : CancelBegin(j) /\ Spend("cancel")
       \/ CancelStep /\ Free
       \/ \E n \in Nodes : UnregBegin(n) /\ Spend("unregister")
       \/ UnregStep /\ Free
    /\ UNCHANGED <<reportVars, agentVars>>

\* The failure detector moves a registered node between its states (heartbeats late
\* or missing, then back in time).
Flap ==
    /\ Spend("flap")
    /\ \E n \in Nodes, status \in {"Online", "Unhealthy", "Offline"} :
         /\ node[n] # "None"
         /\ node' = [node EXCEPT ![n] = status]
    /\ UNCHANGED <<storeVars, cmds, wake, eng, pull, reportVars, agentVars, controlVars>>

\* A handler is about to send u back to the queue.
Requeuing(u) == \E n \in Nodes : rep[n].pc = "requeue" /\ rep[n].unit = u

Delay ==
    /\ Spend("delay")
    /\ \E u \in Units : (Prompt => ~Requeuing(u)) /\ DelayElapses(u)
    /\ UNCHANGED <<engineVars, reportVars, agentVars, controlVars>>

\* The scheduler process ends and starts again.  The store is all that is left: the
\* command queues, the cycle, the calls and the streams with what they carried are
\* gone, the nodes are loaded as Online, and the engine runs a cycle at once.
Restart ==
    /\ Spend("crash")
    /\ node' = [n \in Nodes |-> IF node[n] = "None" THEN "None" ELSE "Online"]
    /\ cmds' = [n \in Nodes |-> [u \in Units |-> 0]]
    /\ wake' = TRUE
    /\ eng' = IdleEngine
    /\ pull' = [n \in Nodes |-> IdlePull]
    /\ reports' = [n \in Nodes |-> <<>>]
    /\ rep' = [n \in Nodes |-> Idle]
    /\ submit' = [j \in Jobs |-> IF submit[j] = "units" THEN "done" ELSE submit[j]]
    /\ cancel' = IdleCancel
    /\ unreg' = IdleUnreg
    /\ UNCHANGED <<storeVars, agentVars>>

Init ==
    /\ StoreInit /\ EngineInit /\ ReportsInit /\ AgentInit /\ ControlInit
    /\ budget = Budget
    /\ done = {}

Record == done' = done \cup {u \in Units : units'[u].status = "Completed"}

Next ==
    /\ \/ EngineNext \/ PullNext \/ ControlNext \/ AgentFault
       \/ \E n \in Nodes : HandlerNext(n) \/ HeartbeatNext(n)
       \/ \E n \in Nodes, u \in Units : ExecNext(n, u)
       \/ Flap \/ Delay \/ Restart
    /\ Record

Spec == Init /\ [][Next]_vars

\* What CancelJob and UnregisterNode have begun, they go on with.
ControlStep == (CancelStep \/ UnregStep) /\ Free /\ UNCHANGED <<reportVars, agentVars>>

\* The engine's goroutine runs and its ticker fires; handlers, RPCs and agents take
\* the steps open to them; heartbeats go on.  Nothing is assumed of the environment.
Fairness ==
    /\ WF_vars(EngineNext /\ Record)
    /\ WF_vars(ControlStep /\ Record)
    /\ \A n \in Nodes : /\ WF_vars(HandlerNext(n) /\ Record)
                        /\ WF_vars(HeartbeatNext(n) /\ Record)
    /\ \A n \in Nodes, u \in Units : WF_vars(ExecNext(n, u) /\ Record)

LiveSpec == Spec /\ Fairness

-----------------------------------------------------------------------------
TypeOK ==
    /\ StoreTypeOK /\ EngineTypeOK /\ ReportsTypeOK /\ AgentTypeOK /\ ControlTypeOK
    /\ budget \in [Kinds -> Nat]
    /\ done \subseteq Units

\* RetryCount never exceeds max_retries: not in the store, not in a copy a handler,
\* the engine or a pull call is about to save.
RetryBound ==
    \A u \in Units :
       /\ units[u].retry <= MaxRetries
       /\ eng.batch[u].retry <= MaxRetries
       /\ \A n \in Nodes : /\ rep[n].snap.retry <= MaxRetries
                           /\ pull[n].batch[u].retry <= MaxRetries

Executions(n, u) ==
    cmds[n][u] + spawned[n][u] + launching[n][u]
      + (IF box[n][u] \in {"running", "orphan"} THEN 1 ELSE 0)

\* A unit is with one node at most, once: as a queued command, as a goroutine about
\* to run it, or as a container.
SingleExecution ==
    \A u \in Units :
       /\ \A n \in Nodes : Executions(n, u) <= 1
       /\ \A m, n \in Nodes : Executions(m, u) > 0 /\ Executions(n, u) > 0 => m = n

\* The node a unit is with.
Holder(u) ==
    IF \E n \in Nodes : Executions(n, u) > 0
    THEN CHOOSE n \in Nodes : Executions(n, u) > 0
    ELSE NoNode

Life == INSTANCE UnitLife WITH
            holder <- [u \in Units |-> Holder(u)],
            tries <- [u \in Units |-> units[u].retry],
            completed <- done

\* Engine, handlers, RPCs and agents together keep what is promised of a unit: no step hands
\* it from one node to another, counts a retry while a node has it, or gives out a unit that
\* has been Completed.
KeepsUnitLife == Life!Spec

\* RetryCount never goes down: no stale copy of a unit undoes a retry.
RetryMonotone == [][\A u \in Units : units'[u].retry >= units[u].retry]_vars

Dispatched(u) ==
    \/ units[u].status \in Active
    \/ \E n \in Nodes : cmds[n][u] + spawned[n][u] + launching[n][u] > 0
                        \/ box[n][u] # "none"

\* A unit of a workflow is handed to a node only after every unit of every stage its
\* stage depends on has been Completed.
DagOrder ==
    \A u \in Units :
       UnitJob(u) \in Workflow /\ Dispatched(u) =>
          \A v \in Units : StageOf[v] \in DependsOn[StageOf[u]] => v \in done

\* A job is reported Completed only if each of its units has been Completed.
CompletedJobIsDone ==
    \A j \in Jobs : job[j] = "Completed" => \A u \in Units : UnitJob(u) = j => u \in done

\* A submitted job ends.
Settles == \A j \in Jobs : job[j] = "Pending" ~> job[j] \in JobFinal
=============================================================================
