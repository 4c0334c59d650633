------------------------------- MODULE Engine -------------------------------
(***************************************************************************)
(* The scheduling engine (scheduler/internal/scheduler): the scheduling     *)
(* cycle run by one goroutine under scheduleMu, the per-node command queue  *)
(* it pushes to, the wake-up channel, and AssignToNode, the pull path that  *)
(* runs in the goroutine of the AssignUnit RPC and takes no lock.           *)
(*                                                                         *)
(* One action per store transaction or registry read of the cycle.  Two     *)
(* adjacent accesses share an action where no other process can tell the    *)
(* difference: ListOnline and the re-check of the unit, SaveUnit and        *)
(* PushCommand, the status of a skipped stage and the list of its units.    *)
(*                                                                         *)
(* The order in which units, jobs and nodes are taken (map iteration, key   *)
(* order, score) is left open: any order and any suitable node.             *)
(***************************************************************************)
EXTENDS UnitStore

CONSTANT Fits   \* <<unit, node>> pairs that pass the resource, capability,
                \* trust, block-list and self-assignment filters

ASSUME FitsAssumption == Fits \subseteq Units \X Nodes

VARIABLES
    node,   \* registry status of each node; "None": not registered
    cmds,   \* Engine.pendingCommands: assign commands queued, by node and unit
    wake,   \* Engine.wakeCh holds a token
    eng,    \* the running cycle
    pull    \* AssignToNode calls in progress, by node

engineVars == <<node, cmds, wake, eng, pull>>

\* Busy nodes are scheduled like Online ones and are not told apart.
NodeStatus == {"Online", "Unhealthy", "Offline", "None"}

NoBatch == [u \in Units |-> Blank]
InBatch(batch) == {u \in Units : batch[u].status # "Absent"}

IdleEngine == [pc |-> "idle", stale |-> {}, batch |-> NoBatch, left |-> {},
               todo |-> {}, victims |-> {}, ready |-> {}, pick |-> {}]

IdlePull == [pc |-> "idle", batch |-> NoBatch]

-----------------------------------------------------------------------------
\* ScheduleNow: a non-blocking send on a channel of capacity one.
ScheduleNow == wake' = TRUE

PushCommand(n, u) == cmds' = [cmds EXCEPT ![n][u] = @ + 1]

\* PopCommands: all the commands queued for the node, which are then deleted.
PopCommands(n) == cmds' = [cmds EXCEPT ![n] = [u \in Units |-> 0]]

\* A cycle starts: lock, and list the Assigned and Running units with the node
\* each is assigned to.
BeginCycle ==
    /\ eng.pc = "idle"
    /\ eng' = [IdleEngine EXCEPT
                 !.pc = "reclaim",
                 !.stale = {<<u, units[u].node>> : u \in ListUnitsByStatus(Active)}]

\* The goroutine of Start receives from wakeCh.
WakeUp ==
    /\ wake
    /\ BeginCycle
    /\ wake' = FALSE
    /\ UNCHANGED <<storeVars, node, cmds, pull>>

\* The 5 s ticker of Start.
Tick ==
    /\ BeginCycle
    /\ UNCHANGED <<storeVars, node, cmds, wake, pull>>

\* GetNode returns nil, or the node is offline.
Gone(n) == n = NoNode \/ node[n] \in {"None", "Offline"}

\* reclaimStaleUnits: a listed unit whose node is gone becomes Failed, whatever
\* its status is by now.
ReclaimUnit ==
    /\ eng.pc = "reclaim"
    /\ \E p \in eng.stale :
         /\ eng' = [eng EXCEPT !.stale = @ \ {p}]
         /\ IF Gone(p[2]) THEN UpdateUnitStatus(p[1], "Failed")
                          ELSE UNCHANGED <<units, ripe>>
    /\ UNCHANGED <<job, stage, node, cmds, wake, pull>>

ListPending ==
    /\ eng.pc = "reclaim"
    /\ eng.stale = {}
    /\ eng' = [eng EXCEPT
                 !.pc = "retry",
                 !.batch = [u \in Units |-> IF units[u].status = "Pending"
                                            THEN units[u] ELSE Blank]]
    /\ UNCHANGED <<storeVars, node, cmds, wake, pull>>

Retryable_mutNoDelay(u) ==
    /\ units[u].status = "Failed"
    /\ units[u].retry < MaxRetries

\* loadRetryEligibleUnits: which failed units may be scheduled again.
Retryable(u) ==
    /\ units[u].status = "Failed"
    /\ units[u].retry < MaxRetries
    /\ u \in ripe

\* The retryable units join the batch as Pending copies; RetryCount is kept.
ListRetryable ==
    /\ eng.pc = "retry"
    /\ LET batch == [u \in Units |->
                       IF eng.batch[u].status = "Absent" /\ Retryable(u)
                       THEN [units[u] EXCEPT !.status = "Pending", !.node = NoNode]
                       ELSE eng.batch[u]]
       IN  eng' = [eng EXCEPT !.pc = "assign", !.batch = batch,
                              !.left = {UnitJob(u) : u \in InBatch(batch)}]
    /\ UNCHANGED <<storeVars, node, cmds, wake, pull>>

-----------------------------------------------------------------------------
\* TopologicalSort succeeds: the stages can be ranked so that each comes after
\* those it depends on.
Sortable(j) ==
    \E rank \in [StagesOf(j) -> 1..Cardinality(StagesOf(j))] :
       \A s \in StagesOf(j) : \A d \in DependsOn[s] : rank[d] < rank[s]

DepsCompleted_mutNotFailed(s) == \A d \in DependsOn[s] : stage[d] # "Failed"

\* isStageReady, and the dependency check of scheduleWorkflow.
DepsCompleted(s) == \A d \in DependsOn[s] : stage[d] = "Completed"

\* The stages scheduleWorkflow hands to skipStageAndUnits: not final, with a
\* failed direct dependency.
ToSkip(j) == {s \in StagesOf(j) : /\ stage[s] \notin StageFinal
                                  /\ \E d \in DependsOn[s] : stage[d] = "Failed"}

\* The units of the batch that scheduleJob passes to assignUnits.
ReadyUnits(j, batch) ==
    {u \in InBatch(batch) :
        /\ UnitJob(u) = j
        /\ j \in Workflow => /\ stage[StageOf[u]] \notin StageFinal
                             /\ DepsCompleted(StageOf[u])}

\* GetJob, the status check and the dispatch on the job type.  The whole workflow
\* is decided from this one copy of the job.
VisitJob ==
    /\ eng.pc = "assign"
    /\ eng.todo = {} /\ eng.victims = {} /\ eng.ready = {}
    /\ \E j \in eng.left :
         IF job[j] \in JobActive /\ (j \in Workflow => Sortable(j))
         THEN eng' = [eng EXCEPT
                        !.left = @ \ {j},
                        !.todo = IF j \in Workflow THEN ToSkip(j) ELSE {},
                        !.ready = ReadyUnits(j, eng.batch)]
         ELSE eng' = [eng EXCEPT !.left = @ \ {j}]
    /\ UNCHANGED <<storeVars, node, cmds, wake, pull>>

\* skipStageAndUnits: mark the stage and list its units ...
SkipStage ==
    /\ eng.pc = "assign"
    /\ eng.victims = {}
    /\ \E s \in eng.todo :
         /\ UpdateStageStatus(s, "Skipped")
         /\ eng' = [eng EXCEPT
                      !.todo = @ \ {s},
                      !.victims = ListUnitsByStage(s) \cap ListUnitsByStatus(Unfinished)]
    /\ UNCHANGED <<units, job, ripe, node, cmds, wake, pull>>

\* ... and cancel those that were unfinished when listed.
SkipUnit ==
    /\ eng.pc = "assign"
    /\ \E u \in eng.victims :
         /\ UpdateUnitStatus(u, "Cancelled")
         /\ eng' = [eng EXCEPT !.victims = @ \ {u}]
    /\ UNCHANGED <<job, stage, node, cmds, wake, pull>>

Candidates(u) == {n \in Nodes : node[n] = "Online" /\ <<u, n>> \in Fits}

\* assignUnits and the first half of assignUnit: a candidate node and the re-check
\* that the unit may still be assigned; otherwise the unit waits for a later cycle.
PickNode ==
    /\ eng.pc = "assign"
    /\ eng.todo = {} /\ eng.victims = {}
    /\ \E u \in eng.ready :
         LET rest == eng.ready \ {u} IN
         IF Candidates(u) # {} /\ units[u].status \in {"Pending", "Failed"}
         THEN \E n \in Candidates(u) :
                eng' = [eng EXCEPT !.pc = "save", !.ready = rest, !.pick = {<<u, n>>}]
         ELSE eng' = [eng EXCEPT !.ready = rest]
    /\ UNCHANGED <<storeVars, node, cmds, wake, pull>>

\* The second half of assignUnit: the copy listed at the start of the cycle is
\* saved as Assigned over whatever the store holds now, and the command is pushed.
AssignUnit ==
    /\ eng.pc = "save"
    /\ \E p \in eng.pick :
         /\ SaveUnit(p[1], [eng.batch[p[1]] EXCEPT !.status = "Assigned", !.node = p[2]])
         /\ PushCommand(p[2], p[1])
    /\ eng' = [eng EXCEPT !.pc = "assign", !.pick = {}]
    /\ UNCHANGED <<job, stage, node, wake, pull>>

EndCycle ==
    /\ eng.pc = "assign"
    /\ eng.left = {} /\ eng.todo = {} /\ eng.victims = {} /\ eng.ready = {}
    /\ eng' = IdleEngine
    /\ UNCHANGED <<storeVars, node, cmds, wake, pull>>

EngineStep ==
    \/ ReclaimUnit \/ ListPending \/ ListRetryable \/ VisitJob \/ SkipStage
    \/ SkipUnit \/ PickNode \/ AssignUnit \/ EndCycle

-----------------------------------------------------------------------------
\* AssignToNode, the pull path: list the pending units ...
PullList(n) ==
    /\ pull[n].pc = "idle"
    /\ node[n] = "Online"
    /\ pull' = [pull EXCEPT ![n] =
                  [pc |-> "choose",
                   batch |-> [u \in Units |-> IF units[u].status = "Pending"
                                              THEN units[u] ELSE Blank]]]
    /\ UNCHANGED <<storeVars, node, cmds, wake, eng>>

\* ... choose one that passes the filters and whose job and stage are ready ...
PullChoose(n) ==
    /\ pull[n].pc = "choose"
    /\ LET ok == {u \in InBatch(pull[n].batch) :
                    /\ <<u, n>> \in Fits
                    /\ job[UnitJob(u)] \in JobActive
                    /\ UnitJob(u) \in Workflow => DepsCompleted(StageOf[u])}
       IN IF ok = {}
          THEN pull' = [pull EXCEPT ![n] = IdlePull]
          ELSE \E u \in ok :
                 pull' = [pull EXCEPT ![n] =
                            [pc |-> "save",
                             batch |-> [NoBatch EXCEPT ![u] = pull[n].batch[u]]]]
    /\ UNCHANGED <<storeVars, node, cmds, wake, eng>>

\* ... and save the listed copy as Assigned.  The caller runs the unit: no command.
PullSave(n) ==
    /\ pull[n].pc = "save"
    /\ \E u \in InBatch(pull[n].batch) :
         SaveUnit(u, [pull[n].batch[u] EXCEPT !.status = "Assigned", !.node = n])
    /\ pull' = [pull EXCEPT ![n] = IdlePull]
    /\ UNCHANGED <<job, stage, node, cmds, wake, eng>>

PullStep(n) == PullChoose(n) \/ PullSave(n)

-----------------------------------------------------------------------------
Cycle == [pc : {"idle", "reclaim", "retry", "assign", "save"},
          stale : SUBSET (Units \X (Nodes \cup {NoNode})),
          batch : [Units -> Unit],
          left : SUBSET Jobs, todo : SUBSET Stages,
          victims : SUBSET Units, ready : SUBSET Units,
          pick : SUBSET (Units \X Nodes)]

PullCall == [pc : {"idle", "choose", "save"}, batch : [Units -> Unit]]

EngineTypeOK ==
    /\ node \in [Nodes -> NodeStatus]
    /\ cmds \in [Nodes -> [Units -> Nat]]
    /\ wake \in BOOLEAN
    /\ eng \in Cycle
    /\ pull \in [Nodes -> PullCall]

EngineInit ==
    /\ node = [n \in Nodes |-> "Online"]
    /\ cmds = [n \in Nodes |-> [u \in Units |-> 0]]
    /\ wake = FALSE
    /\ eng = IdleEngine
    /\ pull = [n \in Nodes |-> IdlePull]
=============================================================================
