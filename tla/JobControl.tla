----------------------------- MODULE JobControl -----------------------------
(***************************************************************************)
(* The RPCs of scheduler/internal/server that change jobs and nodes while   *)
(* the engine and the report handlers run: SubmitJob, CancelJob and         *)
(* UnregisterNode.  None of them takes scheduleMu: each is a sequence of    *)
(* store transactions, and its steps interleave with everything else.       *)
(*                                                                         *)
(* One CancelJob call and one UnregisterNode call are in progress at a      *)
(* time; every job is submitted once.                                       *)
(***************************************************************************)
EXTENDS Engine

VARIABLES
    submit,  \* per job: "new", "units" (SubmitJob is saving units) or "done"
    cancel,  \* the CancelJob call in progress
    unreg    \* the UnregisterNode call in progress

controlVars == <<submit, cancel, unreg>>

IdleCancel == [pc |-> "idle", job |-> CHOOSE j \in Jobs : TRUE,
               view |-> [s \in Stages |-> "Pending"], victims |-> {}]

IdleUnreg == [pc |-> "idle", node |-> NoNode, victims |-> {}]

-----------------------------------------------------------------------------
\* SubmitJob: the units that executeSplit creates are saved one by one ...
SubmitUnit(u) ==
    /\ submit[UnitJob(u)] \in {"new", "units"}
    /\ units[u].status = "Absent"
    /\ SaveUnit(u, NewUnit)
    /\ submit' = [submit EXCEPT ![UnitJob(u)] = "units"]
    /\ UNCHANGED <<job, stage, engineVars, cancel, unreg>>

\* ... then the job, with its stages ...
SubmitJob(j) ==
    /\ submit[j] \in {"new", "units"}
    /\ \A u \in Units : UnitJob(u) = j => units[u].status # "Absent"
    /\ SaveJob(j, "Pending", [s \in Stages |-> "Pending"])
    /\ ScheduleNow
    /\ submit' = [submit EXCEPT ![j] = "done"]
    /\ UNCHANGED <<units, ripe, node, cmds, eng, pull, cancel, unreg>>

\* ... or a later stage cannot be split or a save fails: the RPC returns an error
\* and the units saved so far stay in the store.
SubmitFails(j) ==
    /\ submit[j] = "units"
    /\ submit' = [submit EXCEPT ![j] = "done"]
    /\ UNCHANGED <<storeVars, engineVars, cancel, unreg>>

-----------------------------------------------------------------------------
\* CancelJob: GetJob ...
CancelBegin(j) ==
    /\ cancel.pc = "idle"
    /\ job[j] # "Absent"
    /\ cancel' = [IdleCancel EXCEPT !.pc = "list", !.job = j, !.view = stage]
    /\ UNCHANGED <<storeVars, engineVars, submit, unreg>>

\* ... list the job's units ...
CancelList ==
    /\ cancel.pc = "list"
    /\ cancel' = [cancel EXCEPT
                    !.pc = "units",
                    !.victims = ListUnitsByJob(cancel.job) \cap ListUnitsByStatus(Unfinished)]
    /\ UNCHANGED <<storeVars, engineVars, submit, unreg>>

\* ... cancel those that were unfinished when listed ...
CancelUnit ==
    /\ cancel.pc = "units"
    /\ \E u \in cancel.victims :
         /\ UpdateUnitStatus(u, "Cancelled")
         /\ cancel' = [cancel EXCEPT !.victims = @ \ {u}]
    /\ UNCHANGED <<job, stage, engineVars, submit, unreg>>

\* ... and save the job read at the start, with its stages, as Cancelled.
CancelSave ==
    /\ cancel.pc = "units"
    /\ cancel.victims = {}
    /\ SaveJob(cancel.job, "Cancelled",
               [s \in Stages |-> IF cancel.view[s] \in {"Completed", "Failed"}
                                 THEN cancel.view[s] ELSE "Skipped"])
    /\ ScheduleNow
    /\ cancel' = IdleCancel
    /\ UNCHANGED <<units, ripe, node, cmds, eng, pull, submit, unreg>>

CancelStep == CancelList \/ CancelUnit \/ CancelSave

-----------------------------------------------------------------------------
\* UnregisterNode: reclaimNodeUnits lists the units of the node ...
UnregBegin(n) ==
    /\ unreg.pc = "idle"
    /\ node[n] # "None"
    /\ unreg' = [pc |-> "units", node |-> n,
                 victims |-> ListUnitsByNodeID(n) \cap ListUnitsByStatus(Active)]
    /\ UNCHANGED <<storeVars, engineVars, submit, cancel>>

\* ... fails those that were active when listed ...
UnregUnit ==
    /\ unreg.pc = "units"
    /\ \E u \in unreg.victims :
         /\ UpdateUnitStatus(u, "Failed")
         /\ unreg' = [unreg EXCEPT !.victims = @ \ {u}]
    /\ UNCHANGED <<job, stage, engineVars, submit, cancel>>

\* ... and the node leaves the registry.
UnregRemove ==
    /\ unreg.pc = "units"
    /\ unreg.victims = {}
    /\ node' = [node EXCEPT ![unreg.node] = "None"]
    /\ ScheduleNow
    /\ unreg' = IdleUnreg
    /\ UNCHANGED <<storeVars, cmds, eng, pull, submit, cancel>>

UnregStep == UnregUnit \/ UnregRemove

-----------------------------------------------------------------------------
ControlTypeOK ==
    /\ submit \in [Jobs -> {"new", "units", "done"}]
    /\ cancel \in [pc : {"idle", "list", "units"}, job : Jobs,
                   view : [Stages -> StageStatus], victims : SUBSET Units]
    /\ unreg \in [pc : {"idle", "units"}, node : Nodes \cup {NoNode},
                  victims : SUBSET Units]

ControlInit ==
    /\ submit = [j \in Jobs |-> "new"]
    /\ cancel = IdleCancel
    /\ unreg = IdleUnreg
=============================================================================
