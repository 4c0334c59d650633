----------------------------- MODULE UnitStore -----------------------------
(***************************************************************************)
(* The part of scheduler/internal/store that scheduling depends on: the     *)
(* unit, job and stage records kept in BoltDB, and the methods that read    *)
(* and write them.  Every method is one BoltDB transaction, hence atomic;   *)
(* a handler that calls two of them takes two steps.  The write-ahead log   *)
(* written after each transaction is modelled elsewhere.                    *)
(*                                                                         *)
(* Units, stages and jobs are identifiers.  Which unit belongs to which     *)
(* stage, which stage to which job, and what a stage depends on is fixed    *)
(* when the job is submitted and never changes, so it is constant here.     *)
(***************************************************************************)
EXTENDS Naturals, FiniteSets

CONSTANTS
    Units, Stages, Jobs, Nodes, \* identifiers
    NoNode,                     \* the empty AssignedNode
    StageOf, JobOf,             \* Unit.StageID and Stage.JobID
    DependsOn,                  \* Stage.DependsOn, resolved to stages of the same job
    Workflow,                   \* the jobs whose Type is JobTypeWorkflow
    MaxRetries                  \* scheduler_engine.max_retries

ASSUME StoreAssumption ==
    /\ Units # {}
    /\ StageOf \in [Units -> Stages]
    /\ JobOf \in [Stages -> Jobs]
    /\ DependsOn \in [Stages -> SUBSET Stages]
    /\ \A s \in Stages : \A d \in DependsOn[s] : JobOf[d] = JobOf[s]
    /\ Workflow \subseteq Jobs
    /\ NoNode \notin Nodes
    /\ MaxRetries \in Nat \ {0}

VARIABLES
    units,  \* bucket "units": status, AssignedNode and RetryCount of each unit
    job,    \* bucket "jobs": Job.Status
    stage,  \* bucket "jobs": Stage.Status of the stages inside the job records
    ripe    \* failed units whose CompletedAt lies at least reassignDelay in the past

storeVars == <<units, job, stage, ripe>>

-----------------------------------------------------------------------------
\* "Absent" stands for a key that is not in its bucket.  An unset stage status
\* is written "Pending": the code only ever asks whether it is a final one.
UnitStatus == {"Absent", "Pending", "Assigned", "Running", "Completed",
               "Failed", "Timeout", "Cancelled"}
StageStatus == {"Pending", "Running", "Completed", "Failed", "Skipped"}
JobStatus == {"Absent", "Pending", "Running", "Completed", "Failed", "Cancelled"}

Unit == [status : UnitStatus, node : Nodes \cup {NoNode}, retry : Nat]

\* No unit: what a snapshot holds for the units it does not contain.
Blank == [status |-> "Absent", node |-> NoNode, retry |-> 0]

\* A unit as the split strategies create it (newUnit).
NewUnit == [Blank EXCEPT !.status = "Pending"]

Active == {"Assigned", "Running"}
Unfinished == {"Pending", "Assigned", "Running"}
StageFinal == {"Completed", "Failed", "Skipped"}
JobActive == {"Pending", "Running"}
JobFinal == {"Completed", "Failed", "Cancelled"}

UnitJob(u) == JobOf[StageOf[u]]
StagesOf(j) == {s \in Stages : JobOf[s] = j}

-----------------------------------------------------------------------------
\* Writes.  Each writes CompletedAt when the status is a failure, so the unit is
\* no longer ripe; for the other statuses CompletedAt is never consulted.

SaveUnit(u, rec) ==
    /\ units' = [units EXCEPT ![u] = rec]
    /\ ripe' = ripe \ {u}

\* The status is overwritten whatever it was: there is no transition check.
UpdateUnitStatus(u, status) == SaveUnit(u, [units[u] EXCEPT !.status = status])

SaveJob(j, status, view) ==
    /\ job' = [job EXCEPT ![j] = status]
    /\ stage' = [s \in Stages |-> IF JobOf[s] = j THEN view[s] ELSE stage[s]]

UpdateJobStatus(j, status) == job' = [job EXCEPT ![j] = status]

UpdateStageStatus(s, status) == stage' = [stage EXCEPT ![s] = status]

-----------------------------------------------------------------------------
\* Reads.

ListUnitsByStatus(statuses) == {u \in Units : units[u].status \in statuses}

ListUnitsByStage(s) == {u \in Units : StageOf[u] = s /\ units[u].status # "Absent"}

ListUnitsByJob(j) == {u \in Units : UnitJob(u) = j /\ units[u].status # "Absent"}

ListUnitsByNodeID(n) == {u \in Units : units[u].node = n /\ units[u].status # "Absent"}

-----------------------------------------------------------------------------
\* Time passes: reassignDelay has elapsed since unit u failed.
DelayElapses(u) ==
    /\ units[u].status = "Failed"
    /\ u \notin ripe
    /\ ripe' = ripe \cup {u}
    /\ UNCHANGED <<units, job, stage>>

StoreTypeOK ==
    /\ units \in [Units -> Unit]
    /\ job \in [Jobs -> JobStatus]
    /\ stage \in [Stages -> StageStatus]
    /\ ripe \subseteq Units

StoreInit ==
    /\ units = [u \in Units |-> Blank]
    /\ job = [j \in Jobs |-> "Absent"]
    /\ stage = [s \in Stages |-> "Pending"]
    /\ ripe = {}
=============================================================================
