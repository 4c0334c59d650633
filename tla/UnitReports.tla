---------------------------- MODULE UnitReports ----------------------------
(***************************************************************************)
(* ReportUnitStatus (scheduler/internal/server): one goroutine per agent    *)
(* stream receives the status reports of that agent one at a time, saves    *)
(* the unit, sends a failed unit back to the queue while it has retries     *)
(* left, and otherwise propagates the status to the stage, to the stages    *)
(* downstream of it and to the job.                                         *)
(*                                                                         *)
(* The handlers of two streams, the engine and the job RPCs share nothing   *)
(* but the store.  Each store transaction is a step; what a handler read in *)
(* an earlier one is in its record: the unit as GetUnit returned it, the    *)
(* stage statuses of the job as GetJob returned them, the victims as        *)
(* ListUnitsByStage returned them.                                          *)
(***************************************************************************)
EXTENDS Engine, Sequences

VARIABLES
    reports,  \* reports sent on each agent's stream and not yet received
    rep       \* the handler of each agent's stream

reportVars == <<reports, rep>>

\* What an agent reports of a unit.
ReportStatus == {"Running", "Completed", "Failed", "Timeout"}

NoView == [s \in Stages |-> "Pending"]

\* todo and victims are sets: the code visits stages in BFS order and units in key
\* order, but each visit writes records of its own, so any order stands for it.
IdleHandler(u) == [pc |-> "idle", unit |-> u, snap |-> Blank, changed |-> FALSE,
                   view |-> NoView, new |-> "Pending", todo |-> {}, victims |-> {}]

\* The unit a handler keeps in its record while it is idle: none in particular.
AnyUnit == CHOOSE u \in Units : TRUE
Idle == IdleHandler(AnyUnit)

-----------------------------------------------------------------------------
\* The handler of n goes on with this record.
Become(n, handler) == rep' = [rep EXCEPT ![n] = handler]

\* Recv and GetUnit; the copy takes the reported status.
RecvReport(n) ==
    /\ rep[n].pc = "idle"
    /\ reports[n] # <<>>
    /\ LET r == Head(reports[n]) IN
         Become(n, IF units[r.unit].status = "Absent" THEN Idle
                   ELSE [IdleHandler(r.unit) EXCEPT
                           !.pc = "save",
                           !.snap = [units[r.unit] EXCEPT !.status = r.status],
                           !.changed = units[r.unit].status # r.status])
    /\ reports' = [reports EXCEPT ![n] = Tail(@)]
    /\ UNCHANGED <<storeVars, engineVars>>

Retries_mutOneMore(rec) == rec.status = "Failed" /\ rec.retry <= MaxRetries

Retries_mutAnyEnd(rec) == rec.status # "Running" /\ rec.retry < MaxRetries

\* A failed unit goes back to the queue.
Retries(rec) == rec.status = "Failed" /\ rec.retry < MaxRetries

\* The copy is saved over whatever the store holds by now.
SaveReport(n) ==
    LET h == rep[n] IN
    /\ h.pc = "save"
    /\ SaveUnit(h.unit, h.snap)
    /\ Become(n, IF ~h.changed THEN Idle
                 ELSE IF Retries(h.snap) THEN [h EXCEPT !.pc = "requeue"]
                 ELSE [IdleHandler(h.unit) EXCEPT !.pc = "job"])
    /\ UNCHANGED <<job, stage, engineVars, reports>>

\* The retry: RetryCount + 1, Pending, no node, and the engine is woken.
Requeue(n) ==
    /\ rep[n].pc = "requeue"
    /\ SaveUnit(rep[n].unit, [NewUnit EXCEPT !.retry = rep[n].snap.retry + 1])
    /\ ScheduleNow
    /\ Become(n, Idle)
    /\ UNCHANGED <<job, stage, node, cmds, eng, pull, reports>>

-----------------------------------------------------------------------------
\* propagateUnitStatus: GetJob; without a job there is nothing to update.
ReadJob(n) ==
    LET h == rep[n] IN
    /\ h.pc = "job"
    /\ Become(n, IF job[UnitJob(h.unit)] = "Absent" THEN Idle
                 ELSE [h EXCEPT !.pc = "list", !.view = stage])
    /\ UNCHANGED <<storeVars, engineVars, reports>>

StageVerdict_mutTimeoutIsFine(listed) ==
    LET statuses == {units[u].status : u \in listed} IN
    IF statuses \cap Unfinished # {} THEN "Running"
    ELSE IF statuses \cap {"Failed", "Cancelled"} # {} THEN "Failed"
    ELSE "Completed"

StageVerdict_mutKeepsTimeout(listed) ==
    LET statuses == {units[u].status : u \in listed} IN
    IF statuses \cap Unfinished # {} THEN "Running"
    ELSE IF "Timeout" \in statuses THEN "Timeout"
    ELSE IF statuses \cap {"Failed", "Cancelled"} # {} THEN "Failed"
    ELSE "Completed"

\* The status of a stage, from the units listed for it.
StageVerdict(listed) ==
    LET statuses == {units[u].status : u \in listed} IN
    IF statuses \cap Unfinished # {} THEN "Running"
    ELSE IF statuses \cap {"Failed", "Cancelled", "Timeout"} # {} THEN "Failed"
    ELSE "Completed"

\* ListUnitsByStage, and the verdict.
ListStage(n) ==
    LET h == rep[n] IN
    /\ h.pc = "list"
    /\ Become(n, [h EXCEPT !.pc = "stage",
                           !.new = StageVerdict(ListUnitsByStage(StageOf[h.unit]))])
    /\ UNCHANGED <<storeVars, engineVars, reports>>

\* The stages reachable from s along DependsOn, s left out: the least set that is
\* closed under "depends on a member" and holds the dependents of s.
Downstream(s) ==
    LET Closed(S) == \A t \in Stages : DependsOn[t] \cap (S \cup {s}) # {} => t \in S
    IN  {t \in Stages \ {s} : \A S \in SUBSET Stages : Closed(S) => t \in S}

\* The stage is written when the verdict differs from the status read with the job;
\* a failed stage starts the cascade over the stages that copy shows unfinished.
WriteStage(n) ==
    LET h == rep[n]
        s == StageOf[h.unit]
        view == [h.view EXCEPT ![s] = h.new]
    IN
    /\ h.pc = "stage"
    /\ IF h.new # h.view[s] THEN UpdateStageStatus(s, h.new) ELSE UNCHANGED stage
    /\ Become(n, IF h.new = "Failed"
                 THEN [h EXCEPT !.pc = "cascade", !.view = view,
                                !.todo = {t \in Downstream(s) : h.view[t] \notin StageFinal}]
                 ELSE [h EXCEPT !.pc = "settle", !.view = view])
    /\ UNCHANGED <<units, job, ripe, engineVars, reports>>

\* cancelDownstreamStages: a downstream stage becomes Skipped; list its units ...
CascadeStage(n) ==
    LET h == rep[n] IN
    /\ h.pc = "cascade"
    /\ h.victims = {}
    /\ \E t \in h.todo :
         /\ UpdateStageStatus(t, "Skipped")
         /\ Become(n, [h EXCEPT !.todo = @ \ {t},
                                !.victims = ListUnitsByStage(t)
                                              \cap ListUnitsByStatus(Unfinished)])
    /\ UNCHANGED <<units, job, ripe, engineVars, reports>>

\* ... and cancel those that were unfinished when listed.
CascadeUnit(n) ==
    LET h == rep[n] IN
    /\ h.pc = "cascade"
    /\ \E u \in h.victims :
         /\ UpdateUnitStatus(u, "Cancelled")
         /\ Become(n, [h EXCEPT !.victims = @ \ {u}])
    /\ UNCHANGED <<job, stage, engineVars, reports>>

Reread_mutKeepsCopy(n) ==
    LET h == rep[n] IN
    /\ h.pc = "cascade"
    /\ h.todo = {} /\ h.victims = {}
    /\ Become(n, [h EXCEPT !.pc = "settle"])
    /\ UNCHANGED <<storeVars, engineVars, reports>>

\* The cascade is over: the job is read again.
Reread(n) ==
    LET h == rep[n] IN
    /\ h.pc = "cascade"
    /\ h.todo = {} /\ h.victims = {}
    /\ Become(n, [h EXCEPT !.pc = "settle", !.view = stage])
    /\ UNCHANGED <<storeVars, engineVars, reports>>

\* When the handler's copy shows every stage final, the job gets its final status,
\* whatever status it has by now, and the engine is woken.
Settle(n) ==
    LET j == UnitJob(rep[n].unit)
        view == rep[n].view
    IN
    /\ rep[n].pc = "settle"
    /\ IF \A s \in StagesOf(j) : view[s] \in StageFinal
       THEN /\ UpdateJobStatus(j, IF \E s \in StagesOf(j) : view[s] = "Failed"
                                  THEN "Failed" ELSE "Completed")
            /\ ScheduleNow
       ELSE UNCHANGED <<job, wake>>
    /\ Become(n, Idle)
    /\ UNCHANGED <<units, stage, ripe, node, cmds, eng, pull, reports>>

HandlerStep(n) ==
    \/ SaveReport(n) \/ Requeue(n) \/ ReadJob(n) \/ ListStage(n) \/ WriteStage(n)
    \/ CascadeStage(n) \/ CascadeUnit(n) \/ Reread(n) \/ Settle(n)

-----------------------------------------------------------------------------
Handler ==
    [pc : {"idle", "save", "requeue", "job", "list", "stage", "cascade", "settle"},
     unit : Units, snap : Unit, changed : BOOLEAN,
     view : [Stages -> StageStatus], new : StageStatus,
     todo : SUBSET Stages, victims : SUBSET Units]

ReportsTypeOK ==
    /\ reports \in [Nodes -> Seq([unit : Units, status : ReportStatus])]
    /\ rep \in [Nodes -> Handler]

ReportsInit ==
    /\ reports = [n \in Nodes |-> <<>>]
    /\ rep = [n \in Nodes |-> Idle]
=============================================================================
