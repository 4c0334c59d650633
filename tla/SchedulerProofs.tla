-------------------------- MODULE SchedulerProofs --------------------------
(***************************************************************************)
(* Theorems about Scheduler, for any sets of units, stages, jobs and nodes, *)
(* any number of retries and any budget of faults.                          *)
(***************************************************************************)
EXTENDS Scheduler, SequenceTheorems, TLAPS

USE StoreAssumption, FitsAssumption, OutcomesAssumption, BudgetAssumption

-----------------------------------------------------------------------------
\* The writes of the store keep its records well formed.

LEMMA SaveUnitType ==
    ASSUME StoreTypeOK, NEW u \in Units, NEW rec \in Unit, SaveUnit(u, rec)
    PROVE  units' \in [Units -> Unit] /\ ripe' \subseteq Units
  BY DEF StoreTypeOK, SaveUnit

LEMMA UnitEdit ==
    ASSUME NEW rec \in Unit, NEW status \in UnitStatus, NEW n \in Nodes \cup {NoNode}
    PROVE  /\ [rec EXCEPT !.status = status] \in Unit
           /\ [rec EXCEPT !.status = status, !.node = n] \in Unit
  BY DEF Unit

LEMMA UpdateUnitStatusType ==
    ASSUME StoreTypeOK, NEW u \in Units, NEW status \in UnitStatus,
           UpdateUnitStatus(u, status)
    PROVE  units' \in [Units -> Unit] /\ ripe' \subseteq Units
  <1>1. [units[u] EXCEPT !.status = status] \in Unit
    BY DEF StoreTypeOK, Unit
  <1> QED
    BY <1>1, SaveUnitType DEF UpdateUnitStatus

LEMMA BlankType == Blank \in Unit /\ NewUnit \in Unit
  BY DEF Blank, NewUnit, Unit, UnitStatus

\* Counting one up, or one down from more than none.
LEMMA CountType ==
    ASSUME NEW f \in [Nodes -> [Units -> Nat]], NEW n \in Nodes, NEW u \in Units
    PROVE  /\ [f EXCEPT ![n][u] = @ + 1] \in [Nodes -> [Units -> Nat]]
           /\ f[n][u] > 0 => [f EXCEPT ![n][u] = @ - 1] \in [Nodes -> [Units -> Nat]]
  OBVIOUS

LEMMA JobTypes == /\ \A u \in Units : StageOf[u] \in Stages /\ UnitJob(u) \in Jobs
                  /\ (CHOOSE u \in Units : TRUE) \in Units
                  /\ (CHOOSE j \in Jobs : TRUE) \in Jobs
  BY DEF UnitJob

LEMMA IdleTypes ==
    /\ \A u \in Units : IdleHandler(u).unit = u
    /\ AnyUnit \in Units
  BY JobTypes DEF AnyUnit, IdleHandler

-----------------------------------------------------------------------------
THEOREM InitType == Init => TypeOK
  <1> SUFFICES ASSUME Init PROVE TypeOK
    OBVIOUS
  <1>1. StoreTypeOK
    BY BlankType DEF Init, StoreInit, StoreTypeOK, JobStatus, StageStatus
  <1>2. EngineTypeOK
    <2>1. IdleEngine \in Cycle /\ IdlePull \in PullCall
      BY BlankType DEF NoBatch, IdleEngine, IdlePull, Cycle, PullCall
    <2> QED
      BY <2>1 DEF Init, EngineInit, EngineTypeOK, NodeStatus
  <1>3. ReportsTypeOK
    BY BlankType, IdleTypes
    DEF Init, ReportsInit, ReportsTypeOK, Handler, Idle, IdleHandler, NoView, StageStatus
  <1>4. AgentTypeOK
    BY DEF Init, AgentInit, AgentTypeOK, BoxStatus
  <1>5. ControlTypeOK
    BY JobTypes DEF Init, ControlInit, ControlTypeOK, IdleCancel, IdleUnreg, StageStatus
  <1> QED
    BY <1>1, <1>2, <1>3, <1>4, <1>5 DEF TypeOK, Init

-----------------------------------------------------------------------------
\* One lemma per component: each of its actions preserves the type of the variables
\* the component may change.

LEMMA EngineStepType ==
    ASSUME StoreTypeOK, EngineTypeOK, EngineStep \/ WakeUp \/ Tick
    PROVE  StoreTypeOK' /\ EngineTypeOK'
  <1>e. eng \in Cycle
    BY DEF EngineTypeOK
  <1>i. IdleEngine \in Cycle
    BY BlankType DEF NoBatch, IdleEngine, Cycle
  <1>1. CASE WakeUp \/ Tick
    <2>1. BeginCycle /\ wake' \in BOOLEAN /\ UNCHANGED <<storeVars, node, cmds, pull>>
      BY <1>1 DEF WakeUp, Tick, EngineTypeOK
    <2>2. {<<u, units[u].node>> : u \in ListUnitsByStatus(Active)}
            \in SUBSET (Units \X (Nodes \cup {NoNode}))
      BY DEF StoreTypeOK, ListUnitsByStatus, Unit
    <2>3. eng' \in Cycle
      BY <1>i, <2>1, <2>2 DEF BeginCycle, Cycle
    <2> QED
      BY <2>1, <2>3 DEF EngineTypeOK, StoreTypeOK, storeVars
  <1>2. CASE ReclaimUnit
    <2>1. PICK p \in eng.stale : /\ eng' = [eng EXCEPT !.stale = @ \ {p}]
                                 /\ \/ UpdateUnitStatus(p[1], "Failed")
                                    \/ UNCHANGED <<units, ripe>>
      BY <1>2 DEF ReclaimUnit
    <2>2. p[1] \in Units /\ eng' \in Cycle
      BY <1>e, <2>1 DEF Cycle
    <2>3. units' \in [Units -> Unit] /\ ripe' \subseteq Units
      BY <2>1, <2>2, UpdateUnitStatusType DEF UnitStatus, StoreTypeOK
    <2> QED
      BY <1>2, <2>2, <2>3 DEF ReclaimUnit, EngineTypeOK, StoreTypeOK
  <1>3. CASE ListPending
    <2>1. [u \in Units |-> IF units[u].status = "Pending" THEN units[u] ELSE Blank]
            \in [Units -> Unit]
      BY BlankType DEF StoreTypeOK
    <2>2. eng' \in Cycle
      BY <1>3, <1>e, <2>1 DEF ListPending, Cycle
    <2> QED
      BY <1>3, <2>2 DEF ListPending, EngineTypeOK, StoreTypeOK, storeVars
  <1>4. CASE ListRetryable
    <2> DEFINE batch == [u \in Units |->
                           IF eng.batch[u].status = "Absent" /\ Retryable(u)
                           THEN [units[u] EXCEPT !.status = "Pending", !.node = NoNode]
                           ELSE eng.batch[u]]
    <2>1. \A u \in Units : units[u] \in Unit /\ eng.batch[u] \in Unit
      BY <1>e DEF StoreTypeOK, Cycle
    <2>2. \A u \in Units : [units[u] EXCEPT !.status = "Pending", !.node = NoNode] \in Unit
      BY <2>1, UnitEdit DEF UnitStatus
    <2>3. batch \in [Units -> Unit]
      BY <2>1, <2>2
    <2>4. {UnitJob(u) : u \in InBatch(batch)} \subseteq Jobs
      BY JobTypes DEF InBatch
    <2>5. eng' = [eng EXCEPT !.pc = "assign", !.batch = batch,
                             !.left = {UnitJob(u) : u \in InBatch(batch)}]
      BY <1>4 DEF ListRetryable
    <2> HIDE DEF batch
    <2>6. eng' \in Cycle
      BY <1>e, <2>3, <2>4, <2>5 DEF Cycle
    <2> QED
      BY <1>4, <2>6 DEF ListRetryable, EngineTypeOK, StoreTypeOK, storeVars
  <1>5. CASE VisitJob
    <2>1. PICK j \in eng.left :
            \/ eng' = [eng EXCEPT !.left = @ \ {j},
                                  !.todo = IF j \in Workflow THEN ToSkip(j) ELSE {},
                                  !.ready = ReadyUnits(j, eng.batch)]
            \/ eng' = [eng EXCEPT !.left = @ \ {j}]
      BY <1>5 DEF VisitJob
    <2> DEFINE skip == IF j \in Workflow THEN ToSkip(j) ELSE {}
               some == ReadyUnits(j, eng.batch)
    <2>2. skip \in SUBSET Stages /\ some \in SUBSET Units
      BY DEF ToSkip, StagesOf, ReadyUnits, InBatch
    <2>3. \/ eng' = [eng EXCEPT !.left = @ \ {j}, !.todo = skip, !.ready = some]
          \/ eng' = [eng EXCEPT !.left = @ \ {j}]
      BY <2>1
    <2> HIDE DEF skip, some
    <2>4. ASSUME eng' = [eng EXCEPT !.left = @ \ {j}, !.todo = skip, !.ready = some]
          PROVE  eng' \in Cycle
      BY <1>e, <2>2, <2>4 DEF Cycle
    <2>5. ASSUME eng' = [eng EXCEPT !.left = @ \ {j}]
          PROVE  eng' \in Cycle
      BY <1>e, <2>5 DEF Cycle
    <2>6. eng' \in Cycle
      BY <2>3, <2>4, <2>5
    <2> QED
      BY <1>5, <2>6 DEF VisitJob, EngineTypeOK, StoreTypeOK, storeVars
  <1>6. CASE SkipStage
    <2>1. PICK s \in eng.todo :
            /\ UpdateStageStatus(s, "Skipped")
            /\ eng' = [eng EXCEPT
                         !.todo = @ \ {s},
                         !.victims = ListUnitsByStage(s) \cap ListUnitsByStatus(Unfinished)]
      BY <1>6 DEF SkipStage
    <2>2. eng' \in Cycle
      BY <1>e, <2>1 DEF Cycle, ListUnitsByStage
    <2>3. stage' \in [Stages -> StageStatus]
      BY <2>1 DEF UpdateStageStatus, StoreTypeOK, StageStatus
    <2> QED
      BY <1>6, <2>2, <2>3 DEF SkipStage, EngineTypeOK, StoreTypeOK
  <1>7. CASE SkipUnit
    <2>1. PICK u \in eng.victims : /\ UpdateUnitStatus(u, "Cancelled")
                                   /\ eng' = [eng EXCEPT !.victims = @ \ {u}]
      BY <1>7 DEF SkipUnit
    <2>2. u \in Units /\ eng' \in Cycle
      BY <1>e, <2>1 DEF Cycle
    <2>3. units' \in [Units -> Unit] /\ ripe' \subseteq Units
      BY <2>1, <2>2, UpdateUnitStatusType DEF UnitStatus
    <2> QED
      BY <1>7, <2>2, <2>3 DEF SkipUnit, EngineTypeOK, StoreTypeOK
  <1>8. CASE PickNode
    <2>1. PICK u \in eng.ready :
            \/ \E n \in Candidates(u) :
                  eng' = [eng EXCEPT !.pc = "save", !.ready = eng.ready \ {u},
                                     !.pick = {<<u, n>>}]
            \/ eng' = [eng EXCEPT !.ready = eng.ready \ {u}]
      BY <1>8 DEF PickNode
    <2>2. Candidates(u) \subseteq Nodes /\ u \in Units
      BY <1>e DEF Candidates, Cycle
    <2>3. CASE eng' = [eng EXCEPT !.ready = eng.ready \ {u}]
      BY <1>8, <1>e, <2>3 DEF PickNode, EngineTypeOK, StoreTypeOK, storeVars, Cycle
    <2>4. ASSUME NEW n \in Candidates(u),
                 eng' = [eng EXCEPT !.pc = "save", !.ready = eng.ready \ {u},
                                    !.pick = {<<u, n>>}]
          PROVE  eng' \in Cycle
      <3>1. {<<u, n>>} \in SUBSET (Units \X Nodes)
        BY <2>2
      <3> DEFINE pick == {<<u, n>>}
      <3> HIDE DEF pick
      <3> QED
        BY <1>e, <2>4, <3>1 DEF Cycle
    <2> QED
      BY <1>8, <2>1, <2>3, <2>4 DEF PickNode, EngineTypeOK, StoreTypeOK, storeVars
  <1>9. CASE AssignUnit
    <2>1. PICK p \in eng.pick :
            /\ SaveUnit(p[1], [eng.batch[p[1]] EXCEPT !.status = "Assigned", !.node = p[2]])
            /\ PushCommand(p[2], p[1])
      BY <1>9 DEF AssignUnit
    <2>2. p[1] \in Units /\ p[2] \in Nodes /\ eng.batch[p[1]] \in Unit
      BY <1>e DEF Cycle
    <2>3. [eng.batch[p[1]] EXCEPT !.status = "Assigned", !.node = p[2]] \in Unit
      BY <2>2, UnitEdit DEF UnitStatus
    <2>4. units' \in [Units -> Unit] /\ ripe' \subseteq Units
      BY <2>1, <2>2, <2>3, SaveUnitType
    <2>5. cmds' \in [Nodes -> [Units -> Nat]]
      BY <2>1, <2>2, CountType DEF PushCommand, EngineTypeOK
    <2>6. eng' \in Cycle
      BY <1>9, <1>e DEF AssignUnit, Cycle
    <2> QED
      BY <1>9, <2>4, <2>5, <2>6 DEF AssignUnit, EngineTypeOK, StoreTypeOK
  <1>10. CASE EndCycle
    BY <1>10, <1>i DEF EndCycle, EngineTypeOK, StoreTypeOK, storeVars
  <1> QED
    BY <1>1, <1>2, <1>3, <1>4, <1>5, <1>6, <1>7, <1>8, <1>9, <1>10 DEF EngineStep

LEMMA PullType ==
    ASSUME StoreTypeOK, EngineTypeOK, NEW n \in Nodes, PullList(n) \/ PullStep(n)
    PROVE  StoreTypeOK' /\ EngineTypeOK'
  <1>p. pull \in [Nodes -> PullCall] /\ pull[n].batch \in [Units -> Unit]
    BY DEF EngineTypeOK, PullCall
  <1>b. NoBatch \in [Units -> Unit] /\ IdlePull \in PullCall
    BY BlankType DEF NoBatch, IdlePull, PullCall
  <1>1. CASE PullList(n)
    <2>1. [u \in Units |-> IF units[u].status = "Pending" THEN units[u] ELSE Blank]
            \in [Units -> Unit]
      BY BlankType DEF StoreTypeOK
    <2>2. pull' \in [Nodes -> PullCall]
      BY <1>1, <1>p, <2>1 DEF PullList, PullCall
    <2> QED
      BY <1>1, <2>2 DEF PullList, EngineTypeOK, StoreTypeOK, storeVars
  <1>2. CASE PullChoose(n)
    <2>1. \A u \in Units : [pc |-> "save", batch |-> [NoBatch EXCEPT ![u] = pull[n].batch[u]]]
                             \in PullCall
      BY <1>b, <1>p DEF PullCall
    <2>2. \/ pull' = [pull EXCEPT ![n] = IdlePull]
          \/ \E u \in Units :
               pull' = [pull EXCEPT ![n] =
                          [pc |-> "save",
                           batch |-> [NoBatch EXCEPT ![u] = pull[n].batch[u]]]]
      BY <1>2 DEF PullChoose, InBatch
    <2>3. pull' \in [Nodes -> PullCall]
      BY <1>p, <1>b, <2>1, <2>2
    <2> QED
      BY <1>2, <2>3 DEF PullChoose, EngineTypeOK, StoreTypeOK, storeVars
  <1>3. CASE PullSave(n)
    <2>1. PICK u \in Units :
            SaveUnit(u, [pull[n].batch[u] EXCEPT !.status = "Assigned", !.node = n])
      BY <1>3 DEF PullSave, InBatch
    <2>2. [pull[n].batch[u] EXCEPT !.status = "Assigned", !.node = n] \in Unit
      BY <1>p, UnitEdit DEF UnitStatus
    <2>3. units' \in [Units -> Unit] /\ ripe' \subseteq Units
      BY <2>1, <2>2, SaveUnitType
    <2>4. pull' \in [Nodes -> PullCall]
      BY <1>3, <1>b, <1>p DEF PullSave
    <2> QED
      BY <1>3, <2>3, <2>4 DEF PullSave, EngineTypeOK, StoreTypeOK
  <1> QED
    BY <1>1, <1>2, <1>3 DEF PullStep

-----------------------------------------------------------------------------
LEMMA HandlerEdit ==
    ASSUME NEW h \in Handler
    PROVE  /\ Idle \in Handler
           /\ IdleHandler(h.unit) \in Handler
           /\ [IdleHandler(h.unit) EXCEPT !.pc = "job"] \in Handler
           /\ [h EXCEPT !.pc = "requeue"] \in Handler
  BY BlankType, IdleTypes DEF Idle, IdleHandler, NoView, Handler, StageStatus

LEMMA HandlerType ==
    ASSUME StoreTypeOK, EngineTypeOK, ReportsTypeOK, NEW n \in Nodes,
           RecvReport(n) \/ HandlerStep(n)
    PROVE  StoreTypeOK' /\ EngineTypeOK' /\ ReportsTypeOK'
  <1> DEFINE h == rep[n]
  <1>h. h \in Handler
    BY DEF ReportsTypeOK
  <1>b. \A x \in Handler : Become(n, x) => rep' \in [Nodes -> Handler]
    BY DEF ReportsTypeOK, Become
  <1>w. ScheduleNow => wake' \in BOOLEAN
    BY DEF ScheduleNow
  <1> HIDE DEF h
  <1>1. CASE RecvReport(n)
    <2> DEFINE r == Head(reports[n])
    <2>1. reports[n] \in Seq([unit : Units, status : ReportStatus]) /\ reports[n] # <<>>
      BY <1>1 DEF RecvReport, ReportsTypeOK
    <2>2. r \in [unit : Units, status : ReportStatus] /\ Tail(reports[n]) \in
            Seq([unit : Units, status : ReportStatus])
      BY <2>1, HeadTailProperties
    <2>3. reports' \in [Nodes -> Seq([unit : Units, status : ReportStatus])]
      BY <1>1, <2>2 DEF RecvReport, ReportsTypeOK
    <2> HIDE DEF r
    <2>4. r.unit \in Units /\ r.status \in UnitStatus
      BY <2>2 DEF ReportStatus, UnitStatus
    <2> DEFINE snap == [units[r.unit] EXCEPT !.status = r.status]
               changed == units[r.unit].status # r.status
    <2>5. snap \in Unit /\ changed \in BOOLEAN
      BY <2>4, UnitEdit DEF StoreTypeOK
    <2>6. Become(n, Idle) \/ Become(n, [IdleHandler(r.unit) EXCEPT
                                          !.pc = "save", !.snap = snap, !.changed = changed])
      BY <1>1 DEF RecvReport, r
    <2> HIDE DEF snap, changed
    <2>7. [IdleHandler(r.unit) EXCEPT !.pc = "save", !.snap = snap, !.changed = changed]
            \in Handler
      BY <2>4, <2>5, BlankType DEF IdleHandler, NoView, Handler, StageStatus
    <2>8. rep' \in [Nodes -> Handler]
      BY <1>b, <1>h, <2>6, <2>7, HandlerEdit
    <2> QED
      BY <1>1, <2>3, <2>8
      DEF RecvReport, StoreTypeOK, EngineTypeOK, ReportsTypeOK, storeVars, engineVars
  <1>2. CASE SaveReport(n)
    <2>1. units' \in [Units -> Unit] /\ ripe' \subseteq Units
      <3>1. h.unit \in Units /\ h.snap \in Unit
        BY <1>h DEF Handler
      <3> QED
        BY <1>2, <3>1, SaveUnitType DEF SaveReport, h
    <2>2. rep' \in [Nodes -> Handler]
      BY <1>2, <1>b, <1>h, HandlerEdit DEF SaveReport, h
    <2> QED
      BY <1>2, <2>1, <2>2
      DEF SaveReport, StoreTypeOK, EngineTypeOK, ReportsTypeOK, engineVars
  <1>3. CASE Requeue(n)
    <2>1. units' \in [Units -> Unit] /\ ripe' \subseteq Units
      <3>1. h.unit \in Units /\ h.snap.retry \in Nat
        BY <1>h DEF Handler, Unit
      <3>2. [NewUnit EXCEPT !.retry = h.snap.retry + 1] \in Unit
        BY <3>1, BlankType DEF Unit
      <3> QED
        BY <1>3, <3>1, <3>2, SaveUnitType DEF Requeue, h
    <2>2. rep' \in [Nodes -> Handler]
      BY <1>3, <1>b, <1>h, HandlerEdit DEF Requeue
    <2> QED
      BY <1>3, <1>w, <2>1, <2>2
      DEF Requeue, StoreTypeOK, EngineTypeOK, ReportsTypeOK
  <1>4. CASE ReadJob(n)
    <2>1. [h EXCEPT !.pc = "list", !.view = stage] \in Handler
      BY <1>h DEF StoreTypeOK, Handler
    <2>2. rep' \in [Nodes -> Handler]
      BY <1>4, <1>b, <1>h, <2>1, HandlerEdit DEF ReadJob, h
    <2> QED
      BY <1>4, <2>2
      DEF ReadJob, StoreTypeOK, EngineTypeOK, ReportsTypeOK, storeVars, engineVars
  <1>5. CASE ListStage(n)
    <2>1. \A listed : StageVerdict(listed) \in StageStatus
      BY DEF StageVerdict, StageStatus
    <2> DEFINE verdict == StageVerdict(ListUnitsByStage(StageOf[h.unit]))
    <2>2. verdict \in StageStatus
      BY <2>1
    <2>3. Become(n, [h EXCEPT !.pc = "stage", !.new = verdict])
      BY <1>5 DEF ListStage, h
    <2> HIDE DEF verdict
    <2>4. [h EXCEPT !.pc = "stage", !.new = verdict] \in Handler
      BY <1>h, <2>2 DEF Handler
    <2> QED
      BY <1>5, <1>b, <2>3, <2>4
      DEF ListStage, StoreTypeOK, EngineTypeOK, ReportsTypeOK, storeVars, engineVars
  <1>6. CASE WriteStage(n)
    <2> DEFINE view == [h.view EXCEPT ![StageOf[h.unit]] = h.new]
               todo == {t \in Downstream(StageOf[h.unit]) : h.view[t] \notin StageFinal}
    <2>1. /\ h.new \in StageStatus /\ StageOf[h.unit] \in Stages
          /\ h.view \in [Stages -> StageStatus]
      BY <1>h DEF Handler
    <2>2. view \in [Stages -> StageStatus] /\ todo \in SUBSET Stages
      BY <2>1 DEF Downstream
    <2>3. \/ Become(n, [h EXCEPT !.pc = "cascade", !.view = view, !.todo = todo])
          \/ Become(n, [h EXCEPT !.pc = "settle", !.view = view])
      BY <1>6 DEF WriteStage, h
    <2>4. stage' \in [Stages -> StageStatus]
      BY <1>6, <2>1 DEF WriteStage, UpdateStageStatus, StoreTypeOK, h
    <2> HIDE DEF view, todo
    <2>5. /\ [h EXCEPT !.pc = "cascade", !.view = view, !.todo = todo] \in Handler
          /\ [h EXCEPT !.pc = "settle", !.view = view] \in Handler
      BY <1>h, <2>2 DEF Handler
    <2>6. rep' \in [Nodes -> Handler]
      BY <1>b, <2>3, <2>5
    <2> QED
      BY <1>6, <2>4, <2>6
      DEF WriteStage, StoreTypeOK, EngineTypeOK, ReportsTypeOK, engineVars
  <1>7. CASE CascadeStage(n)
    <2>1. PICK t \in h.todo :
            /\ UpdateStageStatus(t, "Skipped")
            /\ Become(n, [h EXCEPT !.todo = @ \ {t},
                                   !.victims = ListUnitsByStage(t)
                                                 \cap ListUnitsByStatus(Unfinished)])
      BY <1>7 DEF CascadeStage, h
    <2> DEFINE victims == ListUnitsByStage(t) \cap ListUnitsByStatus(Unfinished)
    <2>2. victims \in SUBSET Units
      BY DEF ListUnitsByStage
    <2>3. Become(n, [h EXCEPT !.todo = @ \ {t}, !.victims = victims])
      BY <2>1
    <2> HIDE DEF victims
    <2>4. [h EXCEPT !.todo = @ \ {t}, !.victims = victims] \in Handler
      BY <1>h, <2>2 DEF Handler
    <2>5. stage' \in [Stages -> StageStatus]
      BY <2>1 DEF UpdateStageStatus, StoreTypeOK, StageStatus
    <2> QED
      BY <1>7, <1>b, <2>3, <2>4, <2>5
      DEF CascadeStage, StoreTypeOK, EngineTypeOK, ReportsTypeOK, engineVars
  <1>8. CASE CascadeUnit(n)
    <2>1. PICK u \in h.victims : /\ UpdateUnitStatus(u, "Cancelled")
                                 /\ Become(n, [h EXCEPT !.victims = @ \ {u}])
      BY <1>8 DEF CascadeUnit, h
    <2>2. u \in Units /\ [h EXCEPT !.victims = @ \ {u}] \in Handler
      BY <1>h DEF Handler
    <2>3. units' \in [Units -> Unit] /\ ripe' \subseteq Units
      BY <2>1, <2>2, UpdateUnitStatusType DEF UnitStatus
    <2> QED
      BY <1>8, <1>b, <2>1, <2>2, <2>3
      DEF CascadeUnit, StoreTypeOK, EngineTypeOK, ReportsTypeOK, engineVars
  <1>9. CASE Reread(n)
    <2>1. [h EXCEPT !.pc = "settle", !.view = stage] \in Handler
      BY <1>h DEF StoreTypeOK, Handler
    <2> QED
      BY <1>9, <1>b, <2>1
      DEF Reread, StoreTypeOK, EngineTypeOK, ReportsTypeOK, storeVars, engineVars, h
  <1>10. CASE Settle(n)
    <2>1. job' \in [Jobs -> JobStatus] /\ wake' \in BOOLEAN
      BY <1>10, <1>w DEF Settle, UpdateJobStatus, StoreTypeOK, EngineTypeOK, JobStatus
    <2>2. rep' \in [Nodes -> Handler]
      BY <1>10, <1>b, <1>h, HandlerEdit DEF Settle
    <2> QED
      BY <1>10, <2>1, <2>2 DEF Settle, StoreTypeOK, EngineTypeOK, ReportsTypeOK
  <1> QED
    BY <1>1, <1>2, <1>3, <1>4, <1>5, <1>6, <1>7, <1>8, <1>9, <1>10 DEF HandlerStep

-----------------------------------------------------------------------------
\* What is sent to the scheduler stays a sequence of reports.
LEMMA ReportType ==
    ASSUME ReportsTypeOK, NEW n \in Nodes
    PROVE  /\ \A u \in Units, status \in ReportStatus :
                Report(n, u, status) =>
                  reports' \in [Nodes -> Seq([unit : Units, status : ReportStatus])]
           /\ \A k \in 0..Len(reports[n]) :
                [reports EXCEPT ![n] = SubSeq(@, 1, k)]
                  \in [Nodes -> Seq([unit : Units, status : ReportStatus])]
  <1> DEFINE R == [unit : Units, status : ReportStatus]
  <1>1. reports \in [Nodes -> Seq(R)]
    BY DEF ReportsTypeOK
  <1>2. \A u \in Units, status \in ReportStatus : [unit |-> u, status |-> status] \in R
    OBVIOUS
  <1> HIDE DEF R
  <1>3. \A r \in R : Append(reports[n], r) \in Seq(R)
    BY <1>1, AppendProperties
  <1>4. ASSUME NEW k \in 0..Len(reports[n]) PROVE SubSeq(reports[n], 1, k) \in Seq(R)
    <2>1. reports[n] \in Seq(R) /\ Len(reports[n]) \in Nat /\ k \in Int
      BY <1>1, <1>4, LenProperties
    <2>2. \A i \in 1..k : reports[n][i] \in R
      BY <2>1, <1>4, ElementOfSeq
    <2> QED
      BY <2>1, <2>2, SubSeqProperties
  <1>5. \A u \in Units, status \in ReportStatus :
           Report(n, u, status) => reports' \in [Nodes -> Seq(R)]
    BY <1>1, <1>2, <1>3 DEF Report
  <1>6. \A k \in 0..Len(reports[n]) : [reports EXCEPT ![n] = SubSeq(@, 1, k)] \in [Nodes -> Seq(R)]
    BY <1>1, <1>4
  <1> QED
    BY <1>5, <1>6 DEF R

LEMMA AgentType ==
    ASSUME StoreTypeOK, EngineTypeOK, ReportsTypeOK, AgentTypeOK,
           NEW n \in Nodes, NEW u \in Units,
           \/ Heartbeat(n) \/ LoseCommands(n) \/ Refuse(n, u) \/ LaunchFails(n, u)
           \/ ExecStep(n, u) \/ LoseReports(n) \/ AgentRestart(n)
    PROVE  StoreTypeOK' /\ EngineTypeOK' /\ ReportsTypeOK' /\ AgentTypeOK'
  <1>r. {"Running", "Failed"} \subseteq ReportStatus /\ Outcomes \subseteq ReportStatus
    BY DEF ReportStatus
  <1>z. [v \in Units |-> 0] \in [Units -> Nat]
    OBVIOUS
  <1>1. CASE Heartbeat(n)
    <2>1. [v \in Units |-> spawned[n][v] + cmds[n][v]] \in [Units -> Nat]
      BY DEF EngineTypeOK, AgentTypeOK
    <2>2. spawned' \in [Nodes -> [Units -> Nat]]
      BY <1>1, <2>1 DEF Heartbeat, AgentTypeOK
    <2>3. cmds' \in [Nodes -> [Units -> Nat]] /\ node' \in [Nodes -> NodeStatus]
      BY <1>1, <1>z DEF Heartbeat, PopCommands, EngineTypeOK, NodeStatus
    <2> QED
      BY <1>1, <2>2, <2>3
      DEF Heartbeat, StoreTypeOK, EngineTypeOK, ReportsTypeOK, AgentTypeOK, storeVars, reportVars
  <1>2. CASE LoseCommands(n)
    <2>1. cmds' \in [Nodes -> [Units -> Nat]] /\ node' \in [Nodes -> NodeStatus]
      BY <1>2, <1>z DEF LoseCommands, PopCommands, EngineTypeOK, NodeStatus
    <2> QED
      BY <1>2, <2>1 DEF LoseCommands, StoreTypeOK, EngineTypeOK, ReportsTypeOK, AgentTypeOK,
                        storeVars, reportVars, agentVars
  <1>3. CASE Refuse(n, u)
    <2>1. spawned' \in [Nodes -> [Units -> Nat]]
      BY <1>3, CountType DEF Refuse, AgentTypeOK
    <2>2. reports' \in [Nodes -> Seq([unit : Units, status : ReportStatus])]
      BY <1>3, <1>r, ReportType DEF Refuse
    <2> QED
      BY <1>3, <2>1, <2>2
      DEF Refuse, StoreTypeOK, EngineTypeOK, ReportsTypeOK, AgentTypeOK, storeVars, engineVars
  <1>4. CASE LaunchFails(n, u)
    <2>1. launching' \in [Nodes -> [Units -> Nat]]
      BY <1>4, CountType DEF LaunchFails, AgentTypeOK
    <2>2. reports' \in [Nodes -> Seq([unit : Units, status : ReportStatus])]
      BY <1>4, <1>r, ReportType DEF LaunchFails
    <2> QED
      BY <1>4, <2>1, <2>2
      DEF LaunchFails, StoreTypeOK, EngineTypeOK, ReportsTypeOK, AgentTypeOK, storeVars, engineVars
  <1>5. CASE Launch(n, u)
    <2>1. spawned' \in [Nodes -> [Units -> Nat]] /\ launching' \in [Nodes -> [Units -> Nat]]
      BY <1>5, CountType DEF Launch, AgentTypeOK
    <2>2. reports' \in [Nodes -> Seq([unit : Units, status : ReportStatus])]
      BY <1>5, <1>r, ReportType DEF Launch
    <2> QED
      BY <1>5, <2>1, <2>2
      DEF Launch, StoreTypeOK, EngineTypeOK, ReportsTypeOK, AgentTypeOK, storeVars, engineVars
  <1>6. CASE CreateContainer(n, u)
    <2>1. launching' \in [Nodes -> [Units -> Nat]]
      BY <1>6, CountType DEF CreateContainer, AgentTypeOK
    <2>2. box' \in [Nodes -> [Units -> BoxStatus]]
      BY <1>6 DEF CreateContainer, AgentTypeOK, BoxStatus
    <2> QED
      BY <1>6, <2>1, <2>2 DEF CreateContainer, StoreTypeOK, EngineTypeOK, ReportsTypeOK,
                              AgentTypeOK, storeVars, engineVars, reportVars
  <1>7. CASE \E status \in Outcomes : Exit(n, u, status)
    <2>1. PICK status \in Outcomes : Exit(n, u, status)
      BY <1>7
    <2>2. reports' \in [Nodes -> Seq([unit : Units, status : ReportStatus])]
      BY <2>1, <1>r, ReportType DEF Exit
    <2>3. box' \in [Nodes -> [Units -> BoxStatus]]
      BY <2>1 DEF Exit, AgentTypeOK, BoxStatus
    <2> QED
      BY <2>1, <2>2, <2>3
      DEF Exit, StoreTypeOK, EngineTypeOK, ReportsTypeOK, AgentTypeOK, storeVars, engineVars
  <1>8. CASE CleanupContainer(n, u)
    <2>1. box' \in [Nodes -> [Units -> BoxStatus]]
      BY <1>8 DEF CleanupContainer, AgentTypeOK, BoxStatus
    <2> QED
      BY <1>8, <2>1 DEF CleanupContainer, StoreTypeOK, EngineTypeOK, ReportsTypeOK, AgentTypeOK,
                        storeVars, engineVars, reportVars
  <1>9. CASE LoseReports(n)
    <2>1. 0..(Len(reports[n]) - 1) \subseteq 0..Len(reports[n])
      <3>1. Len(reports[n]) \in Nat
        BY LenProperties DEF ReportsTypeOK
      <3> QED
        BY <3>1
    <2>2. reports' \in [Nodes -> Seq([unit : Units, status : ReportStatus])]
      BY <1>9, <2>1, ReportType DEF LoseReports
    <2> QED
      BY <1>9, <2>2 DEF LoseReports, StoreTypeOK, EngineTypeOK, ReportsTypeOK, AgentTypeOK,
                        storeVars, engineVars, agentVars
  <1>10. CASE AgentRestart(n)
    <2>1. reports' \in [Nodes -> Seq([unit : Units, status : ReportStatus])]
      <3>1. PICK k \in 0..Len(reports[n]) : reports' = [reports EXCEPT ![n] = SubSeq(@, 1, k)]
        BY <1>10, Zenon DEF AgentRestart
      <3> QED
        BY <3>1, ReportType
    <2>2. spawned' \in [Nodes -> [Units -> Nat]] /\ launching' \in [Nodes -> [Units -> Nat]]
      BY <1>10, <1>z DEF AgentRestart, AgentTypeOK
    <2>3. node' \in [Nodes -> NodeStatus]
      BY <1>10 DEF AgentRestart, EngineTypeOK, NodeStatus
    <2>4. [v \in Units |-> CASE box[n][v] = "running" -> "orphan"
                             [] box[n][v] = "exited"  -> "left"
                             [] OTHER                 -> box[n][v]] \in [Units -> BoxStatus]
      BY DEF AgentTypeOK, BoxStatus
    <2>5. box' \in [Nodes -> [Units -> BoxStatus]]
      BY <1>10, <2>4 DEF AgentRestart, AgentTypeOK
    <2> QED
      BY <1>10, <2>1, <2>2, <2>3, <2>5
      DEF AgentRestart, StoreTypeOK, EngineTypeOK, ReportsTypeOK, AgentTypeOK, storeVars
  <1> QED
    BY <1>1, <1>2, <1>3, <1>4, <1>5, <1>6, <1>7, <1>8, <1>9, <1>10 DEF ExecStep

-----------------------------------------------------------------------------
LEMMA ControlType ==
    ASSUME StoreTypeOK, EngineTypeOK, ControlTypeOK,
           \/ \E u \in Units : SubmitUnit(u)
           \/ \E j \in Jobs : SubmitJob(j) \/ SubmitFails(j) \/ CancelBegin(j)
           \/ CancelStep \/ (\E n \in Nodes : UnregBegin(n)) \/ UnregStep
    PROVE  StoreTypeOK' /\ EngineTypeOK' /\ ControlTypeOK'
  <1>w. ScheduleNow => wake' \in BOOLEAN
    BY DEF ScheduleNow
  <1>i. IdleCancel \in [pc : {"idle", "list", "units"}, job : Jobs,
                        view : [Stages -> StageStatus], victims : SUBSET Units]
    BY JobTypes DEF IdleCancel, StageStatus
  <1>j. \A j \in Jobs, status \in JobStatus, view \in [Stages -> StageStatus] :
           SaveJob(j, status, view) => /\ job' \in [Jobs -> JobStatus]
                                       /\ stage' \in [Stages -> StageStatus]
    BY DEF SaveJob, StoreTypeOK
  <1>1. ASSUME NEW u \in Units, SubmitUnit(u) PROVE StoreTypeOK' /\ EngineTypeOK' /\ ControlTypeOK'
    <2>1. units' \in [Units -> Unit] /\ ripe' \subseteq Units
      BY <1>1, BlankType, SaveUnitType DEF SubmitUnit
    <2> QED
      BY <1>1, <2>1, JobTypes DEF SubmitUnit, StoreTypeOK, EngineTypeOK, ControlTypeOK, engineVars
  <1>2. ASSUME NEW j \in Jobs, SubmitJob(j) PROVE StoreTypeOK' /\ EngineTypeOK' /\ ControlTypeOK'
    <2>1. job' \in [Jobs -> JobStatus] /\ stage' \in [Stages -> StageStatus]
      <3>1. [s \in Stages |-> "Pending"] \in [Stages -> StageStatus] /\ "Pending" \in JobStatus
        BY DEF StageStatus, JobStatus
      <3> QED
        BY <1>2, <1>j, <3>1 DEF SubmitJob
    <2> QED
      BY <1>2, <1>w, <2>1 DEF SubmitJob, StoreTypeOK, EngineTypeOK, ControlTypeOK
  <1>3. ASSUME NEW j \in Jobs, SubmitFails(j) PROVE StoreTypeOK' /\ EngineTypeOK' /\ ControlTypeOK'
    BY <1>3 DEF SubmitFails, StoreTypeOK, EngineTypeOK, ControlTypeOK, storeVars, engineVars
  <1>4. ASSUME NEW j \in Jobs, CancelBegin(j) PROVE StoreTypeOK' /\ EngineTypeOK' /\ ControlTypeOK'
    <2>1. cancel' \in [pc : {"idle", "list", "units"}, job : Jobs,
                       view : [Stages -> StageStatus], victims : SUBSET Units]
      BY <1>4, <1>i DEF CancelBegin, StoreTypeOK
    <2> QED
      BY <1>4, <2>1
      DEF CancelBegin, StoreTypeOK, EngineTypeOK, ControlTypeOK, storeVars, engineVars
  <1>5. CASE CancelList
    <2>1. ListUnitsByJob(cancel.job) \cap ListUnitsByStatus(Unfinished) \subseteq Units
      BY DEF ListUnitsByJob
    <2> QED
      BY <1>5, <2>1
      DEF CancelList, StoreTypeOK, EngineTypeOK, ControlTypeOK, storeVars, engineVars
  <1>6. CASE CancelUnit
    <2>1. PICK u \in cancel.victims : /\ UpdateUnitStatus(u, "Cancelled")
                                      /\ cancel' = [cancel EXCEPT !.victims = @ \ {u}]
      BY <1>6 DEF CancelUnit
    <2>2. units' \in [Units -> Unit] /\ ripe' \subseteq Units
      BY <2>1, UpdateUnitStatusType DEF ControlTypeOK, UnitStatus
    <2> QED
      BY <1>6, <2>1, <2>2 DEF CancelUnit, StoreTypeOK, EngineTypeOK, ControlTypeOK, engineVars
  <1>7. CASE CancelSave
    <2> DEFINE view == [s \in Stages |-> IF cancel.view[s] \in {"Completed", "Failed"}
                                         THEN cancel.view[s] ELSE "Skipped"]
    <2>1. view \in [Stages -> StageStatus] /\ "Cancelled" \in JobStatus
      BY DEF StageStatus, JobStatus
    <2>2. SaveJob(cancel.job, "Cancelled", view)
      BY <1>7 DEF CancelSave
    <2> HIDE DEF view
    <2>3. job' \in [Jobs -> JobStatus] /\ stage' \in [Stages -> StageStatus]
      BY <1>j, <2>1, <2>2 DEF ControlTypeOK
    <2> QED
      BY <1>7, <1>w, <1>i, <2>3 DEF CancelSave, StoreTypeOK, EngineTypeOK, ControlTypeOK
  <1>8. ASSUME NEW n \in Nodes, UnregBegin(n) PROVE StoreTypeOK' /\ EngineTypeOK' /\ ControlTypeOK'
    <2>1. ListUnitsByNodeID(n) \cap ListUnitsByStatus(Active) \subseteq Units
      BY DEF ListUnitsByNodeID
    <2> QED
      BY <1>8, <2>1
      DEF UnregBegin, StoreTypeOK, EngineTypeOK, ControlTypeOK, storeVars, engineVars
  <1>9. CASE UnregUnit
    <2>1. PICK u \in unreg.victims : /\ UpdateUnitStatus(u, "Failed")
                                     /\ unreg' = [unreg EXCEPT !.victims = @ \ {u}]
      BY <1>9 DEF UnregUnit
    <2>2. units' \in [Units -> Unit] /\ ripe' \subseteq Units
      BY <2>1, UpdateUnitStatusType DEF ControlTypeOK, UnitStatus
    <2> QED
      BY <1>9, <2>1, <2>2 DEF UnregUnit, StoreTypeOK, EngineTypeOK, ControlTypeOK, engineVars
  <1>10. CASE UnregRemove
    <2>1. unreg' \in [pc : {"idle", "units"}, node : Nodes \cup {NoNode}, victims : SUBSET Units]
      BY <1>10 DEF UnregRemove, IdleUnreg
    <2>2. node' \in [Nodes -> NodeStatus]
      BY <1>10 DEF UnregRemove, EngineTypeOK, NodeStatus
    <2> QED
      BY <1>10, <1>w, <2>1, <2>2
      DEF UnregRemove, StoreTypeOK, EngineTypeOK, ControlTypeOK, storeVars
  <1> QED
    BY <1>1, <1>2, <1>3, <1>4, <1>5, <1>6, <1>7, <1>8, <1>9, <1>10 DEF CancelStep, UnregStep

-----------------------------------------------------------------------------
LEMMA EnvironmentType ==
    ASSUME TypeOK, Flap \/ Delay \/ Restart
    PROVE  StoreTypeOK' /\ EngineTypeOK' /\ ReportsTypeOK' /\ AgentTypeOK' /\ ControlTypeOK'
  <1>1. CASE Flap
    <2>1. node' \in [Nodes -> NodeStatus]
      BY <1>1 DEF Flap, TypeOK, EngineTypeOK, NodeStatus
    <2> QED
      BY <1>1, <2>1
      DEF Flap, TypeOK, StoreTypeOK, EngineTypeOK, ReportsTypeOK, AgentTypeOK, ControlTypeOK,
          storeVars, reportVars, agentVars, controlVars
  <1>2. CASE Delay
    BY <1>2
    DEF Delay, DelayElapses, TypeOK, StoreTypeOK, EngineTypeOK, ReportsTypeOK, AgentTypeOK,
        ControlTypeOK, engineVars, reportVars, agentVars, controlVars
  <1>3. CASE Restart
    <2>1. StoreTypeOK' /\ AgentTypeOK'
      BY <1>3 DEF Restart, TypeOK, StoreTypeOK, AgentTypeOK, storeVars, agentVars
    <2>2. EngineTypeOK'
      <3>1. IdleEngine \in Cycle /\ IdlePull \in PullCall
        BY BlankType DEF NoBatch, IdleEngine, IdlePull, Cycle, PullCall
      <3>2. node' \in [Nodes -> NodeStatus]
        BY <1>3 DEF Restart, NodeStatus
      <3> QED
        BY <1>3, <3>1, <3>2 DEF Restart, EngineTypeOK
    <2>3. ReportsTypeOK'
      <3>1. Idle \in Handler
        BY BlankType, IdleTypes DEF Handler, Idle, IdleHandler, NoView, StageStatus
      <3>2. reports' \in [Nodes -> Seq([unit : Units, status : ReportStatus])]
        BY <1>3 DEF Restart
      <3> QED
        BY <1>3, <3>1, <3>2 DEF Restart, ReportsTypeOK
    <2>4. ControlTypeOK'
      <3>1. submit' \in [Jobs -> {"new", "units", "done"}]
        BY <1>3 DEF Restart, TypeOK, ControlTypeOK
      <3> QED
        BY <1>3, <3>1, JobTypes
        DEF Restart, ControlTypeOK, IdleCancel, IdleUnreg, StageStatus
    <2> QED
      BY <2>1, <2>2, <2>3, <2>4
  <1> QED
    BY <1>1, <1>2, <1>3

LEMMA SpendType ==
    ASSUME budget \in [Kinds -> Nat]
    PROVE  /\ \A kind \in Kinds : Spend(kind) => budget' \in [Kinds -> Nat]
           /\ Free => budget' \in [Kinds -> Nat]
  BY DEF Spend, Free

LEMMA StepType ==
    ASSUME TypeOK, Next
    PROVE  TypeOK'
  <1> USE DEF TypeOK
  <1>d. done' \subseteq Units
    BY DEF Next, Record
  <1>k. {"flap", "cancel", "pull", "unregister", "crash", "lose", "agent", "refuse", "submit",
         "delay"} \subseteq Kinds
    BY DEF Kinds
  <1>1. CASE EngineNext
    <2>1. StoreTypeOK' /\ EngineTypeOK'
      BY <1>1, EngineStepType DEF EngineNext
    <2> QED
      BY <1>1, <1>d, <2>1, SpendType
      DEF EngineNext, ReportsTypeOK, AgentTypeOK, ControlTypeOK, reportVars, agentVars, controlVars
  <1>2. CASE PullNext
    <2>1. StoreTypeOK' /\ EngineTypeOK'
      BY <1>2, PullType DEF PullNext
    <2>2. budget' \in [Kinds -> Nat]
      BY <1>2, <1>k, SpendType DEF PullNext
    <2> QED
      BY <1>2, <1>d, <2>1, <2>2
      DEF PullNext, ReportsTypeOK, AgentTypeOK, ControlTypeOK, reportVars, agentVars, controlVars
  <1>3. CASE ControlNext
    <2>1. StoreTypeOK' /\ EngineTypeOK' /\ ControlTypeOK'
      BY <1>3, ControlType DEF ControlNext
    <2>2. budget' \in [Kinds -> Nat]
      BY <1>3, <1>k, SpendType DEF ControlNext
    <2> QED
      BY <1>3, <1>d, <2>1, <2>2 DEF ControlNext, ReportsTypeOK, AgentTypeOK, reportVars, agentVars
  <1>4. CASE AgentFault
    <2>1. StoreTypeOK' /\ EngineTypeOK' /\ ReportsTypeOK' /\ AgentTypeOK'
      BY <1>4, AgentType DEF AgentFault
    <2>2. budget' \in [Kinds -> Nat]
      BY <1>4, <1>k, SpendType DEF AgentFault
    <2> QED
      BY <1>4, <1>d, <2>1, <2>2 DEF AgentFault, ControlTypeOK, controlVars
  <1>5. ASSUME NEW n \in Nodes, HandlerNext(n) PROVE TypeOK'
    <2>1. StoreTypeOK' /\ EngineTypeOK' /\ ReportsTypeOK'
      BY <1>5, HandlerType DEF HandlerNext
    <2> QED
      BY <1>5, <1>d, <2>1, SpendType
      DEF HandlerNext, AgentTypeOK, ControlTypeOK, agentVars, controlVars
  <1>6. ASSUME NEW n \in Nodes, HeartbeatNext(n) PROVE TypeOK'
    <2>1. StoreTypeOK' /\ EngineTypeOK' /\ ReportsTypeOK' /\ AgentTypeOK'
      BY <1>6, AgentType DEF HeartbeatNext
    <2> QED
      BY <1>6, <1>d, <2>1, SpendType DEF HeartbeatNext, ControlTypeOK, controlVars
  <1>7. ASSUME NEW n \in Nodes, NEW u \in Units, ExecNext(n, u) PROVE TypeOK'
    <2>1. StoreTypeOK' /\ EngineTypeOK' /\ ReportsTypeOK' /\ AgentTypeOK'
      BY <1>7, AgentType DEF ExecNext
    <2> QED
      BY <1>7, <1>d, <2>1, SpendType DEF ExecNext, ControlTypeOK, controlVars
  <1>8. CASE Flap \/ Delay \/ Restart
    <2>1. budget' \in [Kinds -> Nat]
      BY <1>8, <1>k, SpendType DEF Flap, Delay, Restart
    <2> QED
      BY <1>8, <1>d, <2>1, EnvironmentType
  <1> QED
    BY <1>1, <1>2, <1>3, <1>4, <1>5, <1>6, <1>7, <1>8 DEF Next

LEMMA StutterType ==
    ASSUME TypeOK, UNCHANGED vars
    PROVE  TypeOK'
  BY DEF vars, TypeOK, StoreTypeOK, EngineTypeOK, ReportsTypeOK, AgentTypeOK, ControlTypeOK,
         storeVars, engineVars, reportVars, agentVars, controlVars

\* Type correctness: every record in the store, every copy a process holds and every
\* count of commands and goroutines keeps its form, whatever the order of steps and
\* whatever is lost.
THEOREM TypeCorrect == Spec => []TypeOK
  <1>1. TypeOK /\ [Next]_vars => TypeOK'
    BY StepType, StutterType
  <1> QED
    BY InitType, <1>1, PTL DEF Spec

-----------------------------------------------------------------------------
\* RetryCount is bounded by max_retries in every copy of a unit.

\* RetryBound is not inductive: the handler adds one to a count it read earlier.  It may
\* do so because it compared that very copy with max_retries, and the copy is its own.
RetryInv ==
    /\ TypeOK
    /\ RetryBound
    /\ \A n \in Nodes : rep[n].pc = "requeue" => rep[n].snap.retry < MaxRetries

\* What RetryInv says of the engine, of a pull call and of a handler.
Bounded(rec) == rec.retry <= MaxRetries
BatchBounded(batch) == \A u \in Units : Bounded(batch[u])
HandlerBounded(h) == Bounded(h.snap) /\ (h.pc = "requeue" => h.snap.retry < MaxRetries)

-----------------------------------------------------------------------------
LEMMA RetryParts ==
    TypeOK => (RetryInv <=> /\ BatchBounded(units) /\ BatchBounded(eng.batch)
                            /\ \A n \in Nodes : BatchBounded(pull[n].batch)
                            /\ \A n \in Nodes : HandlerBounded(rep[n]))
  <1>1. RetryBound <=> /\ BatchBounded(units) /\ BatchBounded(eng.batch)
                       /\ \A n \in Nodes : BatchBounded(pull[n].batch)
                       /\ \A n \in Nodes : Bounded(rep[n].snap)
    <2>1. \E u \in Units : TRUE
      OBVIOUS
    <2> QED
      BY <2>1, Zenon DEF RetryBound, BatchBounded, Bounded
  <1> QED
    BY <1>1 DEF RetryInv, HandlerBounded

LEMMA BlankBounded == /\ Bounded(Blank) /\ Bounded(NewUnit) /\ BatchBounded(NoBatch)
                      /\ \A u \in Units : HandlerBounded(IdleHandler(u))
                      /\ HandlerBounded(Idle)
  <1>1. Blank.retry = 0 /\ NewUnit.retry = 0 /\ 0 <= MaxRetries
    BY DEF Blank, NewUnit
  <1>2. \A u : IdleHandler(u).snap = Blank /\ IdleHandler(u).pc = "idle"
    BY DEF IdleHandler
  <1>3. Bounded(Blank) /\ Bounded(NewUnit)
    BY <1>1 DEF Bounded
  <1>4. BatchBounded(NoBatch)
    BY <1>3 DEF BatchBounded, NoBatch
  <1>5. \A u : HandlerBounded(IdleHandler(u))
    BY <1>2, <1>3 DEF HandlerBounded
  <1> QED
    BY <1>3, <1>4, <1>5 DEF Idle

\* The writes of the store that keep the bound.
LEMMA SaveBounded ==
    ASSUME StoreTypeOK, BatchBounded(units), NEW u \in Units, NEW rec, Bounded(rec),
           SaveUnit(u, rec)
    PROVE  BatchBounded(units')
  BY DEF StoreTypeOK, BatchBounded, SaveUnit

LEMMA UpdateBounded ==
    ASSUME StoreTypeOK, BatchBounded(units), NEW u \in Units, NEW status,
           UpdateUnitStatus(u, status)
    PROVE  BatchBounded(units')
  <1>1. Bounded([units[u] EXCEPT !.status = status])
    BY DEF StoreTypeOK, Unit, BatchBounded, Bounded
  <1> QED
    BY <1>1, SaveBounded DEF UpdateUnitStatus

\* A listing of units is bounded like the store it is a copy of.
LEMMA ListingBounded ==
    ASSUME BatchBounded(units)
    PROVE  BatchBounded([u \in Units |-> IF units[u].status = "Pending" THEN units[u] ELSE Blank])
  BY BlankBounded DEF BatchBounded

-----------------------------------------------------------------------------
LEMMA RetryInit == Init => RetryInv
  <1> SUFFICES ASSUME Init PROVE RetryInv
    OBVIOUS
  <1>1. /\ units = NoBatch
        /\ eng.batch = NoBatch
        /\ \A n \in Nodes : pull[n].batch = NoBatch
        /\ \A n \in Nodes : rep[n] = Idle
    BY DEF Init, StoreInit, EngineInit, ReportsInit, NoBatch, IdleEngine, IdlePull
  <1> QED
    BY <1>1, InitType, RetryParts, BlankBounded

\* The cycle writes copies it listed, and statuses: never a count of its own.
LEMMA EngineRetry ==
    ASSUME StoreTypeOK, EngineTypeOK, BatchBounded(units), BatchBounded(eng.batch),
           EngineStep \/ WakeUp \/ Tick
    PROVE  /\ BatchBounded(units') /\ BatchBounded(eng'.batch)
           /\ UNCHANGED pull
  <1>e. eng \in Cycle
    BY DEF EngineTypeOK
  <1>s. \A S : S.batch = eng.batch => BatchBounded(S.batch)
    OBVIOUS
  <1>1. CASE WakeUp \/ Tick
    BY <1>1, BlankBounded DEF WakeUp, Tick, BeginCycle, IdleEngine, storeVars
  <1>2. CASE ReclaimUnit
    <2>1. PICK p \in eng.stale : /\ eng' = [eng EXCEPT !.stale = @ \ {p}]
                                 /\ \/ UpdateUnitStatus(p[1], "Failed")
                                    \/ UNCHANGED <<units, ripe>>
      BY <1>2 DEF ReclaimUnit
    <2>2. p[1] \in Units
      BY <1>e, <2>1 DEF Cycle
    <2>3. eng'.batch = eng.batch
      BY <1>e, <2>1 DEF Cycle
    <2> QED
      BY <1>2, <2>1, <2>2, <2>3, UpdateBounded DEF ReclaimUnit
  <1>3. CASE ListPending
    <2>1. eng'.batch = [u \in Units |-> IF units[u].status = "Pending" THEN units[u] ELSE Blank]
      BY <1>3, <1>e DEF ListPending, Cycle
    <2> QED
      BY <1>3, <2>1, ListingBounded DEF ListPending, storeVars
  <1>4. CASE ListRetryable
    <2> DEFINE batch == [u \in Units |->
                           IF eng.batch[u].status = "Absent" /\ Retryable(u)
                           THEN [units[u] EXCEPT !.status = "Pending", !.node = NoNode]
                           ELSE eng.batch[u]]
    <2>1. \A u \in Units : Bounded([units[u] EXCEPT !.status = "Pending", !.node = NoNode])
      BY DEF StoreTypeOK, Unit, BatchBounded, Bounded
    <2>2. BatchBounded(batch)
      BY <2>1 DEF BatchBounded
    <2>3. eng' = [eng EXCEPT !.pc = "assign", !.batch = batch,
                             !.left = {UnitJob(u) : u \in InBatch(batch)}]
      BY <1>4 DEF ListRetryable
    <2> HIDE DEF batch
    <2>4. eng'.batch = batch
      BY <2>3, <1>e DEF Cycle
    <2> QED
      BY <1>4, <2>2, <2>4 DEF ListRetryable, storeVars
  <1>5. CASE VisitJob
    <2>1. eng'.batch = eng.batch
      BY <1>5, <1>e DEF VisitJob, Cycle
    <2> QED
      BY <1>5, <2>1 DEF VisitJob, storeVars
  <1>6. CASE SkipStage
    <2>1. eng'.batch = eng.batch
      BY <1>6, <1>e DEF SkipStage, Cycle
    <2> QED
      BY <1>6, <2>1 DEF SkipStage
  <1>7. CASE SkipUnit
    <2>1. PICK u \in eng.victims : /\ UpdateUnitStatus(u, "Cancelled")
                                   /\ eng' = [eng EXCEPT !.victims = @ \ {u}]
      BY <1>7 DEF SkipUnit
    <2>2. u \in Units /\ eng'.batch = eng.batch
      BY <1>e, <2>1 DEF Cycle
    <2> QED
      BY <1>7, <2>1, <2>2, UpdateBounded DEF SkipUnit
  <1>8. CASE PickNode
    <2>1. eng'.batch = eng.batch
      BY <1>8, <1>e DEF PickNode, Cycle
    <2> QED
      BY <1>8, <2>1 DEF PickNode, storeVars
  <1>9. CASE AssignUnit
    <2>1. PICK p \in eng.pick :
            SaveUnit(p[1], [eng.batch[p[1]] EXCEPT !.status = "Assigned", !.node = p[2]])
      BY <1>9 DEF AssignUnit
    <2>2. p[1] \in Units /\ eng.batch[p[1]] \in Unit
      BY <1>e DEF Cycle
    <2>3. Bounded([eng.batch[p[1]] EXCEPT !.status = "Assigned", !.node = p[2]])
      BY <2>2 DEF Unit, BatchBounded, Bounded
    <2>4. eng'.batch = eng.batch
      BY <1>9, <1>e DEF AssignUnit, Cycle
    <2> QED
      BY <1>9, <2>1, <2>2, <2>3, <2>4, SaveBounded DEF AssignUnit
  <1>10. CASE EndCycle
    BY <1>10, BlankBounded DEF EndCycle, IdleEngine, storeVars
  <1> QED
    BY <1>1, <1>2, <1>3, <1>4, <1>5, <1>6, <1>7, <1>8, <1>9, <1>10 DEF EngineStep

\* So does the pull path.
LEMMA PullRetry ==
    ASSUME StoreTypeOK, EngineTypeOK, BatchBounded(units), NEW n \in Nodes,
           \A m \in Nodes : BatchBounded(pull[m].batch), PullList(n) \/ PullStep(n)
    PROVE  /\ BatchBounded(units') /\ \A m \in Nodes : BatchBounded(pull'[m].batch)
           /\ UNCHANGED eng
  <1>p. pull \in [Nodes -> PullCall] /\ pull[n].batch \in [Units -> Unit]
    BY DEF EngineTypeOK, PullCall
  <1>m. \A call : pull' = [pull EXCEPT ![n] = call] /\ BatchBounded(call.batch)
                    => \A m \in Nodes : BatchBounded(pull'[m].batch)
    BY <1>p
  <1>i. IdlePull.batch = NoBatch
    BY DEF IdlePull
  <1>1. CASE PullList(n)
    <2> DEFINE listed == [u \in Units |-> IF units[u].status = "Pending" THEN units[u] ELSE Blank]
               call == [pc |-> "choose", batch |-> listed]
    <2>1. BatchBounded(call.batch)
      BY ListingBounded
    <2>2. pull' = [pull EXCEPT ![n] = call]
      BY <1>1 DEF PullList
    <2> HIDE DEF call
    <2> QED
      BY <1>1, <1>m, <2>1, <2>2 DEF PullList, storeVars
  <1>2. CASE PullChoose(n)
    <2>1. \A u \in Units : BatchBounded([NoBatch EXCEPT ![u] = pull[n].batch[u]])
      BY BlankBounded DEF BatchBounded, NoBatch
    <2>2. PICK call : /\ pull' = [pull EXCEPT ![n] = call]
                      /\ \/ call.batch = NoBatch
                         \/ \E u \in Units : call.batch = [NoBatch EXCEPT ![u] = pull[n].batch[u]]
      <3>1. CASE pull' = [pull EXCEPT ![n] = IdlePull]
        BY <3>1, <1>i
      <3>2. ASSUME NEW u \in Units,
                   pull' = [pull EXCEPT ![n] =
                              [pc |-> "save", batch |-> [NoBatch EXCEPT ![u] = pull[n].batch[u]]]]
            PROVE  \E call : /\ pull' = [pull EXCEPT ![n] = call]
                             /\ \/ call.batch = NoBatch
                                \/ \E v \in Units :
                                      call.batch = [NoBatch EXCEPT ![v] = pull[n].batch[v]]
        <4> DEFINE call == [pc |-> "save", batch |-> [NoBatch EXCEPT ![u] = pull[n].batch[u]]]
        <4>1. call.batch = [NoBatch EXCEPT ![u] = pull[n].batch[u]]
          OBVIOUS
        <4>2. pull' = [pull EXCEPT ![n] = call]
          BY <3>2
        <4> HIDE DEF call
        <4> QED
          BY <4>1, <4>2
      <3> QED
        BY <1>2, <3>1, <3>2 DEF PullChoose, InBatch
    <2>3. BatchBounded(call.batch)
      BY <2>1, <2>2, BlankBounded
    <2> QED
      BY <1>2, <1>m, <2>2, <2>3 DEF PullChoose, storeVars
  <1>3. CASE PullSave(n)
    <2>1. PICK u \in Units :
            SaveUnit(u, [pull[n].batch[u] EXCEPT !.status = "Assigned", !.node = n])
      BY <1>3 DEF PullSave, InBatch
    <2>2. Bounded([pull[n].batch[u] EXCEPT !.status = "Assigned", !.node = n])
      BY <1>p DEF Unit, BatchBounded, Bounded
    <2>3. BatchBounded(units')
      BY <2>1, <2>2, SaveBounded
    <2>4. pull' = [pull EXCEPT ![n] = IdlePull]
      BY <1>3 DEF PullSave
    <2> QED
      BY <1>3, <1>m, <1>i, <2>3, <2>4, BlankBounded DEF PullSave
  <1> QED
    BY <1>1, <1>2, <1>3 DEF PullStep

\* A handler adds one to a count that it found below max_retries.
LEMMA HandlerRetry ==
    ASSUME StoreTypeOK, ReportsTypeOK, BatchBounded(units), NEW n \in Nodes,
           \A m \in Nodes : HandlerBounded(rep[m]), RecvReport(n) \/ HandlerStep(n)
    PROVE  /\ BatchBounded(units') /\ \A m \in Nodes : HandlerBounded(rep'[m])
           /\ UNCHANGED <<eng, pull>>
  <1> DEFINE h == rep[n]
  <1>h. h \in Handler /\ h.unit \in Units /\ h.snap \in Unit /\ HandlerBounded(h)
    BY DEF ReportsTypeOK, Handler
  <1>b. \A x : Become(n, x) /\ HandlerBounded(x) => \A m \in Nodes : HandlerBounded(rep'[m])
    BY DEF ReportsTypeOK, Become
  <1>i. HandlerBounded(Idle)
    BY BlankBounded
  <1>1. CASE RecvReport(n)
    <2> DEFINE r == Head(reports[n])
               snap == [units[r.unit] EXCEPT !.status = r.status]
               changed == units[r.unit].status # r.status
    <2>1. r.unit \in Units
      <3>1. r \in [unit : Units, status : ReportStatus]
        BY <1>1, HeadTailProperties DEF RecvReport, ReportsTypeOK
      <3> QED
        BY <3>1
    <2>2. Bounded(snap)
      BY <2>1 DEF StoreTypeOK, Unit, BatchBounded, Bounded
    <2>3. Become(n, Idle) \/ Become(n, [IdleHandler(r.unit) EXCEPT
                                          !.pc = "save", !.snap = snap, !.changed = changed])
      BY <1>1 DEF RecvReport
    <2> HIDE DEF r, snap, changed
    <2>4. HandlerBounded([IdleHandler(r.unit) EXCEPT
                            !.pc = "save", !.snap = snap, !.changed = changed])
      BY <2>2 DEF HandlerBounded, IdleHandler
    <2> QED
      BY <1>1, <1>b, <1>i, <2>3, <2>4 DEF RecvReport, storeVars, engineVars
  <1>2. CASE SaveReport(n)
    <2>1. BatchBounded(units')
      BY <1>2, <1>h, SaveBounded DEF SaveReport, HandlerBounded
    <2>2. PICK x : Become(n, x) /\ x \in {Idle, [IdleHandler(h.unit) EXCEPT !.pc = "job"]}
                                           \cup {y \in {[h EXCEPT !.pc = "requeue"]} : Retries(h.snap)}
      BY <1>2 DEF SaveReport
    <2>3. HandlerBounded([IdleHandler(h.unit) EXCEPT !.pc = "job"])
      BY BlankBounded DEF HandlerBounded, IdleHandler
    <2>4. Retries(h.snap) => HandlerBounded([h EXCEPT !.pc = "requeue"])
      BY <1>h DEF HandlerBounded, Handler, Retries
    <2> QED
      BY <1>2, <1>b, <1>i, <2>1, <2>2, <2>3, <2>4 DEF SaveReport, engineVars
  <1>3. CASE Requeue(n)
    <2>1. Bounded([NewUnit EXCEPT !.retry = h.snap.retry + 1])
      <3>1. h.snap.retry \in Nat /\ h.snap.retry < MaxRetries
        BY <1>3, <1>h DEF Requeue, HandlerBounded, Unit
      <3>2. [NewUnit EXCEPT !.retry = h.snap.retry + 1].retry = h.snap.retry + 1
        BY DEF NewUnit, Blank
      <3> QED
        BY <3>1, <3>2 DEF Bounded
    <2>2. BatchBounded(units')
      BY <1>3, <1>h, <2>1, SaveBounded DEF Requeue
    <2> QED
      BY <1>3, <1>b, <1>i, <2>2 DEF Requeue
  <1>c. \A pc \in {"list", "stage", "cascade", "settle"} : \A view, new, todo, victims :
          /\ HandlerBounded([h EXCEPT !.pc = pc, !.view = view])
          /\ HandlerBounded([h EXCEPT !.pc = pc, !.new = new])
          /\ HandlerBounded([h EXCEPT !.pc = pc, !.view = view, !.todo = todo])
          /\ HandlerBounded([h EXCEPT !.todo = todo, !.victims = victims])
          /\ HandlerBounded([h EXCEPT !.victims = victims])
    BY <1>h DEF HandlerBounded, Handler
  <1>4. CASE ReadJob(n)
    BY <1>4, <1>b, <1>i, <1>c DEF ReadJob, storeVars, engineVars
  <1>5. CASE ListStage(n)
    BY <1>5, <1>b, <1>c DEF ListStage, storeVars, engineVars
  <1>6. CASE WriteStage(n)
    <2> DEFINE view == [h.view EXCEPT ![StageOf[h.unit]] = h.new]
               todo == {t \in Downstream(StageOf[h.unit]) : h.view[t] \notin StageFinal}
    <2>1. \/ Become(n, [h EXCEPT !.pc = "cascade", !.view = view, !.todo = todo])
          \/ Become(n, [h EXCEPT !.pc = "settle", !.view = view])
      BY <1>6 DEF WriteStage
    <2> HIDE DEF view, todo
    <2> QED
      BY <1>6, <1>b, <1>c, <2>1 DEF WriteStage, engineVars
  <1>7. CASE CascadeStage(n)
    BY <1>7, <1>b, <1>c DEF CascadeStage, engineVars
  <1>8. CASE CascadeUnit(n)
    <2>1. PICK u \in h.victims : /\ UpdateUnitStatus(u, "Cancelled")
                                 /\ Become(n, [h EXCEPT !.victims = @ \ {u}])
      BY <1>8 DEF CascadeUnit
    <2>2. u \in Units
      BY <1>h, <2>1 DEF Handler
    <2>3. BatchBounded(units')
      BY <2>1, <2>2, UpdateBounded
    <2> QED
      BY <1>8, <1>b, <1>c, <2>1, <2>3 DEF CascadeUnit, engineVars
  <1>9. CASE Reread(n)
    BY <1>9, <1>b, <1>c DEF Reread, storeVars, engineVars
  <1>10. CASE Settle(n)
    BY <1>10, <1>b, <1>i DEF Settle
  <1> QED
    BY <1>1, <1>2, <1>3, <1>4, <1>5, <1>6, <1>7, <1>8, <1>9, <1>10 DEF HandlerStep

\* Everything else leaves the counts alone, or forgets the copies.
LEMMA ControlRetry ==
    ASSUME StoreTypeOK, ControlTypeOK, BatchBounded(units),
           \/ \E u \in Units : SubmitUnit(u)
           \/ \E j \in Jobs : SubmitJob(j) \/ SubmitFails(j) \/ CancelBegin(j)
           \/ CancelStep \/ (\E n \in Nodes : UnregBegin(n)) \/ UnregStep
    PROVE  BatchBounded(units') /\ UNCHANGED <<eng, pull>>
  <1>1. ASSUME NEW u \in Units, SubmitUnit(u) PROVE BatchBounded(units') /\ UNCHANGED <<eng, pull>>
    BY <1>1, BlankBounded, SaveBounded DEF SubmitUnit, engineVars
  <1>2. ASSUME NEW j \in Jobs, SubmitJob(j) \/ SubmitFails(j) \/ CancelBegin(j)
        PROVE  BatchBounded(units') /\ UNCHANGED <<eng, pull>>
    BY <1>2 DEF SubmitJob, SubmitFails, CancelBegin, storeVars, engineVars
  <1>3. CASE CancelUnit \/ UnregUnit
    <2>1. PICK u \in Units, status \in {"Cancelled", "Failed"} : UpdateUnitStatus(u, status)
      BY <1>3 DEF CancelUnit, UnregUnit, ControlTypeOK
    <2> QED
      BY <1>3, <2>1, UpdateBounded DEF CancelUnit, UnregUnit, engineVars
  <1>4. CASE CancelList \/ CancelSave \/ UnregRemove \/ \E n \in Nodes : UnregBegin(n)
    BY <1>4 DEF CancelList, CancelSave, UnregRemove, UnregBegin, storeVars, engineVars
  <1> QED
    BY <1>1, <1>2, <1>3, <1>4 DEF CancelStep, UnregStep

LEMMA RetryStep ==
    ASSUME RetryInv, [Next]_vars
    PROVE  RetryInv'
  <1>t. /\ TypeOK /\ StoreTypeOK /\ EngineTypeOK /\ ReportsTypeOK /\ ControlTypeOK
        /\ TypeOK'
    BY StepType, StutterType DEF RetryInv, TypeOK
  <1>p. /\ BatchBounded(units) /\ BatchBounded(eng.batch)
        /\ \A n \in Nodes : BatchBounded(pull[n].batch)
        /\ \A n \in Nodes : HandlerBounded(rep[n])
    BY <1>t, RetryParts
  <1> DEFINE Goal == /\ BatchBounded(units') /\ BatchBounded(eng'.batch)
                     /\ \A n \in Nodes : BatchBounded(pull'[n].batch)
                     /\ \A n \in Nodes : HandlerBounded(rep'[n])
  <1>1. ASSUME EngineNext PROVE Goal
    BY <1>1, <1>t, <1>p, EngineRetry DEF EngineNext, reportVars
  <1>2. ASSUME PullNext PROVE Goal
    BY <1>2, <1>t, <1>p, PullRetry DEF PullNext, reportVars
  <1>3. ASSUME NEW n \in Nodes, HandlerNext(n) PROVE Goal
    BY <1>3, <1>t, <1>p, HandlerRetry DEF HandlerNext
  <1>4. ASSUME ControlNext PROVE Goal
    BY <1>4, <1>t, <1>p, ControlRetry DEF ControlNext, reportVars
  <1>5. ASSUME AgentFault \/ (\E n \in Nodes : HeartbeatNext(n)) \/ Flap PROVE Goal
    BY <1>5, <1>p
    DEF AgentFault, HeartbeatNext, Flap, Refuse, LaunchFails, LoseCommands, LoseReports,
        AgentRestart, Heartbeat, storeVars, engineVars, reportVars
  <1>6. ASSUME NEW n \in Nodes, NEW u \in Units, ExecNext(n, u) PROVE Goal
    BY <1>6, <1>p
    DEF ExecNext, ExecStep, Launch, CreateContainer, LaunchFails, Exit, CleanupContainer,
        storeVars, engineVars, reportVars
  <1>7. ASSUME Delay PROVE Goal
    BY <1>7, <1>p DEF Delay, DelayElapses, engineVars, reportVars
  <1>8. ASSUME Restart PROVE Goal
    BY <1>8, <1>p, BlankBounded DEF Restart, IdleEngine, IdlePull, storeVars
  <1>9. ASSUME UNCHANGED vars PROVE Goal
    BY <1>9, <1>p DEF vars, storeVars, engineVars, reportVars
  <1>10. Goal
    BY <1>1, <1>2, <1>3, <1>4, <1>5, <1>6, <1>7, <1>8, <1>9 DEF Next
  <1>11. RetryBound'
    BY <1>10, Zenon DEF RetryBound, BatchBounded, HandlerBounded, Bounded
  <1>12. \A n \in Nodes : rep'[n].pc = "requeue" => rep'[n].snap.retry < MaxRetries
    BY <1>10 DEF HandlerBounded
  <1> QED
    BY <1>t, <1>11, <1>12 DEF RetryInv

\* The number of retries of a unit never exceeds max_retries: not in the store, and not
\* in a copy that the engine, a pull call or a report handler is still going to save.
THEOREM RetryCountBounded == Spec => []RetryBound
  <1>1. RetryInv => RetryBound
    BY DEF RetryInv
  <1> QED
    BY RetryInit, RetryStep, <1>1, PTL DEF Spec
=============================================================================
