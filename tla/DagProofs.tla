------------------------------ MODULE DagProofs ------------------------------
(***************************************************************************)
(* A unit of a workflow is handed to a node only after the stages its stage *)
(* depends on have completed, whatever is lost, cancelled, reclaimed or     *)
(* restarted.                                                               *)
(***************************************************************************)
EXTENDS SchedulerProofs

USE StoreAssumption, FitsAssumption, OutcomesAssumption, BudgetAssumption

-----------------------------------------------------------------------------
\* The inductive invariant.  D is the set of units that have been Completed; since it
\* only grows, what is sound for D stays sound.

AllDone(D, s) == \A v \in Units : StageOf[v] = s => v \in D

\* Unit u may be handed to a node.
Cleared(D, u) == UnitJob(u) \in Workflow => \A d \in DependsOn[StageOf[u]] : AllDone(D, d)

\* A copy of the stages of a job calls only those Completed that are.
ViewSound(D, view) == \A s \in Stages : view[s] = "Completed" => AllDone(D, s)

\* The units of a job that exists exist.
Present(us, js) == \A u \in Units : js[UnitJob(u)] # "Absent" => us[u].status # "Absent"

UnitsSound(D, us) == \A u \in Units : us[u].status \in Active => Cleared(D, u)

\* What is with the engine, a pull call, a queue of commands or of reports, a handler.
CycleSound(D, e) == /\ \A u \in e.ready : Cleared(D, u)
                    /\ \A p \in e.pick : Cleared(D, p[1])
CallSound(D, call) == call.pc = "save" => \A u \in InBatch(call.batch) : Cleared(D, u)
CountSound(D, f) == \A u \in Units : f[u] > 0 => Cleared(D, u)
BoxSound(D, b) == \A u \in Units : b[u] # "none" => Cleared(D, u)
QueueSound(D, q) == \A i \in 1..Len(q) : Cleared(D, q[i].unit)

Propagating == {"list", "stage", "cascade", "settle"}
HandlerSound(D, js, h) ==
    /\ ViewSound(D, h.view)
    /\ h.new = "Completed" => AllDone(D, StageOf[h.unit])
    /\ h.pc = "save" => Cleared(D, h.unit) /\ h.snap.status # "Absent"
    /\ h.pc \in Propagating => js[UnitJob(h.unit)] # "Absent"
CancelSound(D, js, call) ==
    /\ ViewSound(D, call.view)
    /\ call.pc # "idle" => js[call.job] # "Absent"

StoreSound(D) == Present(units, job) /\ UnitsSound(D, units) /\ ViewSound(D, stage)
EngineSound(D) == /\ CycleSound(D, eng)
                  /\ \A n \in Nodes : CallSound(D, pull[n]) /\ CountSound(D, cmds[n])
ReportsSound(D) == \A n \in Nodes : QueueSound(D, reports[n]) /\ HandlerSound(D, job, rep[n])
AgentSound(D) == \A n \in Nodes : /\ CountSound(D, spawned[n]) /\ CountSound(D, launching[n])
                                  /\ BoxSound(D, box[n])
Recorded == \A u \in Units : units[u].status = "Completed" => u \in done

DagInv == /\ TypeOK /\ Recorded
          /\ StoreSound(done) /\ EngineSound(done) /\ ReportsSound(done) /\ AgentSound(done)
          /\ CancelSound(done, job, cancel)

-----------------------------------------------------------------------------
\* What is sound stays sound as more units are completed.
LEMMA Monotonic ==
    ASSUME NEW D, NEW E, D \subseteq E
    PROVE  /\ \A s : AllDone(D, s) => AllDone(E, s)
           /\ \A u : Cleared(D, u) => Cleared(E, u)
           /\ \A view : ViewSound(D, view) => ViewSound(E, view)
           /\ \A us : UnitsSound(D, us) => UnitsSound(E, us)
           /\ \A e : CycleSound(D, e) => CycleSound(E, e)
           /\ \A call : CallSound(D, call) => CallSound(E, call)
           /\ \A f : CountSound(D, f) => CountSound(E, f)
           /\ \A b : BoxSound(D, b) => BoxSound(E, b)
           /\ \A q : QueueSound(D, q) => QueueSound(E, q)
           /\ \A js, h : HandlerSound(D, js, h) => HandlerSound(E, js, h)
           /\ \A js, call : CancelSound(D, js, call) => CancelSound(E, js, call)
  <1>1. \A s : AllDone(D, s) => AllDone(E, s)
    BY DEF AllDone
  <1>2. \A u : Cleared(D, u) => Cleared(E, u)
    BY <1>1 DEF Cleared
  <1>3. \A view : ViewSound(D, view) => ViewSound(E, view)
    BY <1>1 DEF ViewSound
  <1>4. \A us : UnitsSound(D, us) => UnitsSound(E, us)
    BY <1>2 DEF UnitsSound
  <1>5. \A e : CycleSound(D, e) => CycleSound(E, e)
    BY <1>2 DEF CycleSound
  <1>6. \A call : CallSound(D, call) => CallSound(E, call)
    BY <1>2 DEF CallSound
  <1>7. \A f : CountSound(D, f) => CountSound(E, f)
    BY <1>2 DEF CountSound
  <1>8. \A b : BoxSound(D, b) => BoxSound(E, b)
    BY <1>2 DEF BoxSound
  <1>9. \A q : QueueSound(D, q) => QueueSound(E, q)
    BY <1>2 DEF QueueSound
  <1>10. \A js, h : HandlerSound(D, js, h) => HandlerSound(E, js, h)
    BY <1>1, <1>2, <1>3 DEF HandlerSound
  <1>11. \A js, call : CancelSound(D, js, call) => CancelSound(E, js, call)
    BY <1>3 DEF CancelSound
  <1> QED
    BY <1>1, <1>2, <1>3, <1>4, <1>5, <1>6, <1>7, <1>8, <1>9, <1>10, <1>11

\* A job that exists goes on existing, whatever is written of it.
LEMMA JobsKept ==
    ASSUME NEW D, NEW js, NEW ks, \A j \in Jobs : js[j] # "Absent" => ks[j] # "Absent"
    PROVE  /\ \A h : h.unit \in Units /\ HandlerSound(D, js, h) => HandlerSound(D, ks, h)
           /\ \A call : call.job \in Jobs /\ CancelSound(D, js, call) => CancelSound(D, ks, call)
  BY JobTypes DEF HandlerSound, CancelSound

\* A blank record is sound.
LEMMA IdleSound ==
    ASSUME NEW D, NEW js
    PROVE  /\ CycleSound(D, IdleEngine) /\ CallSound(D, IdlePull)
           /\ \A u : HandlerSound(D, js, IdleHandler(u)) /\ IdleHandler(u).unit = u
           /\ HandlerSound(D, js, Idle)
           /\ CancelSound(D, js, IdleCancel)
  <1>1. \A u : HandlerSound(D, js, IdleHandler(u)) /\ IdleHandler(u).unit = u
    BY DEF HandlerSound, ViewSound, IdleHandler, NoView, Propagating
  <1>2. CancelSound(D, js, IdleCancel)
    BY DEF CancelSound, ViewSound, IdleCancel
  <1>3. CycleSound(D, IdleEngine) /\ CallSound(D, IdlePull)
    BY DEF CycleSound, CallSound, IdleEngine, IdlePull
  <1> QED
    BY <1>1, <1>2, <1>3 DEF Idle

\* Writing a unit: an active one must be cleared.
LEMMA SaveSound ==
    ASSUME NEW D, StoreTypeOK, Present(units, job), UnitsSound(D, units),
           NEW u \in Units, NEW rec, SaveUnit(u, rec),
           rec.status # "Absent", rec.status \in Active => Cleared(D, u)
    PROVE  Present(units', job) /\ UnitsSound(D, units')
  BY DEF StoreTypeOK, Present, UnitsSound, SaveUnit

LEMMA UpdateSound ==
    ASSUME NEW D, StoreTypeOK, Present(units, job), UnitsSound(D, units),
           NEW u \in Units, NEW status \in {"Failed", "Cancelled"}, UpdateUnitStatus(u, status)
    PROVE  Present(units', job) /\ UnitsSound(D, units')
  <1>1. [units[u] EXCEPT !.status = status].status = status
    BY DEF StoreTypeOK, Unit
  <1> QED
    BY <1>1, SaveSound DEF UpdateUnitStatus, Active

\* Writing a stage.
LEMMA StageSound ==
    ASSUME NEW D, StoreTypeOK, ViewSound(D, stage), NEW s \in Stages, NEW status,
           UpdateStageStatus(s, status), status = "Completed" => AllDone(D, s)
    PROVE  ViewSound(D, stage')
  BY DEF StoreTypeOK, ViewSound, UpdateStageStatus

\* The dependency check clears the units of the stage.
LEMMA DepsClear ==
    ASSUME NEW D, ViewSound(D, stage), NEW u \in Units,
           UnitJob(u) \in Workflow => DepsCompleted(StageOf[u])
    PROVE  Cleared(D, u)
  BY DEF ViewSound, DepsCompleted, Cleared

-----------------------------------------------------------------------------
\* Init.
LEMMA DagInit == Init => DagInv
  <1> SUFFICES ASSUME Init PROVE DagInv
    OBVIOUS
  <1>1. Blank.status = "Absent"
    BY DEF Blank
  <1>2. Recorded /\ StoreSound(done)
    <2>1. \A u \in Units : units[u].status = "Absent" /\ job[UnitJob(u)] = "Absent"
      BY <1>1, JobTypes DEF Init, StoreInit
    <2>2. \A s \in Stages : stage[s] = "Pending"
      BY DEF Init, StoreInit
    <2> QED
      BY <2>1, <2>2 DEF Recorded, StoreSound, Present, UnitsSound, ViewSound, Active
  <1>3. EngineSound(done)
    <2>1. CountSound(done, [u \in Units |-> 0])
      BY DEF CountSound
    <2> QED
      BY <2>1, IdleSound DEF Init, EngineInit, EngineSound
  <1>4. ReportsSound(done)
    <2>1. QueueSound(done, <<>>)
      BY DEF QueueSound
    <2> QED
      BY <2>1, IdleSound DEF Init, ReportsInit, ReportsSound
  <1>5. AgentSound(done)
    BY DEF Init, AgentInit, AgentSound, CountSound, BoxSound
  <1>6. CancelSound(done, job, cancel)
    BY IdleSound DEF Init, ControlInit
  <1> QED
    BY <1>2, <1>3, <1>4, <1>5, <1>6, InitType DEF DagInv

-----------------------------------------------------------------------------
LEMMA EngineDag ==
    ASSUME NEW D, StoreTypeOK, EngineTypeOK, StoreSound(D), EngineSound(D),
           EngineStep \/ WakeUp \/ Tick
    PROVE  /\ Present(units', job') /\ UnitsSound(D, units') /\ ViewSound(D, stage')
           /\ CycleSound(D, eng')
           /\ \A n \in Nodes : CountSound(D, cmds'[n])
           /\ UNCHANGED <<job, pull>>
  <1>e. eng \in Cycle /\ CycleSound(D, eng) /\ \A n \in Nodes : CountSound(D, cmds[n])
    BY DEF EngineTypeOK, EngineSound
  <1>s. Present(units, job) /\ UnitsSound(D, units) /\ ViewSound(D, stage)
    BY DEF StoreSound
  <1>p. ASSUME eng'.ready \subseteq eng.ready, eng'.pick \subseteq eng.pick
        PROVE  CycleSound(D, eng')
    BY <1>e, <1>p DEF CycleSound
  <1>1. CASE WakeUp \/ Tick
    <2>1. eng'.ready = {} /\ eng'.pick = {}
      BY <1>1 DEF WakeUp, Tick, BeginCycle, IdleEngine
    <2> QED
      BY <1>1, <1>e, <1>s, <1>p, <2>1 DEF WakeUp, Tick, storeVars
  <1>2. CASE ReclaimUnit
    <2>1. PICK p \in eng.stale : /\ eng' = [eng EXCEPT !.stale = @ \ {p}]
                                 /\ \/ UpdateUnitStatus(p[1], "Failed")
                                    \/ UNCHANGED <<units, ripe>>
      BY <1>2 DEF ReclaimUnit
    <2>2. p[1] \in Units /\ eng'.ready = eng.ready /\ eng'.pick = eng.pick
      BY <1>e, <2>1 DEF Cycle
    <2>3. Present(units', job) /\ UnitsSound(D, units')
      BY <1>s, <2>1, <2>2, UpdateSound
    <2> QED
      BY <1>2, <1>e, <1>s, <1>p, <2>2, <2>3 DEF ReclaimUnit
  <1>3. CASE ListPending \/ ListRetryable
    <2>1. eng'.ready = eng.ready /\ eng'.pick = eng.pick
      BY <1>3, <1>e DEF ListPending, ListRetryable, Cycle
    <2> QED
      BY <1>3, <1>e, <1>s, <1>p, <2>1 DEF ListPending, ListRetryable, storeVars
  <1>4. CASE VisitJob
    <2>1. PICK j \in eng.left : \/ eng'.ready = ReadyUnits(j, eng.batch)
                                \/ eng'.ready = eng.ready
      BY <1>4, <1>e DEF VisitJob, Cycle
    <2>2. \A u \in ReadyUnits(j, eng.batch) : Cleared(D, u)
      BY <1>s, DepsClear DEF ReadyUnits, InBatch
    <2>3. eng'.pick = eng.pick
      BY <1>4, <1>e DEF VisitJob, Cycle
    <2>4. CycleSound(D, eng')
      BY <1>e, <2>1, <2>2, <2>3 DEF CycleSound
    <2> QED
      BY <1>4, <1>e, <1>s, <2>4 DEF VisitJob, storeVars
  <1>5. CASE SkipStage
    <2>1. PICK s \in eng.todo : UpdateStageStatus(s, "Skipped")
      BY <1>5 DEF SkipStage
    <2>2. ViewSound(D, stage')
      BY <1>e, <1>s, <2>1, StageSound DEF Cycle
    <2>3. eng'.ready = eng.ready /\ eng'.pick = eng.pick
      BY <1>5, <1>e DEF SkipStage, Cycle
    <2> QED
      BY <1>5, <1>e, <1>s, <1>p, <2>2, <2>3 DEF SkipStage
  <1>6. CASE SkipUnit
    <2>1. PICK u \in eng.victims : /\ UpdateUnitStatus(u, "Cancelled")
                                   /\ eng' = [eng EXCEPT !.victims = @ \ {u}]
      BY <1>6 DEF SkipUnit
    <2>2. u \in Units /\ eng'.ready = eng.ready /\ eng'.pick = eng.pick
      BY <1>e, <2>1 DEF Cycle
    <2>3. Present(units', job) /\ UnitsSound(D, units')
      BY <1>s, <2>1, <2>2, UpdateSound
    <2> QED
      BY <1>6, <1>e, <1>s, <1>p, <2>2, <2>3 DEF SkipUnit
  <1>7. CASE PickNode
    <2>1. PICK u \in eng.ready :
            \/ \E n \in Candidates(u) :
                  eng' = [eng EXCEPT !.pc = "save", !.ready = eng.ready \ {u},
                                     !.pick = {<<u, n>>}]
            \/ eng' = [eng EXCEPT !.ready = eng.ready \ {u}]
      BY <1>7 DEF PickNode
    <2>2. eng'.ready = eng.ready \ {u} /\ \A p \in eng'.pick : p[1] = u \/ p \in eng.pick
      <3>1. ASSUME NEW n, eng' = [eng EXCEPT !.pc = "save", !.ready = eng.ready \ {u},
                                             !.pick = {<<u, n>>}]
            PROVE  eng'.ready = eng.ready \ {u} /\ \A p \in eng'.pick : p[1] = u
        <4>1. eng'.ready = eng.ready \ {u} /\ eng'.pick = {<<u, n>>}
          BY <1>e, <3>1 DEF Cycle
        <4> QED
          BY <4>1
      <3>2. ASSUME eng' = [eng EXCEPT !.ready = eng.ready \ {u}]
            PROVE  eng'.ready = eng.ready \ {u} /\ eng'.pick = eng.pick
        BY <1>e, <3>2 DEF Cycle
      <3> QED
        BY <2>1, <3>1, <3>2
    <2>3. CycleSound(D, eng')
      BY <1>e, <2>2 DEF CycleSound
    <2> QED
      BY <1>7, <1>e, <1>s, <2>3 DEF PickNode, storeVars
  <1>8. CASE AssignUnit
    <2>1. PICK p \in eng.pick :
            /\ SaveUnit(p[1], [eng.batch[p[1]] EXCEPT !.status = "Assigned", !.node = p[2]])
            /\ PushCommand(p[2], p[1])
      BY <1>8 DEF AssignUnit
    <2>2. /\ p[1] \in Units /\ p[2] \in Nodes /\ eng.batch[p[1]] \in Unit
          /\ Cleared(D, p[1])
      BY <1>e DEF Cycle, CycleSound
    <2>3. [eng.batch[p[1]] EXCEPT !.status = "Assigned", !.node = p[2]].status = "Assigned"
      BY <2>2 DEF Unit
    <2>4. Present(units', job) /\ UnitsSound(D, units')
      BY <1>s, <2>1, <2>2, <2>3, SaveSound
    <2>5. \A n \in Nodes : CountSound(D, cmds'[n])
      <3>1. \A n \in Nodes, u \in Units :
               cmds'[n][u] = cmds[n][u] \/ u = p[1]
        BY <2>1, <2>2 DEF PushCommand, EngineTypeOK
      <3> QED
        BY <1>e, <2>2, <3>1 DEF CountSound
    <2>6. eng'.ready = eng.ready /\ eng'.pick = {}
      BY <1>8, <1>e DEF AssignUnit, Cycle
    <2> QED
      BY <1>8, <1>s, <1>p, <2>4, <2>5, <2>6 DEF AssignUnit
  <1>9. CASE EndCycle
    BY <1>9, <1>e, <1>s, IdleSound DEF EndCycle, storeVars
  <1> QED
    BY <1>1, <1>2, <1>3, <1>4, <1>5, <1>6, <1>7, <1>8, <1>9 DEF EngineStep

LEMMA PullDag ==
    ASSUME NEW D, StoreTypeOK, EngineTypeOK, StoreSound(D), EngineSound(D),
           NEW n \in Nodes, PullList(n) \/ PullStep(n)
    PROVE  /\ Present(units', job') /\ UnitsSound(D, units')
           /\ \A m \in Nodes : CallSound(D, pull'[m])
           /\ UNCHANGED <<job, stage, eng, cmds>>
  <1>p. /\ pull \in [Nodes -> PullCall] /\ pull[n].batch \in [Units -> Unit]
        /\ \A m \in Nodes : CallSound(D, pull[m])
    BY DEF EngineTypeOK, PullCall, EngineSound
  <1>s. Present(units, job) /\ UnitsSound(D, units) /\ ViewSound(D, stage)
    BY DEF StoreSound
  <1>m. \A call : pull' = [pull EXCEPT ![n] = call] /\ CallSound(D, call)
                    => \A m \in Nodes : CallSound(D, pull'[m])
    BY <1>p
  <1>1. CASE PullList(n)
    <2> DEFINE listed == [u \in Units |-> IF units[u].status = "Pending" THEN units[u] ELSE Blank]
               call == [pc |-> "choose", batch |-> listed]
    <2>1. pull' = [pull EXCEPT ![n] = call] /\ call.pc = "choose"
      BY <1>1 DEF PullList
    <2> HIDE DEF call
    <2> QED
      BY <1>1, <1>s, <1>m, <2>1 DEF PullList, CallSound, storeVars
  <1>2. CASE PullChoose(n)
    <2>1. \A u \in Units : (UnitJob(u) \in Workflow => DepsCompleted(StageOf[u]))
             => CallSound(D, [pc |-> "save", batch |-> [NoBatch EXCEPT ![u] = pull[n].batch[u]]])
      <3>1. \A u, v \in Units : v \in InBatch([NoBatch EXCEPT ![u] = pull[n].batch[u]]) => v = u
        BY BlankType DEF InBatch, NoBatch, Blank
      <3> QED
        BY <1>s, <3>1, DepsClear DEF CallSound, InBatch
    <2>2. CASE pull' = [pull EXCEPT ![n] = IdlePull]
      BY <1>2, <1>s, <1>m, <2>2, IdleSound DEF PullChoose, storeVars
    <2>3. ASSUME NEW u \in Units, UnitJob(u) \in Workflow => DepsCompleted(StageOf[u]),
                 pull' = [pull EXCEPT ![n] =
                            [pc |-> "save", batch |-> [NoBatch EXCEPT ![u] = pull[n].batch[u]]]]
          PROVE  \A m \in Nodes : CallSound(D, pull'[m])
      BY <1>m, <2>1, <2>3
    <2>4. \A m \in Nodes : CallSound(D, pull'[m])
      BY <1>2, <1>m, <2>3, IdleSound DEF PullChoose, InBatch
    <2> QED
      BY <1>2, <1>s, <2>4 DEF PullChoose, storeVars
  <1>3. CASE PullSave(n)
    <2>1. PICK u \in Units :
            /\ u \in InBatch(pull[n].batch)
            /\ SaveUnit(u, [pull[n].batch[u] EXCEPT !.status = "Assigned", !.node = n])
      BY <1>3 DEF PullSave, InBatch
    <2>2. Cleared(D, u) /\ [pull[n].batch[u] EXCEPT !.status = "Assigned", !.node = n].status
                              = "Assigned"
      BY <1>3, <1>p, <2>1 DEF PullSave, CallSound, Unit
    <2>3. Present(units', job) /\ UnitsSound(D, units')
      BY <1>s, <2>1, <2>2, SaveSound
    <2>4. pull' = [pull EXCEPT ![n] = IdlePull]
      BY <1>3 DEF PullSave
    <2> QED
      BY <1>3, <1>m, <2>3, <2>4, IdleSound DEF PullSave
  <1> QED
    BY <1>1, <1>2, <1>3 DEF PullStep

-----------------------------------------------------------------------------
\* Reading, cutting and extending a queue of sound reports.
LEMMA QueueTail ==
    ASSUME NEW D, NEW q \in Seq([unit : Units, status : ReportStatus]), QueueSound(D, q)
    PROVE  /\ q # <<>> => /\ Head(q) \in [unit : Units, status : ReportStatus]
                          /\ Cleared(D, Head(q).unit) /\ QueueSound(D, Tail(q))
           /\ \A k \in 0..Len(q) : QueueSound(D, SubSeq(q, 1, k))
           /\ \A r \in [unit : Units, status : ReportStatus] :
                Cleared(D, r.unit) => QueueSound(D, Append(q, r))
  <1> DEFINE R == [unit : Units, status : ReportStatus]
  <1>1. q \in Seq(R) /\ Len(q) \in Nat
    BY LenProperties
  <1>2. \A i \in 1..Len(q) : Cleared(D, q[i].unit)
    BY DEF QueueSound
  <1>t. q # <<>> => Head(q) \in R
    BY HeadTailProperties
  <1> HIDE DEF R
  <1>3. ASSUME q # <<>> PROVE Cleared(D, Head(q).unit) /\ QueueSound(D, Tail(q))
    <2>1. Len(q) > 0 /\ Head(q) = q[1]
      BY <1>1, <1>3, EmptySeq
    <2>2. Len(Tail(q)) = Len(q) - 1 /\ \A i \in 1..Len(Tail(q)) : Tail(q)[i] = q[i + 1]
      BY <1>1, <1>3, HeadTailProperties
    <2>3. \A i \in 1..Len(Tail(q)) : Cleared(D, Tail(q)[i].unit)
      <3> SUFFICES ASSUME NEW i \in 1..Len(Tail(q)) PROVE Cleared(D, Tail(q)[i].unit)
        OBVIOUS
      <3>1. i + 1 \in 1..Len(q) /\ Tail(q)[i] = q[i + 1]
        BY <1>1, <2>2
      <3> QED
        BY <1>2, <3>1
    <2> QED
      BY <1>1, <1>2, <2>1, <2>3 DEF QueueSound
  <1>4. ASSUME NEW k \in 0..Len(q) PROVE QueueSound(D, SubSeq(q, 1, k))
    <2>1. \A i \in 1..k : q[i] \in R
      BY <1>1, <1>4, ElementOfSeq
    <2>2. /\ Len(SubSeq(q, 1, k)) = IF 1 <= k THEN k - 1 + 1 ELSE 0
          /\ \A i \in 1..(k - 1 + 1) : SubSeq(q, 1, k)[i] = q[1 + i - 1]
      BY <1>1, <1>4, <2>1, SubSeqProperties
    <2>3. ASSUME NEW i \in 1..Len(SubSeq(q, 1, k)) PROVE Cleared(D, SubSeq(q, 1, k)[i].unit)
      <3>1. i \in 1..(k - 1 + 1) /\ i \in 1..Len(q) /\ 1 + i - 1 = i
        BY <1>1, <1>4, <2>2, <2>3
      <3> QED
        BY <1>2, <2>2, <3>1
    <2> QED
      BY <2>3 DEF QueueSound
  <1>5. ASSUME NEW r \in R, Cleared(D, r.unit) PROVE QueueSound(D, Append(q, r))
    <2>1. /\ Len(Append(q, r)) = Len(q) + 1
          /\ \A i \in 1..Len(q) : Append(q, r)[i] = q[i]
          /\ Append(q, r)[Len(q) + 1] = r
      BY <1>1, AppendProperties
    <2>2. ASSUME NEW i \in 1..Len(Append(q, r)) PROVE Cleared(D, Append(q, r)[i].unit)
      <3>1. i \in 1..Len(q) \/ i = Len(q) + 1
        BY <1>1, <2>1, <2>2
      <3> QED
        BY <1>2, <1>5, <2>1, <3>1
    <2> QED
      BY <2>2 DEF QueueSound
  <1> QED
    BY <1>t, <1>3, <1>4, <1>5 DEF R

\* A stage whose listed units are all Completed, none missing, is done.
LEMMA VerdictSound ==
    ASSUME NEW D, StoreTypeOK, \A u \in Units : units[u].status = "Completed" => u \in D,
           NEW s \in Stages, Present(units, job), job[JobOf[s]] # "Absent",
           StageVerdict(ListUnitsByStage(s)) = "Completed"
    PROVE  AllDone(D, s)
  <1> SUFFICES ASSUME NEW v \in Units, StageOf[v] = s PROVE v \in D
    BY DEF AllDone
  <1>1. units[v].status # "Absent" /\ v \in ListUnitsByStage(s)
    BY DEF Present, UnitJob, ListUnitsByStage
  <1>2. units[v].status \in UnitStatus
    BY DEF StoreTypeOK, Unit
  <1> DEFINE statuses == {units[u].status : u \in ListUnitsByStage(s)}
  <1>3. units[v].status \in statuses
    BY <1>1
  <1>4. statuses \cap Unfinished = {} /\ statuses \cap {"Failed", "Cancelled", "Timeout"} = {}
    BY DEF StageVerdict
  <1> HIDE DEF statuses
  <1>5. units[v].status = "Completed"
    BY <1>1, <1>2, <1>3, <1>4 DEF UnitStatus, Unfinished
  <1> QED
    BY <1>5

LEMMA HandlerDag ==
    ASSUME NEW D, StoreTypeOK, ReportsTypeOK, StoreSound(D), ReportsSound(D),
           \A u \in Units : units[u].status = "Completed" => u \in D,
           NEW n \in Nodes, RecvReport(n) \/ HandlerStep(n)
    PROVE  /\ Present(units', job') /\ UnitsSound(D, units') /\ ViewSound(D, stage')
           /\ \A m \in Nodes : QueueSound(D, reports'[m]) /\ HandlerSound(D, job', rep'[m])
           /\ \A j \in Jobs : job[j] # "Absent" => job'[j] # "Absent"
           /\ UNCHANGED <<eng, pull, cmds>>
  <1> DEFINE h == rep[n]
  <1>h. h \in Handler /\ h.unit \in Units /\ UnitJob(h.unit) \in Jobs /\ HandlerSound(D, job, h)
    BY JobTypes DEF ReportsTypeOK, Handler, ReportsSound
  <1>s. Present(units, job) /\ UnitsSound(D, units) /\ ViewSound(D, stage)
    BY DEF StoreSound
  <1>q. \A m \in Nodes : QueueSound(D, reports[m]) /\ HandlerSound(D, job, rep[m])
    BY DEF ReportsSound
  <1>b. \A x : Become(n, x) /\ HandlerSound(D, job, x)
                 => \A m \in Nodes : HandlerSound(D, job, rep'[m])
    BY <1>q DEF ReportsTypeOK, Become
  <1>i. HandlerSound(D, job, Idle) /\ HandlerSound(D, job, IdleHandler(h.unit))
    BY IdleSound
  <1> HIDE DEF h
  <1>1. CASE RecvReport(n)
    <2> DEFINE r == Head(reports[n])
               snap == [units[r.unit] EXCEPT !.status = r.status]
               changed == units[r.unit].status # r.status
    <2>1. /\ r \in [unit : Units, status : ReportStatus]
          /\ Cleared(D, r.unit) /\ QueueSound(D, Tail(reports[n]))
      BY <1>1, <1>q, QueueTail DEF RecvReport, ReportsTypeOK
    <2>2. snap.status # "Absent"
      BY <2>1 DEF StoreTypeOK, Unit, ReportStatus
    <2>3. Become(n, Idle) \/ Become(n, [IdleHandler(r.unit) EXCEPT
                                          !.pc = "save", !.snap = snap, !.changed = changed])
      BY <1>1 DEF RecvReport
    <2>4. \A m \in Nodes : QueueSound(D, reports'[m])
      BY <1>1, <1>q, <2>1 DEF RecvReport, ReportsTypeOK
    <2> HIDE DEF r, snap, changed
    <2>5. HandlerSound(D, job, [IdleHandler(r.unit) EXCEPT
                                  !.pc = "save", !.snap = snap, !.changed = changed])
      BY <2>1, <2>2 DEF HandlerSound, ViewSound, IdleHandler, NoView, Propagating
    <2> QED
      BY <1>1, <1>s, <1>b, <1>i, <2>3, <2>4, <2>5 DEF RecvReport, storeVars, engineVars
  <1>2. CASE SaveReport(n)
    <2>1. h.pc = "save" /\ Cleared(D, h.unit) /\ h.snap.status # "Absent"
      BY <1>2, <1>h DEF SaveReport, HandlerSound, h
    <2>2. SaveUnit(h.unit, h.snap)
      BY <1>2 DEF SaveReport, h
    <2>3. Present(units', job) /\ UnitsSound(D, units')
      BY <1>h, <1>s, <2>1, <2>2, SaveSound
    <2>4. /\ HandlerSound(D, job, [h EXCEPT !.pc = "requeue"])
          /\ HandlerSound(D, job, [IdleHandler(h.unit) EXCEPT !.pc = "job"])
      BY <1>h DEF HandlerSound, ViewSound, Handler, IdleHandler, NoView, Propagating
    <2> QED
      BY <1>2, <1>s, <1>q, <1>b, <1>i, <2>3, <2>4 DEF SaveReport, engineVars, h
  <1>3. CASE Requeue(n)
    <2>1. SaveUnit(h.unit, [NewUnit EXCEPT !.retry = h.snap.retry + 1])
      BY <1>3 DEF Requeue, h
    <2>2. [NewUnit EXCEPT !.retry = h.snap.retry + 1].status = "Pending"
      BY DEF NewUnit, Blank
    <2>3. Present(units', job) /\ UnitsSound(D, units')
      BY <1>h, <1>s, <2>1, <2>2, SaveSound DEF Active
    <2> QED
      BY <1>3, <1>s, <1>q, <1>b, <1>i, <2>3 DEF Requeue
  <1>4. CASE ReadJob(n)
    <2>1. job[UnitJob(h.unit)] # "Absent" =>
             HandlerSound(D, job, [h EXCEPT !.pc = "list", !.view = stage])
      BY <1>h, <1>s DEF HandlerSound, Handler
    <2> QED
      BY <1>4, <1>s, <1>q, <1>b, <1>i, <2>1 DEF ReadJob, storeVars, engineVars, h
  <1>5. CASE ListStage(n)
    <2> DEFINE verdict == StageVerdict(ListUnitsByStage(StageOf[h.unit]))
    <2>1. h.pc = "list" /\ Become(n, [h EXCEPT !.pc = "stage", !.new = verdict])
      BY <1>5 DEF ListStage, h
    <2>2. job[UnitJob(h.unit)] # "Absent"
      BY <1>h, <2>1 DEF HandlerSound, Propagating
    <2>3. verdict = "Completed" => AllDone(D, StageOf[h.unit])
      BY <1>h, <1>s, <2>2, VerdictSound, JobTypes DEF UnitJob
    <2> HIDE DEF verdict
    <2>4. HandlerSound(D, job, [h EXCEPT !.pc = "stage", !.new = verdict])
      BY <1>h, <2>2, <2>3 DEF HandlerSound, Handler, Propagating
    <2> QED
      BY <1>5, <1>s, <1>q, <1>b, <2>1, <2>4 DEF ListStage, storeVars, engineVars
  <1>6. CASE WriteStage(n)
    <2> DEFINE view == [h.view EXCEPT ![StageOf[h.unit]] = h.new]
               todo == {t \in Downstream(StageOf[h.unit]) : h.view[t] \notin StageFinal}
    <2>1. /\ h.pc = "stage" /\ h.view \in [Stages -> StageStatus]
          /\ StageOf[h.unit] \in Stages
          /\ UpdateStageStatus(StageOf[h.unit], h.new) \/ UNCHANGED stage
      BY <1>6, <1>h, JobTypes DEF WriteStage, h, Handler
    <2>2. \/ Become(n, [h EXCEPT !.pc = "cascade", !.view = view, !.todo = todo])
          \/ Become(n, [h EXCEPT !.pc = "settle", !.view = view])
      BY <1>6 DEF WriteStage, h
    <2>3. ViewSound(D, view)
      BY <1>h, <2>1 DEF HandlerSound, ViewSound
    <2>4. ViewSound(D, stage')
      BY <1>h, <1>s, <2>1, StageSound DEF HandlerSound
    <2>5. job[UnitJob(h.unit)] # "Absent"
      BY <1>h, <2>1 DEF HandlerSound, Propagating
    <2> HIDE DEF view, todo
    <2>6. /\ HandlerSound(D, job, [h EXCEPT !.pc = "cascade", !.view = view, !.todo = todo])
          /\ HandlerSound(D, job, [h EXCEPT !.pc = "settle", !.view = view])
      BY <1>h, <2>3, <2>5 DEF HandlerSound, Handler
    <2> QED
      BY <1>6, <1>s, <1>q, <1>b, <2>2, <2>4, <2>6 DEF WriteStage, engineVars
  <1>c. \A todo, victims : /\ HandlerSound(D, job, [h EXCEPT !.todo = todo, !.victims = victims])
                           /\ HandlerSound(D, job, [h EXCEPT !.victims = victims])
    BY <1>h DEF HandlerSound, Handler
  <1>7. CASE CascadeStage(n)
    <2>1. PICK t \in h.todo : UpdateStageStatus(t, "Skipped")
      BY <1>7 DEF CascadeStage, h
    <2>2. ViewSound(D, stage')
      BY <1>h, <1>s, <2>1, StageSound DEF Handler
    <2>3. \E todo, victims : Become(n, [h EXCEPT !.todo = todo, !.victims = victims])
      BY <1>7 DEF CascadeStage, h
    <2> QED
      BY <1>7, <1>s, <1>q, <1>b, <1>c, <2>2, <2>3 DEF CascadeStage, engineVars
  <1>8. CASE CascadeUnit(n)
    <2>1. PICK u \in h.victims : /\ UpdateUnitStatus(u, "Cancelled")
                                 /\ Become(n, [h EXCEPT !.victims = @ \ {u}])
      BY <1>8 DEF CascadeUnit, h
    <2>2. Present(units', job) /\ UnitsSound(D, units')
      BY <1>h, <1>s, <2>1, UpdateSound DEF Handler
    <2> QED
      BY <1>8, <1>s, <1>q, <1>b, <1>c, <2>1, <2>2 DEF CascadeUnit, engineVars
  <1>9. CASE Reread(n)
    <2>1. HandlerSound(D, job, [h EXCEPT !.pc = "settle", !.view = stage])
      <3>1. job[UnitJob(h.unit)] # "Absent"
        BY <1>9, <1>h DEF Reread, HandlerSound, Propagating, h
      <3> QED
        BY <1>h, <1>s, <3>1 DEF HandlerSound, Handler
    <2> QED
      BY <1>9, <1>s, <1>q, <1>b, <2>1 DEF Reread, storeVars, engineVars, h
  <1>10. CASE Settle(n)
    <2>1. job[UnitJob(h.unit)] # "Absent"
      BY <1>10, <1>h DEF Settle, HandlerSound, Propagating, h
    <2>2. (\E status \in {"Failed", "Completed"} : UpdateJobStatus(UnitJob(h.unit), status))
            \/ UNCHANGED job
      BY <1>10 DEF Settle, h
    <2>3. \A j \in Jobs : job[j] # "Absent" <=> job'[j] # "Absent"
      BY <1>h, <2>1, <2>2 DEF UpdateJobStatus, StoreTypeOK
    <2>4. Present(units, job')
      BY <1>s, <2>3, JobTypes DEF Present
    <2>5. \A m \in Nodes : HandlerSound(D, job, rep'[m]) /\ rep'[m].unit \in Units
      BY <1>10, <1>b, <1>i, IdleTypes DEF Settle, Become, ReportsTypeOK, Handler, Idle
    <2>6. \A m \in Nodes : HandlerSound(D, job', rep'[m])
      BY <2>3, <2>5, JobsKept
    <2> QED
      BY <1>10, <1>s, <1>q, <2>3, <2>4, <2>6 DEF Settle
  <1> QED
    BY <1>1, <1>2, <1>3, <1>4, <1>5, <1>6, <1>7, <1>8, <1>9, <1>10 DEF HandlerStep

-----------------------------------------------------------------------------
\* An agent holds only what it was given, and reports only of what it holds.
LEMMA CountEdit ==
    ASSUME NEW D, NEW f \in [Nodes -> [Units -> Nat]], \A m \in Nodes : CountSound(D, f[m]),
           NEW n \in Nodes, NEW u \in Units
    PROVE  /\ Cleared(D, u) => \A m \in Nodes : CountSound(D, [f EXCEPT ![n][u] = @ + 1][m])
           /\ f[n][u] > 0 => /\ Cleared(D, u)
                             /\ \A m \in Nodes : CountSound(D, [f EXCEPT ![n][u] = @ - 1][m])
           /\ \A m \in Nodes : CountSound(D, [f EXCEPT ![n] = [v \in Units |-> 0]][m])
  BY DEF CountSound

LEMMA ReportSound ==
    ASSUME NEW D, ReportsTypeOK, \A m \in Nodes : QueueSound(D, reports[m]),
           NEW n \in Nodes
    PROVE  /\ \A u \in Units, status \in ReportStatus :
                Report(n, u, status) /\ Cleared(D, u) => \A m \in Nodes : QueueSound(D, reports'[m])
           /\ \A k \in 0..Len(reports[n]) :
                reports' = [reports EXCEPT ![n] = SubSeq(@, 1, k)]
                  => \A m \in Nodes : QueueSound(D, reports'[m])
  <1>1. reports[n] \in Seq([unit : Units, status : ReportStatus])
    BY DEF ReportsTypeOK
  <1>2. ASSUME NEW u \in Units, NEW status \in ReportStatus, Report(n, u, status), Cleared(D, u)
        PROVE  \A m \in Nodes : QueueSound(D, reports'[m])
    <2> DEFINE r == [unit |-> u, status |-> status]
    <2>1. r \in [unit : Units, status : ReportStatus] /\ r.unit = u
      OBVIOUS
    <2>2. reports' = [reports EXCEPT ![n] = Append(@, r)]
      BY <1>2 DEF Report
    <2> HIDE DEF r
    <2>3. QueueSound(D, Append(reports[n], r))
      BY <1>1, <1>2, <2>1, QueueTail
    <2> QED
      BY <2>2, <2>3 DEF ReportsTypeOK
  <1>3. ASSUME NEW k \in 0..Len(reports[n]), reports' = [reports EXCEPT ![n] = SubSeq(@, 1, k)]
        PROVE  \A m \in Nodes : QueueSound(D, reports'[m])
    <2>1. QueueSound(D, SubSeq(reports[n], 1, k))
      BY <1>1, QueueTail
    <2> QED
      BY <1>3, <2>1 DEF ReportsTypeOK
  <1> QED
    BY <1>2, <1>3

LEMMA AgentDag ==
    ASSUME NEW D, EngineTypeOK, ReportsTypeOK, AgentTypeOK,
           EngineSound(D), ReportsSound(D), AgentSound(D), NEW n \in Nodes, NEW u \in Units,
           \/ Heartbeat(n) \/ LoseCommands(n) \/ Refuse(n, u) \/ LaunchFails(n, u)
           \/ ExecStep(n, u) \/ LoseReports(n) \/ AgentRestart(n)
    PROVE  /\ \A m \in Nodes : /\ CountSound(D, cmds'[m]) /\ CountSound(D, spawned'[m])
                               /\ CountSound(D, launching'[m]) /\ BoxSound(D, box'[m])
                               /\ QueueSound(D, reports'[m])
           /\ UNCHANGED <<units, job, stage, eng, pull, rep>>
  <1>a. \A m \in Nodes : /\ CountSound(D, cmds[m]) /\ CountSound(D, spawned[m])
                         /\ CountSound(D, launching[m]) /\ BoxSound(D, box[m])
                         /\ QueueSound(D, reports[m])
    BY DEF EngineSound, ReportsSound, AgentSound
  <1>t. /\ cmds \in [Nodes -> [Units -> Nat]] /\ spawned \in [Nodes -> [Units -> Nat]]
        /\ launching \in [Nodes -> [Units -> Nat]] /\ box \in [Nodes -> [Units -> BoxStatus]]
    BY DEF EngineTypeOK, AgentTypeOK
  <1>r. {"Running", "Failed"} \subseteq ReportStatus /\ Outcomes \subseteq ReportStatus
    BY DEF ReportStatus
  <1>b. \A status \in BoxStatus : Cleared(D, u) \/ status = "none" =>
           (box' = [box EXCEPT ![n][u] = status] => \A m \in Nodes : BoxSound(D, box'[m]))
    BY <1>a, <1>t DEF BoxSound
  <1>c. {"none", "running", "exited"} \subseteq BoxStatus
    BY DEF BoxStatus
  <1>1. CASE Heartbeat(n)
    <2>1. \A v \in Units : spawned[n][v] + cmds[n][v] > 0 => Cleared(D, v)
      BY <1>a, <1>t DEF CountSound
    <2>2. CountSound(D, [v \in Units |-> spawned[n][v] + cmds[n][v]])
      BY <2>1 DEF CountSound
    <2>3. \A m \in Nodes : CountSound(D, spawned'[m])
      BY <1>1, <1>a, <1>t, <2>2 DEF Heartbeat
    <2>4. \A m \in Nodes : CountSound(D, cmds'[m])
      BY <1>1, <1>a, <1>t, CountEdit DEF Heartbeat, PopCommands
    <2> QED
      BY <1>1, <1>a, <2>3, <2>4 DEF Heartbeat, storeVars, reportVars
  <1>2. CASE LoseCommands(n)
    BY <1>2, <1>a, <1>t, CountEdit DEF LoseCommands, PopCommands, storeVars, reportVars, agentVars
  <1>3. CASE Refuse(n, u)
    BY <1>3, <1>a, <1>t, <1>r, CountEdit, ReportSound DEF Refuse, storeVars, engineVars
  <1>4. CASE LaunchFails(n, u)
    BY <1>4, <1>a, <1>t, <1>r, CountEdit, ReportSound DEF LaunchFails, storeVars, engineVars
  <1>5. CASE Launch(n, u)
    BY <1>5, <1>a, <1>t, <1>r, CountEdit, ReportSound DEF Launch, storeVars, engineVars
  <1>6. CASE CreateContainer(n, u)
    BY <1>6, <1>a, <1>t, <1>b, <1>c, CountEdit
    DEF CreateContainer, storeVars, engineVars, reportVars
  <1>7. CASE \E status \in Outcomes : Exit(n, u, status)
    <2>1. PICK status \in Outcomes : Exit(n, u, status)
      BY <1>7
    <2>2. Cleared(D, u)
      BY <1>a, <2>1 DEF Exit, BoxSound
    <2> QED
      BY <2>1, <2>2, <1>a, <1>b, <1>c, <1>r, ReportSound DEF Exit, storeVars, engineVars
  <1>8. CASE CleanupContainer(n, u)
    BY <1>8, <1>a, <1>b, <1>c DEF CleanupContainer, storeVars, engineVars, reportVars
  <1>9. CASE LoseReports(n)
    <2>1. Len(reports[n]) \in Nat
      BY LenProperties DEF ReportsTypeOK
    <2>2. \A m \in Nodes : QueueSound(D, reports'[m])
      <3>1. PICK k \in 0..(Len(reports[n]) - 1) :
              reports' = [reports EXCEPT ![n] = SubSeq(@, 1, k)]
        BY <1>9, Zenon DEF LoseReports
      <3>2. k \in 0..Len(reports[n])
        BY <2>1
      <3> QED
        BY <1>a, <3>1, <3>2, ReportSound
    <2> QED
      BY <1>9, <1>a, <2>2 DEF LoseReports, storeVars, engineVars, agentVars
  <1>10. CASE AgentRestart(n)
    <2>1. \A m \in Nodes : QueueSound(D, reports'[m])
      <3>1. PICK k \in 0..Len(reports[n]) : reports' = [reports EXCEPT ![n] = SubSeq(@, 1, k)]
        BY <1>10, Zenon DEF AgentRestart
      <3> QED
        BY <1>a, <3>1, ReportSound
    <2>2. \A m \in Nodes : CountSound(D, spawned'[m]) /\ CountSound(D, launching'[m])
      BY <1>10, <1>a, <1>t, CountEdit DEF AgentRestart
    <2>3. \A m \in Nodes : BoxSound(D, box'[m])
      <3> DEFINE left == [v \in Units |-> CASE box[n][v] = "running" -> "orphan"
                                           [] box[n][v] = "exited"  -> "left"
                                           [] OTHER                 -> box[n][v]]
      <3>1. \A v \in Units : left[v] # "none" => box[n][v] # "none"
        OBVIOUS
      <3>2. box' = [box EXCEPT ![n] = left]
        BY <1>10, Zenon DEF AgentRestart
      <3> HIDE DEF left
      <3> QED
        BY <1>a, <1>t, <3>1, <3>2 DEF BoxSound
    <2> QED
      BY <1>10, <1>a, <2>1, <2>2, <2>3 DEF AgentRestart, storeVars
  <1> QED
    BY <1>1, <1>2, <1>3, <1>4, <1>5, <1>6, <1>7, <1>8, <1>9, <1>10 DEF ExecStep

-----------------------------------------------------------------------------
LEMMA ControlDag ==
    ASSUME NEW D, StoreTypeOK, ControlTypeOK, StoreSound(D), CancelSound(D, job, cancel),
           \/ \E u \in Units : SubmitUnit(u)
           \/ \E j \in Jobs : SubmitJob(j) \/ SubmitFails(j) \/ CancelBegin(j)
           \/ CancelStep \/ (\E n \in Nodes : UnregBegin(n)) \/ UnregStep
    PROVE  /\ Present(units', job') /\ UnitsSound(D, units') /\ ViewSound(D, stage')
           /\ CancelSound(D, job', cancel')
           /\ \A j \in Jobs : job[j] # "Absent" => job'[j] # "Absent"
           /\ UNCHANGED <<eng, pull, cmds>>
  <1> DEFINE Goal == /\ Present(units', job') /\ UnitsSound(D, units') /\ ViewSound(D, stage')
                     /\ CancelSound(D, job', cancel')
                     /\ \A j \in Jobs : job[j] # "Absent" => job'[j] # "Absent"
                     /\ UNCHANGED <<eng, pull, cmds>>
  <1>s. Present(units, job) /\ UnitsSound(D, units) /\ ViewSound(D, stage)
    BY DEF StoreSound
  <1>c. cancel.job \in Jobs /\ cancel.victims \subseteq Units /\ unreg.victims \subseteq Units
    BY DEF ControlTypeOK
  <1>1. ASSUME NEW u \in Units, SubmitUnit(u) PROVE Goal
    <2>1. NewUnit.status = "Pending"
      BY DEF NewUnit, Blank
    <2>2. Present(units', job) /\ UnitsSound(D, units')
      BY <1>1, <1>s, <2>1, SaveSound DEF SubmitUnit, Active
    <2> QED
      BY <1>1, <1>s, <2>2 DEF SubmitUnit, engineVars
  <1>2. ASSUME NEW j \in Jobs, SubmitJob(j) PROVE Goal
    <2>1. /\ job' = [job EXCEPT ![j] = "Pending"]
          /\ \A s \in Stages : stage'[s] = "Pending" \/ stage'[s] = stage[s]
          /\ \A u \in Units : UnitJob(u) = j => units[u].status # "Absent"
          /\ UNCHANGED <<units, eng, pull, cmds, cancel>>
      BY <1>2 DEF SubmitJob, SaveJob
    <2>2. ViewSound(D, stage')
      BY <1>s, <2>1 DEF ViewSound
    <2>3. Present(units', job')
      BY <1>s, <2>1, JobTypes DEF StoreTypeOK, Present
    <2>4. \A k \in Jobs : job[k] # "Absent" => job'[k] # "Absent"
      BY <2>1 DEF StoreTypeOK
    <2>5. CancelSound(D, job', cancel')
      BY <1>c, <2>1, <2>4, JobsKept
    <2> QED
      BY <1>s, <2>1, <2>2, <2>3, <2>4, <2>5
  <1>3. ASSUME NEW j \in Jobs, SubmitFails(j) PROVE Goal
    BY <1>3, <1>s DEF SubmitFails, storeVars, engineVars
  <1>4. ASSUME NEW j \in Jobs, CancelBegin(j) PROVE Goal
    <2>1. CancelSound(D, job, cancel')
      BY <1>4, <1>s DEF CancelBegin, CancelSound, IdleCancel
    <2> QED
      BY <1>4, <1>s, <2>1 DEF CancelBegin, storeVars, engineVars
  <1>5. ASSUME CancelList PROVE Goal
    <2>1. CancelSound(D, job, cancel')
      BY <1>5 DEF CancelList, CancelSound, ControlTypeOK
    <2> QED
      BY <1>5, <1>s, <2>1 DEF CancelList, storeVars, engineVars
  <1>6. ASSUME CancelUnit PROVE Goal
    <2>1. PICK u \in cancel.victims : /\ UpdateUnitStatus(u, "Cancelled")
                                      /\ cancel' = [cancel EXCEPT !.victims = @ \ {u}]
      BY <1>6 DEF CancelUnit
    <2>2. Present(units', job) /\ UnitsSound(D, units')
      BY <1>c, <1>s, <2>1, UpdateSound
    <2>3. CancelSound(D, job, cancel')
      BY <2>1 DEF CancelSound, ControlTypeOK
    <2> QED
      BY <1>6, <1>s, <2>2, <2>3 DEF CancelUnit, engineVars
  <1>7. ASSUME CancelSave PROVE Goal
    <2>1. /\ job' = [job EXCEPT ![cancel.job] = "Cancelled"]
          /\ \A s \in Stages : \/ stage'[s] = stage[s] \/ stage'[s] = "Skipped"
                               \/ stage'[s] = cancel.view[s]
          /\ UNCHANGED <<units, eng, pull, cmds>> /\ cancel' = IdleCancel
      BY <1>7 DEF CancelSave, SaveJob
    <2>2. job[cancel.job] # "Absent"
      BY <1>7 DEF CancelSave, CancelSound
    <2>3. ViewSound(D, stage')
      BY <1>s, <2>1 DEF ViewSound, CancelSound
    <2>4. \A k \in Jobs : job[k] # "Absent" <=> job'[k] # "Absent"
      BY <1>c, <2>1, <2>2 DEF StoreTypeOK
    <2>5. Present(units', job')
      BY <1>s, <2>1, <2>4, JobTypes DEF Present
    <2> QED
      BY <1>s, <2>1, <2>3, <2>4, <2>5, IdleSound
  <1>8. ASSUME UnregUnit PROVE Goal
    <2>1. PICK u \in unreg.victims : UpdateUnitStatus(u, "Failed")
      BY <1>8 DEF UnregUnit
    <2>2. Present(units', job) /\ UnitsSound(D, units')
      BY <1>c, <1>s, <2>1, UpdateSound
    <2> QED
      BY <1>8, <1>s, <2>2 DEF UnregUnit, engineVars
  <1>9. ASSUME UnregRemove \/ \E n \in Nodes : UnregBegin(n) PROVE Goal
    BY <1>9, <1>s DEF UnregRemove, UnregBegin, storeVars, engineVars
  <1> QED
    BY <1>1, <1>2, <1>3, <1>4, <1>5, <1>6, <1>7, <1>8, <1>9 DEF CancelStep, UnregStep

-----------------------------------------------------------------------------
LEMMA DagStep ==
    ASSUME DagInv, [Next]_vars
    PROVE  DagInv'
  <1> DEFINE D == done
             \* What of DagInv' remains to be shown once it is known that done only grows.
             Goal == /\ Present(units', job') /\ UnitsSound(D, units') /\ ViewSound(D, stage')
                     /\ CycleSound(D, eng')
                     /\ \A n \in Nodes : /\ CallSound(D, pull'[n]) /\ CountSound(D, cmds'[n])
                                         /\ QueueSound(D, reports'[n])
                                         /\ HandlerSound(D, job', rep'[n])
                                         /\ CountSound(D, spawned'[n])
                                         /\ CountSound(D, launching'[n]) /\ BoxSound(D, box'[n])
                     /\ CancelSound(D, job', cancel')
  <1>t. /\ TypeOK /\ StoreTypeOK /\ EngineTypeOK /\ ReportsTypeOK /\ AgentTypeOK /\ ControlTypeOK
        /\ TypeOK'
    BY StepType, StutterType DEF DagInv, TypeOK
  <1>i. /\ StoreSound(D) /\ EngineSound(D) /\ ReportsSound(D) /\ AgentSound(D)
        /\ CancelSound(D, job, cancel)
        /\ \A u \in Units : units[u].status = "Completed" => u \in D
    BY DEF DagInv, Recorded
  <1>p. /\ Present(units, job) /\ UnitsSound(D, units) /\ ViewSound(D, stage)
        /\ CycleSound(D, eng)
        /\ \A n \in Nodes : /\ CallSound(D, pull[n]) /\ CountSound(D, cmds[n])
                            /\ QueueSound(D, reports[n]) /\ HandlerSound(D, job, rep[n])
                            /\ CountSound(D, spawned[n])
                            /\ CountSound(D, launching[n]) /\ BoxSound(D, box[n])
        /\ CancelSound(D, job, cancel)
    BY <1>i DEF StoreSound, EngineSound, ReportsSound, AgentSound
  <1>u. cancel.job \in Jobs /\ \A n \in Nodes : rep[n].unit \in Units
    BY <1>t DEF ControlTypeOK, ReportsTypeOK, Handler
  <1> HIDE DEF D
  <1>1. ASSUME EngineNext PROVE Goal
    BY <1>1, <1>t, <1>i, <1>p, EngineDag DEF EngineNext, reportVars, agentVars, controlVars
  <1>2. ASSUME PullNext PROVE Goal
    BY <1>2, <1>t, <1>i, <1>p, PullDag DEF PullNext, reportVars, agentVars, controlVars
  <1>3. ASSUME NEW n \in Nodes, HandlerNext(n) PROVE Goal
    <2>1. /\ Present(units', job') /\ UnitsSound(D, units') /\ ViewSound(D, stage')
          /\ \A m \in Nodes : QueueSound(D, reports'[m]) /\ HandlerSound(D, job', rep'[m])
          /\ \A j \in Jobs : job[j] # "Absent" => job'[j] # "Absent"
          /\ UNCHANGED <<eng, pull, cmds>>
      BY <1>3, <1>t, <1>i, HandlerDag DEF HandlerNext
    <2>2. CancelSound(D, job', cancel)
      BY <1>p, <1>u, <2>1, JobsKept
    <2> QED
      BY <1>3, <1>p, <2>1, <2>2 DEF HandlerNext, agentVars, controlVars
  <1>4. ASSUME ControlNext PROVE Goal
    <2>1. /\ Present(units', job') /\ UnitsSound(D, units') /\ ViewSound(D, stage')
          /\ CancelSound(D, job', cancel')
          /\ \A j \in Jobs : job[j] # "Absent" => job'[j] # "Absent"
          /\ UNCHANGED <<eng, pull, cmds>>
      BY <1>4, <1>t, <1>i, ControlDag DEF ControlNext
    <2>2. \A n \in Nodes : HandlerSound(D, job', rep[n])
      BY <1>p, <1>u, <2>1, JobsKept
    <2> QED
      BY <1>4, <1>p, <2>1, <2>2 DEF ControlNext, reportVars, agentVars
  <1>5. ASSUME AgentFault PROVE Goal
    BY <1>5, <1>t, <1>i, <1>p, AgentDag DEF AgentFault, controlVars
  <1>6. ASSUME NEW n \in Nodes, HeartbeatNext(n) PROVE Goal
    BY <1>6, <1>t, <1>i, <1>p, AgentDag DEF HeartbeatNext, controlVars
  <1>7. ASSUME NEW n \in Nodes, NEW u \in Units, ExecNext(n, u) PROVE Goal
    BY <1>7, <1>t, <1>i, <1>p, AgentDag DEF ExecNext, controlVars
  <1>8. ASSUME Flap \/ Delay PROVE Goal
    BY <1>8, <1>p DEF Flap, Delay, DelayElapses, storeVars, engineVars, reportVars, agentVars,
                      controlVars
  <1>9. ASSUME Restart PROVE Goal
    <2>1. QueueSound(D, <<>>) /\ CountSound(D, [u \in Units |-> 0])
      BY DEF QueueSound, CountSound
    <2> QED
      BY <1>9, <1>p, <2>1, IdleSound DEF Restart, storeVars, agentVars
  <1>10. ASSUME UNCHANGED vars PROVE Goal
    BY <1>10, <1>p DEF vars, storeVars, engineVars, reportVars, agentVars, controlVars
  <1>11. Goal
    BY <1>1, <1>2, <1>3, <1>4, <1>5, <1>6, <1>7, <1>8, <1>9, <1>10 DEF Next
  <1>12. D \subseteq done' /\ Recorded'
    <2>1. CASE Next
      BY <2>1 DEF Next, Record, Recorded, D
    <2>2. CASE UNCHANGED vars
      BY <2>2 DEF vars, storeVars, Recorded, DagInv, D
    <2> QED
      BY <2>1, <2>2
  <1>13. StoreSound(done)' /\ CancelSound(done', job', cancel')
    BY <1>11, <1>12, Monotonic DEF StoreSound
  <1>14. EngineSound(done)'
    BY <1>11, <1>12, Monotonic DEF EngineSound
  <1>15. ReportsSound(done)' /\ AgentSound(done)'
    BY <1>11, <1>12, Monotonic DEF ReportsSound, AgentSound
  <1> QED
    BY <1>t, <1>12, <1>13, <1>14, <1>15 DEF DagInv

\* A unit of a workflow is handed to a node only after every unit of every stage its
\* stage depends on has been Completed: late reports, cascades, cancellations, reclaims,
\* pulls and restarts may overwrite each other's writes, and still none of them brings a
\* unit forward.
THEOREM DagOrderHolds == Spec => []DagOrder
  <1>1. DagInv => DagOrder
    <2> SUFFICES ASSUME DagInv, NEW u \in Units, UnitJob(u) \in Workflow, Dispatched(u),
                        NEW v \in Units, StageOf[v] \in DependsOn[StageOf[u]]
                 PROVE  v \in done
      BY DEF DagOrder
    <2>1. Cleared(done, u)
      <3>1. CASE units[u].status \in Active
        BY <3>1 DEF DagInv, StoreSound, UnitsSound
      <3>2. ASSUME NEW n \in Nodes, cmds[n][u] + spawned[n][u] + launching[n][u] > 0
            PROVE  Cleared(done, u)
        <4>1. cmds[n][u] > 0 \/ spawned[n][u] > 0 \/ launching[n][u] > 0
          BY <3>2 DEF DagInv, TypeOK, EngineTypeOK, AgentTypeOK
        <4> QED
          BY <4>1 DEF DagInv, EngineSound, AgentSound, CountSound
      <3>3. ASSUME NEW n \in Nodes, box[n][u] # "none" PROVE Cleared(done, u)
        BY <3>3 DEF DagInv, AgentSound, BoxSound
      <3> QED
        BY <3>1, <3>2, <3>3 DEF Dispatched
    <2> QED
      BY <2>1 DEF Cleared, AllDone
  <1> QED
    BY DagInit, DagStep, <1>1, PTL DEF Spec

-----------------------------------------------------------------------------
\* A job is Completed on the word of a handler's copy of its stages.  The copy may be
\* old, and two handlers may settle one job; what they go by is sound for all that, as
\* long as no stage is Skipped: a skipped stage counts as finished, and nothing ran.
\* A stage is skipped in a workflow below a failed one, and by CancelJob.

Independent == \A s \in Stages : DependsOn[s] = {}

NoneSkipped ==
    /\ \A s \in Stages : stage[s] # "Skipped"
    /\ eng.todo = {}
    /\ \A n \in Nodes : /\ rep[n].todo = {} /\ rep[n].new # "Skipped"
                        /\ \A s \in Stages : rep[n].view[s] # "Skipped"

NoCancel == cancel.pc = "idle" /\ budget["cancel"] = 0

JobsDone(D, js) ==
    \A j \in Jobs : js[j] = "Completed" => \A s \in StagesOf(j) : AllDone(D, s)

SettledInv == DagInv /\ NoneSkipped /\ NoCancel /\ JobsDone(done, job)

LEMMA NothingBelow ==
    ASSUME Independent
    PROVE  /\ \A s \in Stages : Downstream(s) = {}
           /\ \A j : ToSkip(j) = {}
  BY DEF Independent, Downstream, ToSkip, StagesOf

LEMMA SettledInit ==
    ASSUME Budget["cancel"] = 0, Init
    PROVE  SettledInv
  BY DagInit DEF Init, SettledInv, NoneSkipped, NoCancel, JobsDone, StoreInit, EngineInit,
                 ReportsInit, ControlInit, IdleEngine, Idle, IdleHandler, NoView, IdleCancel

\* The handlers: none skips a stage, and one that completes a job is right.
LEMMA HandlerSettles ==
    ASSUME Independent, NEW D, StoreTypeOK, ReportsTypeOK, ReportsSound(D), NoneSkipped, JobsDone(D, job),
           NEW n \in Nodes, RecvReport(n) \/ HandlerStep(n)
    PROVE  NoneSkipped' /\ JobsDone(D, job')
  <1> DEFINE h == rep[n]
             Fine(x) == /\ x.todo = {} /\ x.new # "Skipped"
                        /\ \A s \in Stages : x.view[s] # "Skipped"
  <1>h. h \in Handler /\ StageOf[h.unit] \in Stages /\ UnitJob(h.unit) \in Jobs /\ Fine(h)
    BY JobTypes DEF ReportsTypeOK, Handler, NoneSkipped
  <1>i. /\ Fine(Idle) /\ \A u : Fine(IdleHandler(u))
    BY DEF Idle, IdleHandler, NoView
  <1>b. \A x : Become(n, x) /\ Fine(x) => \A m \in Nodes : Fine(rep'[m])
    BY DEF ReportsTypeOK, Become, NoneSkipped
  <1>e. eng.todo = {} /\ \A s \in Stages : stage[s] # "Skipped"
    BY DEF NoneSkipped
  <1>n. ASSUME UNCHANGED <<stage, eng>>, \A m \in Nodes : Fine(rep'[m])
        PROVE  NoneSkipped'
    BY <1>n DEF NoneSkipped
  <1> HIDE DEF h
  <1>1. CASE RecvReport(n)
    <2> DEFINE r == Head(reports[n])
               snap == [units[r.unit] EXCEPT !.status = r.status]
               changed == units[r.unit].status # r.status
    <2>1. Become(n, Idle) \/ Become(n, [IdleHandler(r.unit) EXCEPT
                                          !.pc = "save", !.snap = snap, !.changed = changed])
      BY <1>1 DEF RecvReport
    <2> HIDE DEF r, snap, changed
    <2>2. Fine([IdleHandler(r.unit) EXCEPT !.pc = "save", !.snap = snap, !.changed = changed])
      BY DEF IdleHandler, NoView
    <2>3. \A m \in Nodes : Fine(rep'[m])
      BY <1>b, <1>i, <2>1, <2>2
    <2> QED
      BY <1>1, <1>n, <2>3 DEF RecvReport, storeVars, engineVars, JobsDone
  <1>2. CASE SaveReport(n)
    <2>1. Fine([h EXCEPT !.pc = "requeue"]) /\ Fine([IdleHandler(h.unit) EXCEPT !.pc = "job"])
      BY <1>h, <1>i DEF Handler, IdleHandler
    <2>2. \A m \in Nodes : Fine(rep'[m])
      BY <1>2, <1>b, <1>i, <2>1 DEF SaveReport, h
    <2> QED
      BY <1>2, <1>n, <2>2 DEF SaveReport, engineVars, JobsDone
  <1>3. CASE Requeue(n)
    <2>1. \A m \in Nodes : Fine(rep'[m])
      BY <1>3, <1>b, <1>i DEF Requeue
    <2> QED
      BY <1>3, <1>n, <2>1 DEF Requeue, SaveUnit, JobsDone
  <1>4. CASE ReadJob(n)
    <2>1. Fine([h EXCEPT !.pc = "list", !.view = stage])
      BY <1>h, <1>e DEF Handler
    <2>2. \A m \in Nodes : Fine(rep'[m])
      BY <1>4, <1>b, <1>i, <2>1 DEF ReadJob, h
    <2> QED
      BY <1>4, <1>n, <2>2 DEF ReadJob, storeVars, engineVars, JobsDone
  <1>5. CASE ListStage(n)
    <2> DEFINE verdict == StageVerdict(ListUnitsByStage(StageOf[h.unit]))
    <2>1. verdict # "Skipped"
      BY DEF StageVerdict
    <2>2. Become(n, [h EXCEPT !.pc = "stage", !.new = verdict])
      BY <1>5 DEF ListStage, h
    <2> HIDE DEF verdict
    <2>3. Fine([h EXCEPT !.pc = "stage", !.new = verdict])
      BY <1>h, <2>1 DEF Handler
    <2>4. \A m \in Nodes : Fine(rep'[m])
      BY <1>b, <2>2, <2>3
    <2> QED
      BY <1>5, <1>n, <2>4 DEF ListStage, storeVars, engineVars, JobsDone
  <1>6. CASE WriteStage(n)
    <2> DEFINE view == [h.view EXCEPT ![StageOf[h.unit]] = h.new]
    <2>1. \/ UpdateStageStatus(StageOf[h.unit], h.new)
          \/ UNCHANGED stage
      BY <1>6 DEF WriteStage, h
    <2>2. \/ Become(n, [h EXCEPT !.pc = "cascade", !.view = view, !.todo = {}])
          \/ Become(n, [h EXCEPT !.pc = "settle", !.view = view])
      BY <1>6, <1>h, NothingBelow DEF WriteStage, h
    <2>3. \A s \in Stages : view[s] # "Skipped"
      BY <1>h DEF Handler
    <2> HIDE DEF view
    <2>4. /\ Fine([h EXCEPT !.pc = "cascade", !.view = view, !.todo = {}])
          /\ Fine([h EXCEPT !.pc = "settle", !.view = view])
      BY <1>h, <2>3 DEF Handler
    <2>5. \A m \in Nodes : Fine(rep'[m])
      BY <1>b, <2>2, <2>4
    <2>6. \A s \in Stages : stage'[s] # "Skipped"
      BY <1>e, <1>h, <2>1 DEF UpdateStageStatus, StoreTypeOK
    <2> QED
      BY <1>6, <1>e, <2>5, <2>6 DEF WriteStage, engineVars, NoneSkipped, JobsDone
  <1>7. CASE CascadeStage(n)
    BY <1>7, <1>h DEF CascadeStage, h
  <1>8. CASE CascadeUnit(n)
    <2>1. PICK u \in h.victims : Become(n, [h EXCEPT !.victims = @ \ {u}])
      BY <1>8 DEF CascadeUnit, h
    <2>2. Fine([h EXCEPT !.victims = @ \ {u}])
      BY <1>h DEF Handler
    <2>3. \A m \in Nodes : Fine(rep'[m])
      BY <1>b, <2>1, <2>2
    <2> QED
      BY <1>8, <1>n, <2>3 DEF CascadeUnit, engineVars, JobsDone
  <1>9. CASE Reread(n)
    <2>1. Fine([h EXCEPT !.pc = "settle", !.view = stage])
      BY <1>h, <1>e DEF Handler
    <2>2. \A m \in Nodes : Fine(rep'[m])
      BY <1>9, <1>b, <2>1 DEF Reread, h
    <2> QED
      BY <1>9, <1>n, <2>2 DEF Reread, storeVars, engineVars, JobsDone
  <1>10. CASE Settle(n)
    <2>1. \A m \in Nodes : Fine(rep'[m])
      BY <1>10, <1>b, <1>i DEF Settle
    <2>2. NoneSkipped'
      BY <1>10, <1>n, <2>1 DEF Settle
    <2>3. ASSUME NEW j \in Jobs, job'[j] = "Completed"
          PROVE  \A s \in StagesOf(j) : AllDone(D, s)
      <3>1. CASE job[j] = "Completed"
        BY <3>1 DEF JobsDone
      <3>2. CASE job[j] # "Completed"
        <4>1. /\ j = UnitJob(h.unit)
              /\ \A s \in StagesOf(j) : h.view[s] \in StageFinal /\ h.view[s] # "Failed"
          BY <1>10, <1>h, <2>3, <3>2 DEF Settle, UpdateJobStatus, StoreTypeOK, h
        <4>2. ASSUME NEW s \in StagesOf(j) PROVE AllDone(D, s)
          <5>1. s \in Stages /\ h.view[s] \in StageFinal \ {"Failed", "Skipped"}
            BY <1>h, <4>1 DEF StagesOf
          <5>2. h.view[s] = "Completed"
            BY <5>1 DEF StageFinal
          <5> QED
            BY <5>1, <5>2 DEF ReportsSound, HandlerSound, ViewSound, h
        <4> QED
          BY <4>2
      <3> QED
        BY <3>1, <3>2
    <2> QED
      BY <2>2, <2>3 DEF JobsDone
  <1> QED
    BY <1>1, <1>2, <1>3, <1>4, <1>5, <1>6, <1>7, <1>8, <1>9, <1>10 DEF HandlerStep

LEMMA SettledStep ==
    ASSUME Independent, SettledInv, [Next]_vars
    PROVE  SettledInv'
  <1> DEFINE D == done
             Goal == NoneSkipped' /\ NoCancel' /\ JobsDone(D, job')
  <1>t. /\ StoreTypeOK /\ EngineTypeOK /\ ReportsTypeOK /\ ReportsSound(D)
        /\ NoneSkipped /\ NoCancel /\ JobsDone(D, job)
    BY DEF SettledInv, DagInv, TypeOK
  <1>b. budget \in [Kinds -> Nat] /\ "cancel" \in Kinds
    BY DEF SettledInv, DagInv, TypeOK, Kinds
  <1>s. \A kind \in Kinds \ {"cancel"} : Spend(kind) => budget'["cancel"] = 0
    BY <1>b, <1>t DEF Spend, NoCancel
  <1> HIDE DEF D
  <1>1. ASSUME EngineNext PROVE Goal
    <2>1. eng.todo = {} /\ eng \in Cycle /\ UNCHANGED <<rep, cancel, budget>>
      BY <1>1, <1>t DEF NoneSkipped, EngineTypeOK, EngineNext, reportVars, controlVars, Free
    <2>2. eng'.todo = {} /\ UNCHANGED <<job, stage>>
      <3>1. CASE WakeUp \/ Tick
        BY <3>1 DEF WakeUp, Tick, BeginCycle, IdleEngine, storeVars
      <3>2. CASE ReclaimUnit \/ ListPending \/ ListRetryable \/ SkipUnit \/ AssignUnit
        BY <3>2, <2>1 DEF ReclaimUnit, ListPending, ListRetryable, SkipUnit, AssignUnit, Cycle,
                          storeVars
      <3>3. CASE VisitJob
        <4>1. PICK j \in eng.left :
                \/ eng' = [eng EXCEPT !.left = @ \ {j}, !.todo = {},
                                      !.ready = ReadyUnits(j, eng.batch)]
                \/ eng' = [eng EXCEPT !.left = @ \ {j}]
          BY <3>3, NothingBelow DEF VisitJob
        <4> QED
          BY <3>3, <2>1, <4>1 DEF VisitJob, Cycle, storeVars
      <3>4. CASE SkipStage
        BY <3>4, <2>1 DEF SkipStage
      <3>5. CASE PickNode
        BY <3>5, <2>1 DEF PickNode, Cycle, storeVars
      <3>6. CASE EndCycle
        BY <3>6 DEF EndCycle, IdleEngine, storeVars
      <3> QED
        BY <1>1, <3>1, <3>2, <3>3, <3>4, <3>5, <3>6 DEF EngineNext, EngineStep
    <2> QED
      BY <1>t, <2>1, <2>2 DEF NoneSkipped, NoCancel, JobsDone
  <1>2. ASSUME PullNext PROVE Goal
    <2>1. budget'["cancel"] = 0
      BY <1>2, <1>s, <1>t DEF PullNext, Kinds, Free, NoCancel
    <2>2. UNCHANGED <<job, stage, eng, rep, cancel>>
      BY <1>2 DEF PullNext, PullList, PullStep, PullChoose, PullSave, storeVars, reportVars,
                  controlVars
    <2> QED
      BY <1>t, <2>1, <2>2 DEF NoneSkipped, NoCancel, JobsDone
  <1>3. ASSUME NEW n \in Nodes, HandlerNext(n) PROVE Goal
    BY <1>3, <1>t, HandlerSettles DEF HandlerNext, Free, controlVars, NoCancel
  <1>4. ASSUME ControlNext PROVE Goal
    <2>1. ~ \E j \in Jobs : CancelBegin(j) /\ Spend("cancel")
      BY <1>t DEF Spend, NoCancel
    <2>2. ~ CancelStep
      BY <1>t DEF NoCancel, CancelStep, CancelList, CancelUnit, CancelSave
    <2>3. budget'["cancel"] = 0
      BY <1>4, <1>s, <1>t, <2>1 DEF ControlNext, Kinds, Free, NoCancel
    <2>4. UNCHANGED <<eng, rep, cancel>>
      BY <1>4, <2>1, <2>2
      DEF ControlNext, SubmitUnit, SubmitJob, SubmitFails, UnregBegin, UnregStep, UnregUnit,
          UnregRemove, reportVars, engineVars
    <2>5. \/ UNCHANGED <<job, stage>>
          \/ \E j \in Jobs : SubmitJob(j)
      BY <1>4, <2>1, <2>2
      DEF ControlNext, SubmitUnit, SubmitFails, UnregBegin, UnregStep, UnregUnit, UnregRemove,
          storeVars
    <2>6. ASSUME NEW j \in Jobs, SubmitJob(j)
          PROVE  /\ \A s \in Stages : stage'[s] # "Skipped"
                 /\ JobsDone(D, job')
      <3>1. /\ job' = [job EXCEPT ![j] = "Pending"]
            /\ \A s \in Stages : stage'[s] = "Pending" \/ stage'[s] = stage[s]
        BY <2>6 DEF SubmitJob, SaveJob
      <3> QED
        BY <3>1, <1>t DEF NoneSkipped, JobsDone, StoreTypeOK
    <2> QED
      BY <1>t, <2>3, <2>4, <2>5, <2>6 DEF NoneSkipped, NoCancel, JobsDone
  <1>5. ASSUME AgentFault PROVE Goal
    <2>1. budget'["cancel"] = 0
      BY <1>5, <1>s DEF AgentFault, Kinds
    <2>2. UNCHANGED <<job, stage, eng, rep, cancel>>
      BY <1>5 DEF AgentFault, Refuse, LaunchFails, LoseCommands, LoseReports, AgentRestart,
                  storeVars, engineVars, reportVars, controlVars
    <2> QED
      BY <1>t, <2>1, <2>2 DEF NoneSkipped, NoCancel, JobsDone
  <1>6. ASSUME \/ \E n \in Nodes : HeartbeatNext(n)
               \/ \E n \in Nodes, u \in Units : ExecNext(n, u)
        PROVE  Goal
    <2>1. ASSUME NEW n \in Nodes, HeartbeatNext(n)
          PROVE  UNCHANGED <<job, stage, eng, rep, cancel, budget>>
      BY <2>1 DEF HeartbeatNext, Heartbeat, storeVars, reportVars, controlVars, Free
    <2>2. ASSUME NEW n \in Nodes, NEW u \in Units, ExecNext(n, u)
          PROVE  UNCHANGED <<job, stage, eng, rep, cancel, budget>>
      <3>1. UNCHANGED <<storeVars, engineVars, rep>>
        BY <2>2 DEF ExecNext, ExecStep, Launch, LaunchFails, CreateContainer, Exit,
                    CleanupContainer, reportVars
      <3> QED
        BY <2>2, <3>1 DEF ExecNext, storeVars, engineVars, controlVars, Free
    <2>3. UNCHANGED <<job, stage, eng, rep, cancel, budget>>
      BY <1>6, <2>1, <2>2
    <2> QED
      BY <1>t, <2>3 DEF NoneSkipped, NoCancel, JobsDone
  <1>7. ASSUME Flap \/ Delay PROVE Goal
    <2>1. budget'["cancel"] = 0
      BY <1>7, <1>s DEF Flap, Delay, Kinds
    <2>2. UNCHANGED <<job, stage, eng, rep, cancel>>
      BY <1>7 DEF Flap, Delay, DelayElapses, storeVars, engineVars, reportVars, controlVars
    <2> QED
      BY <1>t, <2>1, <2>2 DEF NoneSkipped, NoCancel, JobsDone
  <1>8. ASSUME Restart PROVE Goal
    <2>1. budget'["cancel"] = 0
      BY <1>8, <1>s DEF Restart, Kinds
    <2> QED
      BY <1>8, <1>t, <2>1 DEF Restart, NoneSkipped, NoCancel, JobsDone, IdleEngine, IdleCancel,
                              Idle, IdleHandler, NoView, storeVars
  <1>9. ASSUME UNCHANGED vars PROVE Goal
    BY <1>9, <1>t DEF vars, storeVars, engineVars, reportVars, controlVars, NoneSkipped,
                      NoCancel, JobsDone
  <1>10. Goal
    BY <1>1, <1>2, <1>3, <1>4, <1>5, <1>6, <1>7, <1>8, <1>9 DEF Next
  <1>11. DagInv' /\ D \subseteq done'
    <2>1. CASE Next
      BY <2>1, DagStep DEF Next, Record, SettledInv, D
    <2>2. CASE UNCHANGED vars
      BY <2>2, DagStep DEF vars, SettledInv, D
    <2> QED
      BY <2>1, <2>2
  <1>12. JobsDone(done', job')
    BY <1>10, <1>11, Monotonic DEF JobsDone
  <1> QED
    BY <1>10, <1>11, <1>12 DEF SettledInv

\* A job is reported Completed only if each of its units has been, whatever two handlers
\* and the engine do to the same records, whatever is lost, reclaimed or restarted: in
\* jobs whose stages do not depend on one another, none of which is cancelled.
THEOREM CompletedIsDone ==
    ASSUME Independent, Budget["cancel"] = 0
    PROVE  Spec => []CompletedJobIsDone
  <1>1. Init => SettledInv
    BY SettledInit
  <1>2. SettledInv /\ [Next]_vars => SettledInv'
    BY SettledStep
  <1>3. SettledInv => CompletedJobIsDone
    BY JobTypes DEF SettledInv, JobsDone, CompletedJobIsDone, StagesOf, AllDone, UnitJob
  <1> QED
    BY <1>1, <1>2, <1>3, PTL DEF Spec
=============================================================================
