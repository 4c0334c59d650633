--------------------------- MODULE ExecutionProofs ---------------------------
(***************************************************************************)
(* Without false alarms of the failure detector, unregistrations and pulls, *)
(* a unit is never at work twice, and no stale copy undoes a retry: through *)
(* crashes of the scheduler and of agents, lost commands and reports,       *)
(* launches that fail, cancellations, cascades and failed submissions.      *)
(***************************************************************************)
EXTENDS SchedulerProofs

USE StoreAssumption, FitsAssumption, OutcomesAssumption, BudgetAssumption

\* The failure detector does not err, nobody unregisters a node or pulls a unit, and the retry
\* delay does not elapse between the two saves of one failed report.
Reliable == Prompt /\ \A kind \in {"flap", "pull", "unregister"} : Budget[kind] = 0

-----------------------------------------------------------------------------
\* The inductive invariant.

\* What a node has to do with a unit: it executes it, a report of it is under way, or the
\* handler of the node's stream is about to save what it was told of it.
Reported(n, u) == \E i \in 1..Len(reports[n]) : reports[n][i].unit = u
Handling(n, u) == rep[n].pc \in {"save", "requeue"} /\ rep[n].unit = u
Busy(n, u) == Executions(n, u) > 0 \/ Reported(n, u) \/ Handling(n, u)

\* No more is to be heard of the unit from the node.
Over(n, u) == Executions(n, u) = 0 /\ ~Reported(n, u)

\* What Reliable leaves out does not happen.
Calm ==
    /\ \A n \in Nodes : node[n] = "Online" /\ pull[n].pc = "idle"
    /\ unreg.pc = "idle"
    /\ \A kind \in {"flap", "pull", "unregister"} : budget[kind] = 0

OneNode == \A u \in Units : \A m, n \in Nodes : Busy(m, u) /\ Busy(n, u) => m = n

Once == \A n \in Nodes, u \in Units : Executions(n, u) <= 1

\* A report of the end of an execution is the last of its unit.
EndsLast ==
    \A n \in Nodes, u \in Units : \A i \in 1..Len(reports[n]) :
       reports[n][i].unit = u /\ reports[n][i].status # "Running" =>
          /\ Executions(n, u) = 0
          /\ \A j \in (i + 1)..Len(reports[n]) : reports[n][j].unit # u

\* Nobody else writes the unit that a handler holds a copy of, a cancellation apart.
HandlersSound ==
    \A n \in Nodes, u \in Units :
       Handling(n, u) =>
          /\ rep[n].snap.retry = units[u].retry
          /\ rep[n].pc = "save" => rep[n].snap.status \in ReportStatus /\ rep[n].snap.node # NoNode
          /\ (rep[n].pc = "save" /\ rep[n].snap.status = "Running") \/ Over(n, u)

\* A unit that may be assigned is with nobody, unless it is about to be sent back to the queue,
\* which is before its retry delay has elapsed.
RecordsSound ==
    \A u \in Units :
       /\ units[u].status = "Absent" => units[u].retry = 0
       /\ units[u].status \in Active => units[u].node # NoNode
       /\ \A n \in Nodes : Busy(n, u) =>
             /\ units[u].status \notin {"Absent", "Pending"}
             /\ units[u].node # NoNode
             /\ units[u].status = "Failed" => /\ rep[n].pc = "requeue" /\ rep[n].unit = u
                                              /\ u \notin ripe

\* The cycle may still assign the unit.
Waiting(e, u) ==
    \/ u \in InBatch(e.batch) /\ (e.pc = "retry" \/ UnitJob(u) \in e.left)
    \/ u \in e.ready
    \/ \E p \in e.pick : p[1] = u

\* It assigns a unit once.
CycleOrder(e) ==
    /\ \A p \in e.stale : p[2] # NoNode
    /\ \A u \in e.ready : UnitJob(u) \notin e.left
    /\ \A p \in e.pick : p[1] \notin e.ready /\ UnitJob(p[1]) \notin e.left
    /\ e.pc \in {"idle", "reclaim", "retry"} => e.left = {} /\ e.ready = {} /\ e.pick = {}

WaitingSound ==
    \A u \in Units : Waiting(eng, u) => /\ \A n \in Nodes : ~Busy(n, u)
                                        /\ eng.batch[u].retry = units[u].retry

Sound == /\ OneNode /\ Once /\ EndsLast /\ HandlersSound /\ RecordsSound
         /\ CycleOrder(eng) /\ WaitingSound

ExecInv == TypeOK /\ Calm /\ Sound

-----------------------------------------------------------------------------
LEMMA ExecutionTypes ==
    ASSUME TypeOK
    PROVE  /\ \A n \in Nodes, u \in Units : Executions(n, u) \in Nat
           /\ \A n \in Nodes : /\ reports[n] \in Seq([unit : Units, status : ReportStatus])
                               /\ Len(reports[n]) \in Nat
                               /\ \A i \in 1..Len(reports[n]) :
                                     reports[n][i].unit \in Units /\ reports[n][i].status \in ReportStatus
  <1>1. ASSUME NEW n \in Nodes, NEW u \in Units PROVE Executions(n, u) \in Nat
    <2>1. /\ cmds[n][u] \in Nat /\ spawned[n][u] \in Nat /\ launching[n][u] \in Nat
      BY DEF TypeOK, EngineTypeOK, AgentTypeOK
    <2> QED
      BY <2>1 DEF Executions
  <1>2. ASSUME NEW n \in Nodes
        PROVE  /\ reports[n] \in Seq([unit : Units, status : ReportStatus])
               /\ Len(reports[n]) \in Nat
               /\ \A i \in 1..Len(reports[n]) :
                     reports[n][i].unit \in Units /\ reports[n][i].status \in ReportStatus
    <2>1. reports[n] \in Seq([unit : Units, status : ReportStatus])
      BY DEF TypeOK, ReportsTypeOK
    <2>2. \A i \in 1..Len(reports[n]) : reports[n][i] \in [unit : Units, status : ReportStatus]
      BY <2>1, ElementOfSeq
    <2> QED
      BY <2>1, <2>2, LenProperties
  <1> QED
    BY <1>1, <1>2

LEMMA NextExecutionTypes ==
    ASSUME TypeOK'
    PROVE  \A n \in Nodes, u \in Units : Executions(n, u)' \in Nat
  <1> SUFFICES ASSUME NEW n \in Nodes, NEW u \in Units PROVE Executions(n, u)' \in Nat
    OBVIOUS
  <1>1. /\ cmds'[n][u] \in Nat /\ spawned'[n][u] \in Nat /\ launching'[n][u] \in Nat
    BY DEF TypeOK, EngineTypeOK, AgentTypeOK
  <1> QED
    BY <1>1 DEF Executions

\* A step that starts no execution, takes up no report and writes nothing but cancellations.
LEMMA CalmStep ==
    ASSUME TypeOK, TypeOK', OneNode, Once, HandlersSound, RecordsSound,
           \A n \in Nodes, u \in Units :
              /\ Executions(n, u)' <= Executions(n, u)
              /\ Reported(n, u)' => Reported(n, u) \/ Executions(n, u) > 0
              /\ Handling(n, u)' => rep'[n] = rep[n],
           \A u \in Units :
              \/ units'[u] = units[u]
              \/ /\ units'[u].status = "Cancelled"
                 /\ units'[u].node = units[u].node /\ units'[u].retry = units[u].retry,
           ripe' \subseteq ripe
    PROVE  OneNode' /\ Once' /\ HandlersSound' /\ RecordsSound'
  <1>1. \A n \in Nodes, u \in Units : Executions(n, u) \in Nat /\ Executions(n, u)' \in Nat
    BY ExecutionTypes, NextExecutionTypes
  <1>2. \A n \in Nodes, u \in Units : Busy(n, u)' => Busy(n, u)
    BY <1>1 DEF Busy, Handling
  <1>3. OneNode'
    BY <1>2 DEF OneNode
  <1>4. Once'
    BY <1>1 DEF Once
  <1>5. \A n \in Nodes, u \in Units : Over(n, u) => Over(n, u)'
    BY <1>1 DEF Over
  <1>7. HandlersSound'
    <2> SUFFICES ASSUME NEW n \in Nodes, NEW u \in Units, Handling(n, u)'
                 PROVE  /\ rep'[n].snap.retry = units'[u].retry
                        /\ rep'[n].pc = "save" =>
                              rep'[n].snap.status \in ReportStatus /\ rep'[n].snap.node # NoNode
                        /\ (rep'[n].pc = "save" /\ rep'[n].snap.status = "Running") \/ Over(n, u)'
      BY DEF HandlersSound
    <2>1. rep'[n] = rep[n] /\ Handling(n, u)
      BY DEF Handling
    <2> QED
      BY <1>5, <2>1 DEF HandlersSound
  <1>8. RecordsSound'
    <2> SUFFICES ASSUME NEW u \in Units
                 PROVE  /\ units'[u].status = "Absent" => units'[u].retry = 0
                        /\ units'[u].status \in Active => units'[u].node # NoNode
                        /\ \A n \in Nodes : Busy(n, u)' =>
                             /\ units'[u].status \notin {"Absent", "Pending"}
                             /\ units'[u].node # NoNode
                             /\ units'[u].status = "Failed" => /\ rep'[n].pc = "requeue" /\ rep'[n].unit = u
                                                               /\ u \notin ripe'
      BY DEF RecordsSound
    <2>1. /\ units'[u].status = "Absent" => units'[u].retry = 0
          /\ units'[u].status \in Active => units'[u].node # NoNode
      BY DEF RecordsSound, Active
    <2>2. ASSUME NEW n \in Nodes, Busy(n, u)'
          PROVE  units'[u].status \notin {"Absent", "Pending"} /\ units'[u].node # NoNode
      BY <1>2, <2>2 DEF RecordsSound
    <2>3. ASSUME NEW n \in Nodes, Busy(n, u)', units'[u].status = "Failed"
          PROVE  rep'[n].pc = "requeue" /\ rep'[n].unit = u /\ u \notin ripe'
      <3>1. Busy(n, u) /\ units[u].status = "Failed"
        BY <1>2, <2>3
      <3>2. rep[n].pc = "requeue" /\ rep[n].unit = u /\ u \notin ripe
        BY <3>1 DEF RecordsSound
      <3>3. Over(n, u)'
        BY <1>5, <3>2 DEF HandlersSound, Handling
      <3>4. Handling(n, u)'
        BY <1>1, <2>3, <3>3 DEF Busy, Over
      <3> QED
        BY <3>2, <3>4
    <2> QED
      BY <2>1, <2>2, <2>3
  <1> QED
    BY <1>3, <1>4, <1>7, <1>8

\* The streams hold what they held, or less, and no execution has begun.
LEMMA FewerReports ==
    ASSUME TypeOK, TypeOK', EndsLast,
           \A n \in Nodes : /\ Len(reports'[n]) <= Len(reports[n])
                            /\ \A i \in 1..Len(reports'[n]) : reports'[n][i] = reports[n][i],
           \A n \in Nodes, u \in Units : Executions(n, u)' <= Executions(n, u)
    PROVE  EndsLast' /\ \A n \in Nodes, u \in Units : Reported(n, u)' => Reported(n, u)
  <1>1. \A n \in Nodes, u \in Units : Executions(n, u) \in Nat /\ Executions(n, u)' \in Nat
    BY ExecutionTypes, NextExecutionTypes
  <1>2. \A n \in Nodes : Len(reports[n]) \in Nat /\ Len(reports'[n]) \in Nat
    <2>1. \A n \in Nodes : reports'[n] \in Seq([unit : Units, status : ReportStatus])
      BY DEF TypeOK, ReportsTypeOK
    <2> QED
      BY <2>1, ExecutionTypes, LenProperties
  <1>3. \A n \in Nodes, u \in Units : Reported(n, u)' => Reported(n, u)
    BY <1>2 DEF Reported
  <1>4. ASSUME NEW n \in Nodes, NEW u \in Units, NEW i \in 1..Len(reports'[n]),
               reports'[n][i].unit = u, reports'[n][i].status # "Running"
        PROVE  /\ Executions(n, u)' = 0
               /\ \A j \in (i + 1)..Len(reports'[n]) : reports'[n][j].unit # u
    <2>1. i \in 1..Len(reports[n]) /\ reports'[n][i] = reports[n][i]
      BY <1>2, <1>4
    <2>2. /\ Executions(n, u) = 0
          /\ \A j \in (i + 1)..Len(reports[n]) : reports[n][j].unit # u
      BY <1>4, <2>1 DEF EndsLast
    <2>3. Executions(n, u)' = 0
      BY <1>1, <2>2
    <2>4. ASSUME NEW j \in (i + 1)..Len(reports'[n]) PROVE reports'[n][j].unit # u
      <3>1. j \in (i + 1)..Len(reports[n]) /\ j \in 1..Len(reports'[n])
        BY <1>2, <2>1
      <3> QED
        BY <2>2, <3>1
    <2> QED
      BY <2>3, <2>4
  <1> QED
    BY <1>3, <1>4 DEF EndsLast

\* One more report of a unit at work is sent; when it is of the end, the unit is no longer at work.
LEMMA OneMoreReport ==
    ASSUME TypeOK, TypeOK', EndsLast,
           NEW m \in Nodes, NEW v \in Units, NEW status \in ReportStatus, Report(m, v, status),
           Executions(m, v) > 0, status = "Running" \/ Executions(m, v)' = 0,
           \A n \in Nodes, u \in Units : Executions(n, u)' <= Executions(n, u)
    PROVE  /\ EndsLast'
           /\ \A n \in Nodes, u \in Units :
                 Reported(n, u)' => Reported(n, u) \/ Executions(n, u) > 0
  <1> DEFINE r == [unit |-> v, status |-> status]
  <1>1. \A n \in Nodes, u \in Units : Executions(n, u) \in Nat /\ Executions(n, u)' \in Nat
    BY ExecutionTypes, NextExecutionTypes
  <1>2. reports \in [Nodes -> Seq([unit : Units, status : ReportStatus])]
    BY DEF TypeOK, ReportsTypeOK
  <1>3. reports'[m] = Append(reports[m], r) /\ \A n \in Nodes \ {m} : reports'[n] = reports[n]
    BY <1>2 DEF Report
  <1>4. /\ Len(reports'[m]) = Len(reports[m]) + 1
        /\ reports'[m][Len(reports[m]) + 1] = r
        /\ \A i \in 1..Len(reports[m]) : reports'[m][i] = reports[m][i]
    BY <1>2, <1>3, AppendProperties
  <1>5. \A n \in Nodes : Len(reports[n]) \in Nat
    BY ExecutionTypes
  <1>6. r.unit = v /\ r.status = status
    OBVIOUS
  <1> HIDE DEF r
  <1>7. \A n \in Nodes, u \in Units : Reported(n, u)' => Reported(n, u) \/ Executions(n, u) > 0
    <2> SUFFICES ASSUME NEW n \in Nodes, NEW u \in Units, Reported(n, u)'
                 PROVE  Reported(n, u) \/ Executions(n, u) > 0
      OBVIOUS
    <2>1. PICK i \in 1..Len(reports'[n]) : reports'[n][i].unit = u
      BY DEF Reported
    <2>2. CASE n # m
      BY <1>3, <2>1, <2>2 DEF Reported
    <2>3. CASE n = m /\ i = Len(reports[m]) + 1
      BY <1>4, <1>6, <2>1, <2>3
    <2>4. CASE n = m /\ i # Len(reports[m]) + 1
      <3>1. i \in 1..Len(reports[m])
        BY <1>4, <1>5, <2>1, <2>4
      <3> QED
        BY <1>4, <2>1, <2>4, <3>1 DEF Reported
    <2> QED
      BY <2>2, <2>3, <2>4
  <1>8. ASSUME NEW n \in Nodes, NEW u \in Units, NEW i \in 1..Len(reports'[n]),
               reports'[n][i].unit = u, reports'[n][i].status # "Running"
        PROVE  /\ Executions(n, u)' = 0
               /\ \A j \in (i + 1)..Len(reports'[n]) : reports'[n][j].unit # u
    <2>1. CASE n # m
      <3>1. /\ Executions(n, u) = 0
            /\ \A j \in (i + 1)..Len(reports[n]) : reports[n][j].unit # u
        BY <1>3, <1>8, <2>1 DEF EndsLast
      <3>2. Executions(n, u)' = 0
        BY <1>1, <3>1
      <3>3. reports'[n] = reports[n]
        BY <1>3, <2>1
      <3> QED
        BY <3>1, <3>2, <3>3
    <2>2. CASE n = m /\ i = Len(reports[m]) + 1
      <3>1. u = v /\ Executions(m, v)' = 0
        BY <1>4, <1>6, <1>8, <2>2
      <3> QED
        BY <1>4, <1>5, <2>2, <3>1
    <2>3. CASE n = m /\ i # Len(reports[m]) + 1
      <3>1. i \in 1..Len(reports[m])
        BY <1>4, <1>5, <1>8, <2>3
      <3>2. /\ Executions(m, u) = 0
            /\ \A j \in (i + 1)..Len(reports[m]) : reports[m][j].unit # u
        BY <1>4, <1>8, <2>3, <3>1 DEF EndsLast
      <3>3. u # v
        BY <3>2
      <3>4. ASSUME NEW j \in (i + 1)..Len(reports'[m]) PROVE reports'[m][j].unit # u
        <4>1. j \in (i + 1)..Len(reports[m]) \/ j = Len(reports[m]) + 1
          BY <1>4, <1>5, <3>1
        <4>2. CASE j = Len(reports[m]) + 1
          BY <1>4, <1>6, <3>3, <4>2
        <4>3. CASE j \in (i + 1)..Len(reports[m])
          <5>1. j \in 1..Len(reports[m])
            BY <1>5, <3>1, <4>3
          <5> QED
            BY <1>4, <3>2, <4>3, <5>1
        <4> QED
          BY <4>1, <4>2, <4>3
      <3> QED
        BY <1>1, <2>3, <3>2, <3>4
    <2> QED
      BY <2>1, <2>2, <2>3
  <1> QED
    BY <1>7, <1>8 DEF EndsLast

\* A cancellation keeps the node and the count of the unit.
LEMMA WriteCancelled ==
    ASSUME StoreTypeOK, NEW v \in Units, UpdateUnitStatus(v, "Cancelled")
    PROVE  /\ \A u \in Units :
                \/ units'[u] = units[u]
                \/ /\ units'[u].status = "Cancelled"
                   /\ units'[u].node = units[u].node /\ units'[u].retry = units[u].retry
           /\ ripe' \subseteq ripe
  <1>1. units[v] \in Unit /\ units \in [Units -> Unit]
    BY DEF StoreTypeOK
  <1>2. units' = [units EXCEPT ![v] = [units[v] EXCEPT !.status = "Cancelled"]]
    BY DEF UpdateUnitStatus, SaveUnit
  <1>3. /\ [units[v] EXCEPT !.status = "Cancelled"].status = "Cancelled"
        /\ [units[v] EXCEPT !.status = "Cancelled"].node = units[v].node
        /\ [units[v] EXCEPT !.status = "Cancelled"].retry = units[v].retry
    BY <1>1 DEF Unit
  <1>4. ripe' \subseteq ripe
    BY DEF UpdateUnitStatus, SaveUnit
  <1> QED
    BY <1>1, <1>2, <1>3, <1>4

\* No retry is undone.
RetriesGrow == \A u \in Units : units'[u].retry >= units[u].retry

LEMMA RetriesKept ==
    ASSUME StoreTypeOK, \A u \in Units : units'[u].retry = units[u].retry
    PROVE  RetriesGrow
  <1>1. \A u \in Units : units[u].retry \in Nat
    BY DEF StoreTypeOK, Unit
  <1> QED
    BY <1>1 DEF RetriesGrow

-----------------------------------------------------------------------------
\* The engine's cycle.  All its steps but one leave the executions alone.
LEMMA CycleTypes ==
    ASSUME TypeOK
    PROVE  /\ StoreTypeOK /\ eng \in Cycle
           /\ eng.stale \subseteq Units \X (Nodes \cup {NoNode})
           /\ eng.batch \in [Units -> Unit] /\ eng.left \subseteq Jobs
           /\ eng.ready \subseteq Units /\ eng.victims \subseteq Units
           /\ eng.pick \subseteq Units \X Nodes
  BY DEF TypeOK, EngineTypeOK, Cycle

LEMMA IdleCycle ==
    /\ CycleOrder(IdleEngine)
    /\ \A u : ~Waiting(IdleEngine, u)
    /\ IdleEngine.left = {} /\ IdleEngine.ready = {} /\ IdleEngine.pick = {}
    /\ IdleEngine.batch = NoBatch /\ InBatch(NoBatch) = {} /\ IdleEngine.stale = {}
  <1>1. /\ IdleEngine.left = {} /\ IdleEngine.ready = {} /\ IdleEngine.pick = {}
        /\ IdleEngine.batch = NoBatch /\ IdleEngine.stale = {}
    BY DEF IdleEngine
  <1>2. InBatch(NoBatch) = {}
    BY DEF InBatch, NoBatch, Blank
  <1> QED
    BY <1>1, <1>2 DEF CycleOrder, Waiting

LEMMA CycleBegins ==
    ASSUME ExecInv, BeginCycle
    PROVE  CycleOrder(eng') /\ \A u \in Units : ~Waiting(eng', u)
  <1> DEFINE listed == {<<u, units[u].node>> : u \in ListUnitsByStatus(Active)}
  <1>1. eng' = [IdleEngine EXCEPT !.pc = "reclaim", !.stale = listed]
    BY DEF BeginCycle
  <1>2. \A p \in listed : p[2] # NoNode
    BY DEF ListUnitsByStatus, ExecInv, Sound, RecordsSound
  <1> HIDE DEF listed
  <1>3. /\ eng'.pc = "reclaim" /\ eng'.stale = listed /\ eng'.batch = NoBatch
        /\ eng'.left = {} /\ eng'.ready = {} /\ eng'.pick = {}
    BY <1>1 DEF IdleEngine
  <1> QED
    BY <1>2, <1>3, IdleCycle DEF CycleOrder, Waiting

\* The cycle e, about to be the cycle, may assign a unit that is with nobody and has been open.
WaitsRightly(e, u) ==
    /\ \A n \in Nodes : ~Busy(n, u)
    /\ e.batch[u].retry = units[u].retry
    /\ Waiting(eng, u) \/ units[u].status \in {"Pending", "Failed"}

\* What a step of the cycle makes of the cycle, the assignment apart.
LEMMA CycleStep ==
    ASSUME ExecInv,
           \/ ReclaimUnit \/ ListPending \/ ListRetryable \/ VisitJob \/ SkipStage
           \/ SkipUnit \/ PickNode \/ EndCycle \/ WakeUp \/ Tick
    PROVE  CycleOrder(eng') /\ \A u \in Units : Waiting(eng', u) => WaitsRightly(eng', u)
  <1>t. /\ StoreTypeOK /\ eng \in Cycle
        /\ eng.batch \in [Units -> Unit] /\ eng.left \subseteq Jobs
        /\ eng.ready \subseteq Units /\ eng.pick \subseteq Units \X Nodes
    BY CycleTypes DEF ExecInv, Sound
  <1>i. CycleOrder(eng) /\ WaitingSound /\ RecordsSound
    BY DEF ExecInv, Sound
  <1>1. CASE WakeUp \/ Tick
    BY <1>1, CycleBegins DEF WakeUp, Tick
  <1>2. CASE ReclaimUnit
    <2>1. PICK p \in eng.stale : eng' = [eng EXCEPT !.stale = @ \ {p}]
      BY <1>2 DEF ReclaimUnit
    <2>2. /\ eng'.pc = eng.pc /\ eng'.batch = eng.batch /\ eng'.left = eng.left
          /\ eng'.ready = eng.ready /\ eng'.pick = eng.pick /\ eng'.stale \subseteq eng.stale
      BY <1>t, <2>1 DEF Cycle
    <2> QED
      BY <1>i, <2>2 DEF CycleOrder, Waiting, WaitingSound, WaitsRightly
  <1>3. CASE ListPending
    <2> DEFINE listed == [u \in Units |-> IF units[u].status = "Pending" THEN units[u] ELSE Blank]
    <2>1. eng' = [eng EXCEPT !.pc = "retry", !.batch = listed] /\ eng.pc = "reclaim" /\ eng.stale = {}
      BY <1>3 DEF ListPending
    <2>2. \A u \in InBatch(listed) : units[u].status = "Pending" /\ listed[u] = units[u]
      BY DEF InBatch, Blank
    <2> HIDE DEF listed
    <2>3. /\ eng'.pc = "retry" /\ eng'.batch = listed /\ eng'.left = {} /\ eng'.ready = {}
          /\ eng'.pick = {} /\ eng'.stale = {}
      BY <1>t, <1>i, <2>1 DEF Cycle, CycleOrder
    <2> QED
      BY <1>i, <2>2, <2>3 DEF CycleOrder, Waiting, RecordsSound, WaitsRightly
  <1>4. CASE ListRetryable
    <2> DEFINE batch == [u \in Units |-> IF eng.batch[u].status = "Absent" /\ Retryable(u)
                                         THEN [units[u] EXCEPT !.status = "Pending", !.node = NoNode]
                                         ELSE eng.batch[u]]
               jobs == {UnitJob(u) : u \in InBatch(batch)}
    <2>1. eng' = [eng EXCEPT !.pc = "assign", !.batch = batch, !.left = jobs] /\ eng.pc = "retry"
      BY <1>4, Zenon DEF ListRetryable
    <2>2. \A u \in InBatch(batch) :
             \/ u \in InBatch(eng.batch) /\ batch[u] = eng.batch[u]
             \/ Retryable(u) /\ batch[u].retry = units[u].retry
      BY <1>t DEF InBatch, StoreTypeOK, Unit
    <2> HIDE DEF batch, jobs
    <2>3. /\ eng'.pc = "assign" /\ eng'.batch = batch /\ eng'.ready = {} /\ eng'.pick = {}
          /\ eng'.stale = eng.stale
      BY <1>t, <1>i, <2>1 DEF Cycle, CycleOrder
    <2>4. \A u \in Units : Retryable(u) =>
             units[u].status = "Failed" /\ \A n \in Nodes : ~Busy(n, u)
      BY <1>i DEF Retryable, RecordsSound
    <2> QED
      BY <1>i, <2>1, <2>2, <2>3, <2>4 DEF CycleOrder, Waiting, WaitingSound, WaitsRightly
  <1>5. CASE VisitJob
    <2>1. PICK j \in eng.left :
             \/ eng' = [eng EXCEPT !.left = @ \ {j}, !.todo = IF j \in Workflow THEN ToSkip(j) ELSE {},
                                   !.ready = ReadyUnits(j, eng.batch)]
             \/ eng' = [eng EXCEPT !.left = @ \ {j}]
      BY <1>5 DEF VisitJob
    <2>2. eng.pc = "assign" /\ eng.ready = {}
      BY <1>5 DEF VisitJob
    <2>3. /\ eng'.pc = "assign" /\ eng'.batch = eng.batch /\ eng'.left = eng.left \ {j}
          /\ eng'.pick = eng.pick /\ eng'.stale = eng.stale
          /\ eng'.ready = {} \/ eng'.ready = ReadyUnits(j, eng.batch)
      BY <1>t, <2>1, <2>2 DEF Cycle
    <2>4. \A u \in ReadyUnits(j, eng.batch) : u \in InBatch(eng.batch) /\ UnitJob(u) = j
      BY DEF ReadyUnits
    <2> QED
      BY <1>i, <2>2, <2>3, <2>4 DEF CycleOrder, Waiting, WaitingSound, WaitsRightly
  <1>6. CASE SkipStage \/ SkipUnit
    <2>1. /\ eng'.pc = eng.pc /\ eng'.batch = eng.batch /\ eng'.left = eng.left
          /\ eng'.ready = eng.ready /\ eng'.pick = eng.pick /\ eng'.stale = eng.stale
      BY <1>t, <1>6 DEF SkipStage, SkipUnit, Cycle
    <2> QED
      BY <1>i, <2>1 DEF CycleOrder, Waiting, WaitingSound, WaitsRightly
  <1>7. CASE PickNode
    <2>1. PICK u \in eng.ready :
             \/ \E n \in Nodes : eng' = [eng EXCEPT !.pc = "save", !.ready = eng.ready \ {u}, !.pick = {<<u, n>>}]
             \/ eng' = [eng EXCEPT !.ready = eng.ready \ {u}]
      BY <1>7 DEF PickNode, Candidates
    <2> DEFINE Picked == /\ eng'.batch = eng.batch /\ eng'.left = eng.left /\ eng'.ready = eng.ready \ {u}
                         /\ eng'.stale = eng.stale /\ eng.pc = "assign" /\ eng'.pc \in {"assign", "save"}
                         /\ eng'.pick = eng.pick \/ \E n \in Nodes : eng'.pick = {<<u, n>>}
    <2>a. eng.pc = "assign"
      BY <1>7 DEF PickNode
    <2>b. ASSUME \E n \in Nodes : eng' = [eng EXCEPT !.pc = "save", !.ready = eng.ready \ {u}, !.pick = {<<u, n>>}]
          PROVE  Picked
      <3>1. PICK n \in Nodes : eng' = [eng EXCEPT !.pc = "save", !.ready = eng.ready \ {u}, !.pick = {<<u, n>>}]
        BY <2>b
      <3>2. /\ eng'.batch = eng.batch /\ eng'.left = eng.left /\ eng'.ready = eng.ready \ {u}
            /\ eng'.stale = eng.stale /\ eng'.pc = "save"
        BY <1>t, <3>1 DEF Cycle
      <3>3. eng'.pick = {<<u, n>>}
        BY <1>t, <3>1 DEF Cycle
      <3> QED
        BY <2>a, <3>2, <3>3
    <2>c. ASSUME eng' = [eng EXCEPT !.ready = eng.ready \ {u}]
          PROVE  Picked
      BY <1>t, <2>a, <2>c DEF Cycle
    <2>2. Picked
      BY <2>1, <2>a, <2>b, <2>c
    <2>3. \A p \in eng'.pick : p \in eng.pick \/ p[1] = u
      BY <2>2
    <2> QED
      BY <1>i, <2>2, <2>3 DEF CycleOrder, Waiting, WaitingSound, WaitsRightly
  <1>8. CASE EndCycle
    BY <1>8, IdleCycle DEF EndCycle
  <1> QED
    BY <1>1, <1>2, <1>3, <1>4, <1>5, <1>6, <1>7, <1>8

-----------------------------------------------------------------------------
\* What a step does to a unit that is given out, counted or completed: nobody has it, nor had it
\* been completed.
Closed(u) ==
    /\ units[u].status \in {"Completed", "Cancelled"}
    /\ \A n \in Nodes : ~Busy(n, u)
    /\ ~Waiting(eng, u)

Untouched(u) == ~Closed(u) /\ \A n \in Nodes : Executions(n, u) = 0

SameCounts(S) == \A u \in S : units'[u].retry = units[u].retry
NoneCompletes(S) == \A u \in S : units'[u].status = "Completed" => units[u].status = "Completed"
SameExecutions == \A n \in Nodes, u \in Units : Executions(n, u)' = Executions(n, u)

PutDown ==
    /\ \A n \in Nodes, u \in Units : Executions(n, u)' <= Executions(n, u)
    /\ SameCounts(Units) /\ NoneCompletes(Units)

GivenOut(v, m) ==
    /\ Untouched(v)
    /\ Executions(m, v)' > 0
    /\ \A n \in Nodes, u \in Units : <<n, u>> # <<m, v>> => Executions(n, u)' = Executions(n, u)
    /\ SameCounts(Units) /\ NoneCompletes(Units)

Counted(v) ==
    /\ Untouched(v)
    /\ units'[v].retry = units[v].retry + 1
    /\ \E n \in Nodes : rep[n].pc = "requeue" /\ rep[n].snap.retry = units[v].retry
    /\ SameExecutions /\ SameCounts(Units \ {v}) /\ NoneCompletes(Units)

Finished(v) ==
    /\ units'[v].status = "Completed" => Untouched(v)
    /\ SameExecutions /\ SameCounts(Units) /\ NoneCompletes(Units \ {v})

Moved ==
    \/ PutDown
    \/ \E v \in Units, m \in Nodes : GivenOut(v, m)
    \/ \E v \in Units : Counted(v) \/ Finished(v)

\* A completed unit stays with nobody.
EndsKept ==
    \A u \in Units :
       /\ Closed(u) => Closed(u)'
       /\ units'[u].status = "Completed" => units[u].status = "Completed" \/ Closed(u)'

\* What a step has to keep, the types and Calm apart.
Kept == Sound' /\ RetriesGrow /\ Moved /\ EndsKept

\* Most steps start no execution, take up no report, write nothing but cancellations and give
\* the cycle no unit to assign that is busy.
LEMMA QuietStep ==
    ASSUME ExecInv, TypeOK', EndsLast', CycleOrder(eng'), ripe' \subseteq ripe,
           \A n \in Nodes, u \in Units :
              /\ Executions(n, u)' <= Executions(n, u)
              /\ Reported(n, u)' => Reported(n, u) \/ Executions(n, u) > 0
              /\ Handling(n, u)' => rep'[n] = rep[n],
           \A u \in Units :
              \/ units'[u] = units[u]
              \/ /\ units'[u].status = "Cancelled"
                 /\ units'[u].node = units[u].node /\ units'[u].retry = units[u].retry,
           \A u \in Units : Waiting(eng', u) => WaitsRightly(eng', u)
    PROVE  Kept
  <1>1. OneNode' /\ Once' /\ HandlersSound' /\ RecordsSound'
    BY CalmStep DEF ExecInv, Sound
  <1>2. \A n \in Nodes, u \in Units : Executions(n, u) \in Nat /\ Executions(n, u)' \in Nat
    BY ExecutionTypes, NextExecutionTypes DEF ExecInv
  <1>3. \A n \in Nodes, u \in Units : Busy(n, u)' => Busy(n, u)
    BY <1>2 DEF Busy, Handling
  <1>4. \A u \in Units : units'[u].retry = units[u].retry
    OBVIOUS
  <1>5. WaitingSound'
    BY <1>3, <1>4 DEF WaitingSound, WaitsRightly
  <1>6. RetriesGrow
    BY <1>4, RetriesKept DEF ExecInv, TypeOK
  <1>7. Moved
    <2>1. NoneCompletes(Units)
      BY DEF NoneCompletes
    <2> QED
      BY <1>4, <2>1 DEF Moved, PutDown, SameCounts
  <1>8. EndsKept
    <2> SUFFICES ASSUME NEW u \in Units
                 PROVE  /\ Closed(u) => Closed(u)'
                        /\ units'[u].status = "Completed" =>
                              units[u].status = "Completed" \/ Closed(u)'
      BY DEF EndsKept
    <2>1. units'[u].status = units[u].status \/ units'[u].status = "Cancelled"
      OBVIOUS
    <2>2. ASSUME Closed(u) PROVE Closed(u)'
      <3>1. ~Waiting(eng', u)
        BY <2>2 DEF Closed, WaitsRightly
      <3>2. units'[u].status \in {"Completed", "Cancelled"}
        BY <2>1, <2>2 DEF Closed
      <3> QED
        BY <1>3, <2>2, <3>1, <3>2 DEF Closed
    <2> QED
      BY <2>1, <2>2
  <1> QED
    BY <1>1, <1>5, <1>6, <1>7, <1>8 DEF Kept, Sound

\* The cycle as it is gives the last hypotheses.
LEMMA SameCycle ==
    ASSUME ExecInv, eng' = eng
    PROVE  /\ CycleOrder(eng')
           /\ \A u \in Units : Waiting(eng', u) => WaitsRightly(eng', u)
  BY DEF ExecInv, Sound, WaitingSound, WaitsRightly

LEMMA NoExecutionBegun ==
    ASSUME TypeOK, UNCHANGED <<cmds, agentVars>>
    PROVE  \A n \in Nodes, u \in Units : Executions(n, u)' <= Executions(n, u)
  <1>1. \A n \in Nodes, u \in Units : Executions(n, u)' = Executions(n, u)
    BY DEF Executions, agentVars
  <1> QED
    BY <1>1, ExecutionTypes

\* A step of anyone that leaves the executions, the streams and the cycle alone.
LEMMA RecordsOnly ==
    ASSUME ExecInv, TypeOK', UNCHANGED <<cmds, agentVars, reports>>,
           \A n \in Nodes, u \in Units : Handling(n, u)' => rep'[n] = rep[n],
           UNCHANGED <<units, ripe>> \/ \E u \in Units : UpdateUnitStatus(u, "Cancelled"),
           \/ eng' = eng
           \/ ReclaimUnit \/ ListPending \/ ListRetryable \/ VisitJob \/ SkipStage
              \/ SkipUnit \/ PickNode \/ EndCycle \/ WakeUp \/ Tick
    PROVE  Kept
  <1>1. /\ \A u \in Units :
              \/ units'[u] = units[u]
              \/ /\ units'[u].status = "Cancelled"
                 /\ units'[u].node = units[u].node /\ units'[u].retry = units[u].retry
        /\ ripe' \subseteq ripe
    BY WriteCancelled DEF ExecInv, TypeOK
  <1>2. \A n \in Nodes, u \in Units : Executions(n, u)' <= Executions(n, u)
    BY NoExecutionBegun DEF ExecInv
  <1>3. EndsLast' /\ \A n \in Nodes, u \in Units : Reported(n, u)' => Reported(n, u)
    <2>1. \A n \in Nodes : /\ Len(reports'[n]) <= Len(reports[n])
                           /\ \A i \in 1..Len(reports'[n]) : reports'[n][i] = reports[n][i]
      BY ExecutionTypes DEF ExecInv
    <2> QED
      BY <1>2, <2>1, FewerReports DEF ExecInv, Sound
  <1>4. /\ CycleOrder(eng')
        /\ \A u \in Units : Waiting(eng', u) => WaitsRightly(eng', u)
    BY SameCycle, CycleStep
  <1> QED
    BY <1>1, <1>2, <1>3, <1>4, QuietStep

-----------------------------------------------------------------------------
\* The engine.
LEMMA EngineKeeps ==
    ASSUME ExecInv, TypeOK', EngineNext
    PROVE  Kept
  <1>t. TypeOK /\ StoreTypeOK /\ eng \in Cycle
    BY DEF ExecInv, TypeOK, EngineTypeOK
  <1>u. UNCHANGED <<reportVars, agentVars>>
    BY DEF EngineNext
  <1>h. \A n \in Nodes, u \in Units : Handling(n, u)' => rep'[n] = rep[n]
    BY <1>u DEF reportVars
  <1>1. CASE ReclaimUnit
    <2>1. PICK p \in eng.stale : IF Gone(p[2]) THEN UpdateUnitStatus(p[1], "Failed")
                                             ELSE UNCHANGED <<units, ripe>>
      BY <1>1 DEF ReclaimUnit
    <2>2. p \in Units \X (Nodes \cup {NoNode}) /\ p[2] # NoNode
      BY <1>t, CycleTypes DEF ExecInv, Sound, CycleOrder
    <2>3. ~Gone(p[2])
      BY <2>2 DEF Gone, ExecInv, Calm
    <2>4. UNCHANGED <<units, ripe>>
      BY <2>1, <2>3
    <2>5. UNCHANGED cmds
      BY <1>1 DEF ReclaimUnit
    <2> QED
      BY <1>1, <1>u, <1>h, <2>4, <2>5, RecordsOnly DEF reportVars
  <1>2. CASE ListPending \/ ListRetryable \/ VisitJob \/ PickNode \/ EndCycle \/ WakeUp \/ Tick
    <2>1. UNCHANGED <<units, ripe, cmds>>
      BY <1>2 DEF ListPending, ListRetryable, VisitJob, PickNode, EndCycle, WakeUp, Tick, storeVars
    <2> QED
      BY <1>2, <1>u, <1>h, <2>1, RecordsOnly DEF reportVars
  <1>3. CASE SkipStage
    <2>1. UNCHANGED <<units, ripe, cmds>>
      BY <1>3 DEF SkipStage
    <2> QED
      BY <1>3, <1>u, <1>h, <2>1, RecordsOnly DEF reportVars
  <1>4. CASE SkipUnit
    <2>1. PICK u \in eng.victims : UpdateUnitStatus(u, "Cancelled")
      BY <1>4 DEF SkipUnit
    <2>2. u \in Units /\ UNCHANGED cmds
      BY <1>4, <1>t, CycleTypes DEF SkipUnit
    <2> QED
      BY <1>4, <1>u, <1>h, <2>1, <2>2, RecordsOnly DEF reportVars
  <1>5. CASE AssignUnit
    <2>1. PICK v \in Units, m \in Nodes :
             /\ <<v, m>> \in eng.pick
             /\ SaveUnit(v, [eng.batch[v] EXCEPT !.status = "Assigned", !.node = m])
             /\ PushCommand(m, v)
      <3>1. PICK p \in eng.pick :
               /\ SaveUnit(p[1], [eng.batch[p[1]] EXCEPT !.status = "Assigned", !.node = p[2]])
               /\ PushCommand(p[2], p[1])
        BY <1>5 DEF AssignUnit
      <3>2. p[1] \in Units /\ p[2] \in Nodes /\ p = <<p[1], p[2]>>
        BY <1>t, CycleTypes
      <3> QED
        BY <3>1, <3>2
    <2>2. m # NoNode /\ <<v, m>>[1] = v /\ <<v, m>> \in eng.pick
      BY <2>1
    <2>3. SaveUnit(v, [eng.batch[v] EXCEPT !.status = "Assigned", !.node = m]) /\ PushCommand(m, v)
      BY <2>1
    <2>4. v \notin eng.ready /\ UnitJob(v) \notin eng.left /\ eng.pc = "save"
      BY <1>5, <2>2 DEF ExecInv, Sound, CycleOrder, AssignUnit
    <2>5. Waiting(eng, v)
      BY <2>2 DEF Waiting
    <2>6. /\ \A n \in Nodes : ~Busy(n, v)
          /\ eng.batch[v].retry = units[v].retry /\ eng.batch[v] \in Unit
      BY <1>t, <2>2, <2>5, CycleTypes DEF ExecInv, Sound, WaitingSound
    <2>7. /\ units'[v].status = "Assigned" /\ units'[v].node = m /\ units'[v].retry = units[v].retry
          /\ \A u \in Units \ {v} : units'[u] = units[u]
          /\ ripe' \subseteq ripe
      BY <1>t, <2>2, <2>3, <2>6 DEF SaveUnit, StoreTypeOK, Unit
    <2>8. /\ Executions(m, v)' = Executions(m, v) + 1
          /\ \A n \in Nodes, u \in Units : <<n, u>> # <<m, v>> => Executions(n, u)' = Executions(n, u)
      <3>1. cmds \in [Nodes -> [Units -> Nat]] /\ spawned[m][v] \in Nat /\ launching[m][v] \in Nat
        BY <1>t, <2>2 DEF TypeOK, EngineTypeOK, AgentTypeOK
      <3>2. /\ cmds'[m][v] = cmds[m][v] + 1
            /\ \A n \in Nodes, u \in Units : <<n, u>> # <<m, v>> => cmds'[n][u] = cmds[n][u]
        BY <2>2, <2>3, <3>1 DEF PushCommand
      <3>3. UNCHANGED agentVars
        BY <1>u
      <3>4. cmds[m][v] \in Nat
        BY <2>2, <3>1
      <3>5. Executions(m, v)' = Executions(m, v) + 1
        <4>1. PICK a \in Nat, b \in Nat, c \in Nat, d \in Nat :
                 /\ a = cmds[m][v] /\ b = spawned[m][v] /\ c = launching[m][v]
                 /\ d = IF box[m][v] \in {"running", "orphan"} THEN 1 ELSE 0
          BY <3>1, <3>4
        <4>2. Executions(m, v) = a + b + c + d
          BY <4>1 DEF Executions
        <4>3. Executions(m, v)' = (a + 1) + b + c + d
          BY <3>2, <3>3, <4>1 DEF Executions, agentVars
        <4> QED
          BY <4>2, <4>3
      <3>6. ASSUME NEW n \in Nodes, NEW u \in Units, <<n, u>> # <<m, v>>
            PROVE  Executions(n, u)' = Executions(n, u)
        <4>1. cmds'[n][u] = cmds[n][u]
          BY <3>2, <3>6
        <4> QED
          BY <3>3, <4>1 DEF Executions, agentVars
      <3> QED
        BY <3>5, <3>6
    <2>9. \A n \in Nodes, u \in Units : (Reported(n, u)' <=> Reported(n, u)) /\ (Handling(n, u)' <=> Handling(n, u))
      BY <1>u DEF Reported, Handling, reportVars
    <2>10. \A n \in Nodes, u \in Units : Executions(n, u) \in Nat
      BY <1>t, ExecutionTypes
    <2>11. Executions(m, v) = 0 /\ \A n \in Nodes : ~Reported(n, v) /\ ~Handling(n, v)
      BY <2>2, <2>6, <2>10 DEF Busy
    <2>12. /\ \A n \in Nodes, u \in Units : <<n, u>> # <<m, v>> => (Busy(n, u)' <=> Busy(n, u))
           /\ \A n \in Nodes : Busy(n, v)' => n = m
      <3>1. ASSUME NEW n \in Nodes, NEW u \in Units, <<n, u>> # <<m, v>>
            PROVE  Busy(n, u)' <=> Busy(n, u)
        <4>1. Executions(n, u)' = Executions(n, u)
          BY <2>8, <3>1
        <4> QED
          BY <2>9, <4>1 DEF Busy
      <3> QED
        BY <2>2, <2>6, <3>1
    <2>13. OneNode'
      BY <2>12 DEF OneNode, ExecInv, Sound
    <2>14. Once'
      BY <2>8, <2>11 DEF Once, ExecInv, Sound
    <2>15. EndsLast'
      <3>1. reports' = reports
        BY <1>u DEF reportVars
      <3>2. \A n \in Nodes : \A i \in 1..Len(reports[n]) : reports[n][i].unit # v
        BY <2>11 DEF Reported
      <3> QED
        BY <2>8, <3>1, <3>2 DEF EndsLast, ExecInv, Sound
    <2>16. HandlersSound'
      <3> SUFFICES ASSUME NEW n \in Nodes, NEW u \in Units, Handling(n, u)'
                   PROVE  /\ rep'[n].snap.retry = units'[u].retry
                          /\ rep'[n].pc = "save" =>
                                rep'[n].snap.status \in ReportStatus /\ rep'[n].snap.node # NoNode
                          /\ (rep'[n].pc = "save" /\ rep'[n].snap.status = "Running") \/ Over(n, u)'
        BY DEF HandlersSound
      <3>1. Handling(n, u) /\ u # v /\ rep'[n] = rep[n]
        BY <1>u, <2>9, <2>11 DEF reportVars
      <3>2. Over(n, u)' <=> Over(n, u)
        BY <2>8, <2>9, <3>1 DEF Over
      <3> QED
        BY <2>7, <3>1, <3>2 DEF HandlersSound, ExecInv, Sound
    <2>17. RecordsSound'
      <3> SUFFICES ASSUME NEW u \in Units
                   PROVE  /\ units'[u].status = "Absent" => units'[u].retry = 0
                          /\ units'[u].status \in Active => units'[u].node # NoNode
                          /\ \A n \in Nodes : Busy(n, u)' =>
                               /\ units'[u].status \notin {"Absent", "Pending"}
                               /\ units'[u].node # NoNode
                               /\ units'[u].status = "Failed" => /\ rep'[n].pc = "requeue" /\ rep'[n].unit = u
                                                                 /\ u \notin ripe'
        BY DEF RecordsSound
      <3>1. CASE u = v
        BY <2>2, <2>7, <3>1
      <3>2. CASE u # v
        <4>1. units'[u] = units[u] /\ rep' = rep
          BY <1>u, <2>7, <3>2 DEF reportVars
        <4>2. \A n \in Nodes : Busy(n, u)' <=> Busy(n, u)
          BY <2>12, <3>2
        <4> QED
          BY <2>7, <4>1, <4>2 DEF RecordsSound, ExecInv, Sound
      <3> QED
        BY <3>1, <3>2
    <2>18. eng' = [eng EXCEPT !.pc = "assign", !.pick = {}]
      BY <1>5 DEF AssignUnit
    <2>19. /\ eng'.pc = "assign" /\ eng'.pick = {} /\ eng'.batch = eng.batch /\ eng'.left = eng.left
           /\ eng'.ready = eng.ready /\ eng'.stale = eng.stale
      BY <1>t, <2>18 DEF Cycle
    <2>20. CycleOrder(eng')
      BY <2>19 DEF CycleOrder, ExecInv, Sound
    <2>21. \A u \in Units : Waiting(eng', u) => Waiting(eng, u) /\ u # v
      BY <2>4, <2>19 DEF Waiting
    <2>22. WaitingSound'
      <3> SUFFICES ASSUME NEW u \in Units, Waiting(eng', u)
                   PROVE  (\A n \in Nodes : ~Busy(n, u)') /\ eng'.batch[u].retry = units'[u].retry
        BY DEF WaitingSound
      <3>1. Waiting(eng, u) /\ u # v
        BY <2>21
      <3> QED
        BY <2>7, <2>12, <2>19, <3>1 DEF WaitingSound, ExecInv, Sound
    <2>23. RetriesGrow
      <3>1. \A u \in Units : units'[u].retry = units[u].retry
        BY <2>7
      <3> QED
        BY <1>t, <3>1, RetriesKept
    <2>24. Untouched(v)
      BY <2>5, <2>6, <2>10 DEF Untouched, Closed, Busy
    <2>25. Moved
      <3>1. SameCounts(Units) /\ NoneCompletes(Units)
        BY <2>7 DEF SameCounts, NoneCompletes
      <3>2. Executions(m, v)' > 0
        BY <2>8, <2>11
      <3>3. GivenOut(v, m)
        BY <2>8, <2>24, <3>1, <3>2 DEF GivenOut
      <3> QED
        BY <2>2, <3>3 DEF Moved
    <2>26. EndsKept
      <3> SUFFICES ASSUME NEW u \in Units
                   PROVE  /\ Closed(u) => Closed(u)'
                          /\ units'[u].status = "Completed" => units[u].status = "Completed"
        BY DEF EndsKept
      <3>1. CASE u = v
        BY <2>7, <2>24, <3>1 DEF Untouched
      <3>2. CASE u # v
        <4>1. units'[u] = units[u] /\ \A n \in Nodes : Busy(n, u)' <=> Busy(n, u)
          BY <2>7, <2>12, <3>2
        <4>2. Waiting(eng', u) => Waiting(eng, u)
          BY <2>21
        <4> QED
          BY <4>1, <4>2 DEF Closed
      <3> QED
        BY <3>1, <3>2
    <2> QED
      BY <2>13, <2>14, <2>15, <2>16, <2>17, <2>20, <2>22, <2>23, <2>25, <2>26 DEF Kept, Sound
  <1> QED
    BY <1>1, <1>2, <1>3, <1>4, <1>5 DEF EngineNext, EngineStep

-----------------------------------------------------------------------------
\* The handlers of reports, and SubmitJob.

\* What the writer of a unit sees to: nobody else writes it, and afterwards it is either with
\* nobody, or with the node that reported it, or about to be sent back to the queue.
RightToWrite(v, rec) ==
    /\ ~Waiting(eng, v) \/ rec.retry = units[v].retry
    /\ \A n \in Nodes, u \in Units :
          Handling(n, u)' => Handling(n, u) /\ (u # v => rep'[n] = rep[n])
    /\ \A n \in Nodes : Handling(n, v)' => /\ rep'[n].pc = "requeue" /\ rep'[n].unit = v
                                           /\ rep'[n].snap.retry = rec.retry
                                           /\ Over(n, v)
    /\ rec.status = "Absent" => rec.retry = 0
    /\ rec.status \in Active => rec.node # NoNode
    /\ \A n \in Nodes : Busy(n, v)' => /\ rec.status \notin {"Absent", "Pending", "Completed"}
                                       /\ rec.node # NoNode
                                       /\ rec.status = "Failed" => Handling(n, v)'
    /\ ~Closed(v)
    /\ rec.status = "Completed" => ~Waiting(eng, v)

\* It writes the count it has read, or one more when it sends the unit back to the queue.
RightCount(v, rec) ==
    \/ rec.retry = units[v].retry
    \/ /\ rec.retry = units[v].retry + 1 /\ rec.status # "Completed"
       /\ \E n \in Nodes : rep[n].pc = "requeue" /\ rep[n].snap.retry = units[v].retry
       /\ \A n \in Nodes : Executions(n, v) = 0

LEMMA OwnWrite ==
    ASSUME ExecInv, TypeOK', UNCHANGED <<cmds, agentVars, reports, eng>>,
           NEW v \in Units, NEW rec \in Unit, SaveUnit(v, rec),
           RightCount(v, rec), RightToWrite(v, rec)
    PROVE  Kept
  <1>1. /\ TypeOK /\ StoreTypeOK /\ OneNode /\ Once /\ EndsLast /\ HandlersSound /\ RecordsSound
        /\ CycleOrder(eng) /\ WaitingSound
    BY DEF ExecInv, Sound, TypeOK
  <1>2. /\ units'[v] = rec /\ ripe' = ripe \ {v}
        /\ \A u \in Units \ {v} : units'[u] = units[u]
    BY <1>1 DEF SaveUnit, StoreTypeOK
  <1>3. \A n \in Nodes, u \in Units :
           (Executions(n, u)' = Executions(n, u)) /\ (Reported(n, u)' <=> Reported(n, u))
    BY DEF Executions, Reported, agentVars
  <1>4. \A n \in Nodes, u \in Units :
           (Busy(n, u)' => Busy(n, u)) /\ (Over(n, u)' <=> Over(n, u))
    BY <1>3 DEF Busy, Over, RightToWrite
  <1>5. OneNode'
    BY <1>1, <1>4 DEF OneNode
  <1>6. Once'
    BY <1>1, <1>3 DEF Once
  <1>7. EndsLast'
    BY <1>1, <1>3 DEF EndsLast
  <1>8. HandlersSound'
    <2> SUFFICES ASSUME NEW n \in Nodes, NEW u \in Units, Handling(n, u)'
                 PROVE  /\ rep'[n].snap.retry = units'[u].retry
                        /\ rep'[n].pc = "save" =>
                              rep'[n].snap.status \in ReportStatus /\ rep'[n].snap.node # NoNode
                        /\ (rep'[n].pc = "save" /\ rep'[n].snap.status = "Running") \/ Over(n, u)'
      BY DEF HandlersSound
    <2>1. CASE u = v
      BY <1>2, <1>4, <2>1 DEF RightToWrite
    <2>2. CASE u # v
      <3>1. rep'[n] = rep[n] /\ Handling(n, u) /\ units'[u] = units[u]
        BY <1>2, <2>2 DEF RightToWrite
      <3> QED
        BY <1>1, <1>4, <3>1 DEF HandlersSound
    <2> QED
      BY <2>1, <2>2
  <1>9. RecordsSound'
    <2> SUFFICES ASSUME NEW u \in Units
                 PROVE  /\ units'[u].status = "Absent" => units'[u].retry = 0
                        /\ units'[u].status \in Active => units'[u].node # NoNode
                        /\ \A n \in Nodes : Busy(n, u)' =>
                             /\ units'[u].status \notin {"Absent", "Pending"}
                             /\ units'[u].node # NoNode
                             /\ units'[u].status = "Failed" => /\ rep'[n].pc = "requeue" /\ rep'[n].unit = u
                                                               /\ u \notin ripe'
      BY DEF RecordsSound
    <2>1. CASE u = v
      BY <1>2, <2>1 DEF RightToWrite, Handling
    <2>2. CASE u # v
      <3>1. units'[u] = units[u] /\ (u \in ripe' <=> u \in ripe)
        BY <1>2, <2>2
      <3>2. ASSUME NEW n \in Nodes, Busy(n, u)', units'[u].status = "Failed"
            PROVE  rep'[n].pc = "requeue" /\ rep'[n].unit = u /\ u \notin ripe'
        <4>1. rep[n].pc = "requeue" /\ rep[n].unit = u /\ u \notin ripe
          BY <1>1, <1>4, <3>1, <3>2 DEF RecordsSound
        <4>2. Over(n, u)'
          BY <1>1, <1>4, <4>1 DEF HandlersSound, Handling
        <4>3. Handling(n, u)'
          <5>1. Executions(n, u)' \in Nat
            BY NextExecutionTypes
          <5> QED
            BY <3>2, <4>2, <5>1 DEF Busy, Over
        <4> QED
          BY <2>2, <3>1, <4>1, <4>3 DEF RightToWrite
      <3> QED
        BY <1>1, <1>4, <3>1, <3>2 DEF RecordsSound
    <2> QED
      BY <2>1, <2>2
  <1>10. CycleOrder(eng')
    BY <1>1
  <1>11. WaitingSound'
    <2> SUFFICES ASSUME NEW u \in Units, Waiting(eng, u)
                 PROVE  (\A n \in Nodes : ~Busy(n, u)') /\ eng.batch[u].retry = units'[u].retry
      BY DEF WaitingSound
    <2> QED
      BY <1>1, <1>2, <1>4 DEF WaitingSound, RightToWrite
  <1>12. RetriesGrow
    <2>1. \A u \in Units : units[u].retry \in Nat
      BY <1>1 DEF StoreTypeOK, Unit
    <2>2. rec.retry >= units[v].retry
      BY <2>1 DEF RightCount
    <2> QED
      BY <1>2, <2>1, <2>2 DEF RetriesGrow
  <1>13. Moved
    <2>1. SameExecutions /\ NoneCompletes(Units \ {v})
      BY <1>2, <1>3 DEF SameExecutions, NoneCompletes
    <2>2. CASE rec.retry = units[v].retry
      <3>1. SameCounts(Units)
        BY <1>2, <2>2 DEF SameCounts
      <3>2. ASSUME rec.status = "Completed" PROVE Untouched(v)
        <4>1. \A n \in Nodes : ~Busy(n, v)'
          BY <3>2 DEF RightToWrite
        <4>2. \A n \in Nodes : Executions(n, v)' = 0
          <5>1. \A n \in Nodes : Executions(n, v)' \in Nat
            BY NextExecutionTypes
          <5> QED
            BY <4>1, <5>1 DEF Busy
        <4> QED
          BY <1>3, <4>2 DEF Untouched, RightToWrite
      <3>3. Finished(v)
        BY <1>2, <2>1, <3>1, <3>2 DEF Finished
      <3> QED
        BY <3>3 DEF Moved
    <2>3. CASE rec.retry # units[v].retry
      <3>1. SameCounts(Units \ {v}) /\ NoneCompletes(Units)
        BY <1>2, <2>1, <2>3 DEF SameCounts, NoneCompletes, RightCount
      <3>2. Counted(v)
        BY <1>2, <2>1, <2>3, <3>1 DEF Counted, RightCount, RightToWrite, Untouched
      <3> QED
        BY <3>2 DEF Moved
    <2> QED
      BY <2>2, <2>3
  <1>14. EndsKept
    <2> SUFFICES ASSUME NEW u \in Units
                 PROVE  /\ Closed(u) => Closed(u)'
                        /\ units'[u].status = "Completed" =>
                              units[u].status = "Completed" \/ Closed(u)'
      BY DEF EndsKept
    <2>1. CASE u = v
      <3>1. ~Closed(u)
        BY <2>1 DEF RightToWrite
      <3>2. ASSUME rec.status = "Completed" PROVE Closed(u)'
        BY <1>2, <2>1, <3>2 DEF Closed, RightToWrite
      <3> QED
        BY <1>2, <2>1, <3>1, <3>2
    <2>2. CASE u # v
      <3>1. units'[u] = units[u]
        BY <1>2, <2>2
      <3> QED
        BY <1>4, <3>1 DEF Closed
    <2> QED
      BY <2>1, <2>2
  <1> QED
    BY <1>5, <1>6, <1>7, <1>8, <1>9, <1>10, <1>11, <1>12, <1>13, <1>14 DEF Kept, Sound

LEMMA HandlerTypes ==
    ASSUME TypeOK, NEW n \in Nodes
    PROVE  /\ rep[n] \in Handler /\ rep[n].unit \in Units /\ rep[n].snap \in Unit
           /\ rep \in [Nodes -> Handler]
           /\ Idle.pc = "idle"
  <1>1. rep[n] \in Handler /\ rep \in [Nodes -> Handler]
    BY DEF TypeOK, ReportsTypeOK
  <1>2. rep[n].unit \in Units /\ rep[n].snap \in Unit
    BY <1>1 DEF Handler
  <1>3. Idle.pc = "idle"
    BY DEF Idle, IdleHandler
  <1> QED
    BY <1>1, <1>2, <1>3

LEMMA SaveKeeps ==
    ASSUME ExecInv, TypeOK', NEW m \in Nodes, SaveReport(m), UNCHANGED agentVars
    PROVE  Kept
  <1>1. /\ TypeOK /\ OneNode /\ HandlersSound /\ RecordsSound /\ WaitingSound
    BY DEF ExecInv, Sound
  <1>0. PICK v \in Units, rec \in Unit : v = rep[m].unit /\ rec = rep[m].snap
    BY <1>1, HandlerTypes
  <1>2. /\ v = rep[m].unit /\ rec = rep[m].snap
        /\ rep[m] \in Handler /\ rep \in [Nodes -> Handler] /\ Idle.pc = "idle"
    BY <1>0, <1>1, HandlerTypes
  <1>3. /\ rep[m].pc = "save" /\ SaveUnit(v, rec)
        /\ UNCHANGED <<cmds, agentVars, reports, eng>>
    BY <1>2 DEF SaveReport, engineVars
  <1>4. /\ Handling(m, v) /\ Busy(m, v)
        /\ rec.retry = units[v].retry /\ rec.status \in ReportStatus /\ rec.node # NoNode
        /\ rec.status # "Running" => Over(m, v)
    BY <1>1, <1>2, <1>3 DEF Handling, Busy, HandlersSound
  <1>5. /\ \A n \in Nodes \ {m} : rep'[n] = rep[n]
        /\ \/ rep'[m].pc \notin {"save", "requeue"}
           \/ /\ rec.status = "Failed" /\ rep'[m].pc = "requeue"
              /\ rep'[m].unit = v /\ rep'[m].snap = rec
    <2>1. rep' = [rep EXCEPT ![m] = IF ~rep[m].changed THEN Idle
                                    ELSE IF Retries(rep[m].snap) THEN [rep[m] EXCEPT !.pc = "requeue"]
                                    ELSE [IdleHandler(rep[m].unit) EXCEPT !.pc = "job"]]
      BY DEF SaveReport, Become
    <2>2. /\ [rep[m] EXCEPT !.pc = "requeue"].pc = "requeue"
          /\ [rep[m] EXCEPT !.pc = "requeue"].unit = v
          /\ [rep[m] EXCEPT !.pc = "requeue"].snap = rec
      BY <1>2 DEF Handler
    <2>3. [IdleHandler(rep[m].unit) EXCEPT !.pc = "job"].pc = "job"
      BY DEF IdleHandler
    <2>4. Retries(rep[m].snap) => rec.status = "Failed"
      BY <1>2 DEF Retries
    <2>5. /\ \A n \in Nodes \ {m} : rep'[n] = rep[n]
          /\ \/ rep'[m] = Idle
             \/ rep'[m] = [rep[m] EXCEPT !.pc = "requeue"] /\ Retries(rep[m].snap)
             \/ rep'[m] = [IdleHandler(rep[m].unit) EXCEPT !.pc = "job"]
      BY <1>2, <2>1
    <2> QED
      BY <1>2, <2>2, <2>3, <2>4, <2>5
  <1>6. \A n \in Nodes : Handling(n, v) => n = m
    BY <1>1, <1>2, <1>4 DEF OneNode, Busy
  <1>7. ~Waiting(eng, v)
    BY <1>1, <1>2, <1>4 DEF WaitingSound
  <1>8. \A n \in Nodes, u \in Units :
           (Executions(n, u)' = Executions(n, u)) /\ (Reported(n, u)' <=> Reported(n, u))
    BY <1>3 DEF Executions, Reported, agentVars
  <1>9. \A n \in Nodes, u \in Units :
           Handling(n, u)' => Handling(n, u) /\ (u # v => rep'[n] = rep[n])
    BY <1>3, <1>4, <1>5 DEF Handling
  <1>10. \A n \in Nodes, u \in Units :
            Handling(n, u)' /\ u = v => /\ rep'[n].pc = "requeue" /\ rep'[n].unit = v
                                        /\ rep'[n].snap.retry = rec.retry /\ Over(n, v)
    <2> SUFFICES ASSUME NEW n \in Nodes, NEW u \in Units, Handling(n, u)', u = v
                 PROVE  /\ rep'[n].pc = "requeue" /\ rep'[n].unit = v
                        /\ rep'[n].snap.retry = rec.retry /\ Over(n, v)
      OBVIOUS
    <2>1. n = m
      BY <1>6, <1>9
    <2>2. rep'[m].pc \in {"save", "requeue"}
      BY <2>1 DEF Handling
    <2> QED
      BY <1>4, <1>5, <2>1, <2>2
  <1>11. \A n \in Nodes, u \in Units :
            Busy(n, u)' /\ u = v => (rec.status = "Failed" => Handling(n, u)')
    <2> SUFFICES ASSUME NEW n \in Nodes, NEW u \in Units, Busy(n, u)', u = v, rec.status = "Failed"
                 PROVE  Handling(n, u)'
      OBVIOUS
    <2>1. Busy(n, u)
      BY <1>8, <1>9 DEF Busy
    <2>2. n = m
      BY <1>1, <1>2, <1>4, <2>1 DEF OneNode
    <2>3. Executions(n, u) = 0 /\ ~Reported(n, u)
      BY <1>4, <2>2 DEF Over
    <2> QED
      BY <1>8, <2>3 DEF Busy
  <1>12. RightToWrite(v, rec)
    <2>1. \A n \in Nodes : Handling(n, v)' => /\ rep'[n].pc = "requeue" /\ rep'[n].unit = v
                                              /\ rep'[n].snap.retry = rec.retry
                                              /\ Over(n, v)
      BY <1>2, <1>10
    <2>2. rec.status \notin {"Absent", "Pending"} /\ rec.node # NoNode
      BY <1>4 DEF ReportStatus
    <2>3. \A n \in Nodes : Busy(n, v)' => (rec.status = "Failed" => Handling(n, v)')
      BY <1>2, <1>11
    <2>4. ASSUME rec.status = "Completed", NEW n \in Nodes PROVE ~Busy(n, v)'
      <3>1. ~Handling(n, v)'
        BY <1>2, <1>5, <1>6, <1>9, <2>4 DEF Handling
      <3>2. Busy(n, v)' => Busy(n, v)
        BY <1>8, <1>9 DEF Busy
      <3>3. Busy(n, v) => n = m
        BY <1>1, <1>4 DEF OneNode
      <3>4. Over(m, v)
        BY <1>4, <2>4
      <3> QED
        BY <1>8, <3>1, <3>2, <3>3, <3>4 DEF Busy, Over
    <2>5. ~Closed(v)
      BY <1>4 DEF Closed
    <2> QED
      BY <1>7, <1>9, <2>1, <2>2, <2>3, <2>4, <2>5 DEF RightToWrite
  <1>13. RightCount(v, rec)
    BY <1>4 DEF RightCount
  <1> QED
    BY <1>2, <1>3, <1>12, <1>13, OwnWrite DEF ExecInv


LEMMA RequeueKeeps ==
    ASSUME ExecInv, TypeOK', NEW m \in Nodes, Requeue(m), UNCHANGED agentVars
    PROVE  Kept
  <1>1. /\ TypeOK /\ StoreTypeOK /\ OneNode /\ HandlersSound /\ RecordsSound /\ WaitingSound
    BY DEF ExecInv, Sound, TypeOK
  <1>0. PICK v \in Units, k \in Nat : v = rep[m].unit /\ k = rep[m].snap.retry
    BY <1>1, HandlerTypes DEF Unit
  <1>2. /\ v = rep[m].unit /\ k = rep[m].snap.retry
        /\ rep[m] \in Handler /\ rep \in [Nodes -> Handler] /\ Idle.pc = "idle"
    BY <1>0, <1>1, HandlerTypes
  <1>3. PICK rec \in Unit : rec = [NewUnit EXCEPT !.retry = k + 1]
    <2>1. [NewUnit EXCEPT !.retry = k + 1] \in Unit
      BY BlankType DEF Unit
    <2> QED
      BY <2>1
  <1>4. rec.status = "Pending" /\ rec.retry = k + 1
    BY <1>3 DEF NewUnit, Blank
  <1>5. /\ rep[m].pc = "requeue" /\ SaveUnit(v, rec) /\ rep' = [rep EXCEPT ![m] = Idle]
        /\ UNCHANGED <<cmds, agentVars, reports, eng>>
    BY <1>2, <1>3 DEF Requeue, Become
  <1>6. Handling(m, v) /\ Busy(m, v)
    BY <1>2, <1>5 DEF Handling, Busy
  <1>7. k = units[v].retry /\ Over(m, v)
    BY <1>1, <1>2, <1>5, <1>6 DEF HandlersSound
  <1>8. \A n \in Nodes : Busy(n, v) => n = m
    BY <1>1, <1>6 DEF OneNode
  <1>9. ~Waiting(eng, v)
    BY <1>1, <1>6 DEF WaitingSound
  <1>10. \A n \in Nodes, u \in Units : Handling(n, u)' => n # m /\ rep'[n] = rep[n] /\ Handling(n, u)
    BY <1>2, <1>5 DEF Handling
  <1>11. \A n \in Nodes, u \in Units :
            (Executions(n, u)' = Executions(n, u)) /\ (Reported(n, u)' <=> Reported(n, u))
    BY <1>5 DEF Executions, Reported, agentVars
  <1>12. \A n \in Nodes : ~Busy(n, v)'
    <2> SUFFICES ASSUME NEW n \in Nodes, Busy(n, v)' PROVE FALSE
      OBVIOUS
    <2>1. Busy(n, v)
      BY <1>10, <1>11 DEF Busy
    <2>2. n = m
      BY <1>8, <2>1
    <2> QED
      BY <1>7, <1>10, <1>11, <2>2 DEF Busy, Over
  <1>13. \A n \in Nodes : ~Handling(n, v)'
    BY <1>12 DEF Busy
  <1>14. RightToWrite(v, rec)
    <2>1. ~Closed(v)
      BY <1>6 DEF Closed
    <2> QED
      BY <1>4, <1>9, <1>10, <1>12, <1>13, <2>1 DEF RightToWrite, Active
  <1>15. RightCount(v, rec)
    <2>1. \A n \in Nodes : Executions(n, v) \in Nat
      BY <1>1, ExecutionTypes
    <2>2. \A n \in Nodes : Executions(n, v) = 0
      BY <1>7, <1>8, <2>1 DEF Busy, Over
    <2>3. rep[m].pc = "requeue" /\ rep[m].snap.retry = units[v].retry
      BY <1>2, <1>5, <1>7
    <2> QED
      BY <1>4, <1>7, <2>2, <2>3 DEF RightCount
  <1> QED
    BY <1>5, <1>14, <1>15, OwnWrite

LEMMA RecvKeeps ==
    ASSUME ExecInv, TypeOK', NEW m \in Nodes, RecvReport(m), UNCHANGED agentVars
    PROVE  Kept
  <1>1. /\ TypeOK /\ StoreTypeOK /\ OneNode /\ Once /\ EndsLast /\ HandlersSound /\ RecordsSound
        /\ CycleOrder(eng) /\ WaitingSound
    BY DEF ExecInv, Sound, TypeOK
  <1>2. /\ reports[m] # <<>> /\ rep[m].pc = "idle"
        /\ reports' = [reports EXCEPT ![m] = Tail(@)]
        /\ UNCHANGED <<units, ripe, cmds, eng, agentVars>>
    BY DEF RecvReport, storeVars, engineVars
  <1>3. /\ reports \in [Nodes -> Seq([unit : Units, status : ReportStatus])]
        /\ rep \in [Nodes -> Handler] /\ units \in [Units -> Unit]
        /\ reports[m] \in Seq([unit : Units, status : ReportStatus]) /\ Len(reports[m]) \in Nat
    BY <1>1, ExecutionTypes DEF TypeOK, ReportsTypeOK, StoreTypeOK
  <1>4. Len(reports[m]) > 0
    BY <1>2, <1>3, EmptySeq, LenProperties
  <1>5. /\ Len(Tail(reports[m])) = Len(reports[m]) - 1
        /\ \A i \in 1..Len(Tail(reports[m])) : Tail(reports[m])[i] = reports[m][i + 1]
        /\ Head(reports[m]) = reports[m][1]
    BY <1>2, <1>3, HeadTailProperties
  <1>6. PICK v \in Units, status \in ReportStatus :
           v = reports[m][1].unit /\ status = reports[m][1].status
    BY <1>1, <1>4, ExecutionTypes
  <1>7. Reported(m, v) /\ Busy(m, v)
    BY <1>3, <1>4, <1>6 DEF Reported, Busy
  <1>8. units[v].status # "Absent" /\ units[v].node # NoNode
    BY <1>1, <1>7 DEF RecordsSound
  <1>9. /\ rep'[m].pc = "save" /\ rep'[m].unit = v
        /\ rep'[m].snap.status = status /\ rep'[m].snap.node = units[v].node
        /\ rep'[m].snap.retry = units[v].retry
        /\ \A n \in Nodes \ {m} : rep'[n] = rep[n]
    <2> DEFINE h == [IdleHandler(v) EXCEPT
                       !.pc = "save", !.snap = [units[v] EXCEPT !.status = status],
                       !.changed = units[v].status # status]
    <2>1. rep' = [rep EXCEPT ![m] = h]
      BY <1>5, <1>6, <1>8 DEF RecvReport, Become
    <2>2. h.pc = "save" /\ h.unit = v /\ h.snap = [units[v] EXCEPT !.status = status]
      BY DEF IdleHandler
    <2>3. /\ [units[v] EXCEPT !.status = status].status = status
          /\ [units[v] EXCEPT !.status = status].node = units[v].node
          /\ [units[v] EXCEPT !.status = status].retry = units[v].retry
      BY <1>3 DEF Unit
    <2> HIDE DEF h
    <2> QED
      BY <1>3, <2>1, <2>2, <2>3
  <1>10. /\ reports'[m] = Tail(reports[m]) /\ \A n \in Nodes \ {m} : reports'[n] = reports[n]
         /\ \A n \in Nodes : Len(reports[n]) \in Nat
    BY <1>1, <1>2, <1>3, ExecutionTypes
  <1>11. \A n \in Nodes, u \in Units : Executions(n, u)' = Executions(n, u)
    BY <1>2 DEF Executions, agentVars
  <1>12. \A n \in Nodes, u \in Units : Reported(n, u)' => Reported(n, u)
    <2> SUFFICES ASSUME NEW n \in Nodes, NEW u \in Units, Reported(n, u)'
                 PROVE  Reported(n, u)
      OBVIOUS
    <2>1. CASE n # m
      BY <1>10, <2>1 DEF Reported
    <2>2. CASE n = m
      <3>1. PICK i \in 1..Len(Tail(reports[m])) : Tail(reports[m])[i].unit = u
        BY <1>10, <2>2 DEF Reported
      <3>2. i + 1 \in 1..Len(reports[m]) /\ reports[m][i + 1].unit = u
        BY <1>3, <1>5, <3>1
      <3> QED
        BY <2>2, <3>2 DEF Reported
    <2> QED
      BY <2>1, <2>2
  <1>13. \A n \in Nodes, u \in Units : Handling(n, u)' =>
            (n = m /\ u = v) \/ (n # m /\ rep'[n] = rep[n] /\ Handling(n, u))
    BY <1>9 DEF Handling
  <1>14. \A n \in Nodes, u \in Units :
            (Busy(n, u)' => Busy(n, u)) /\ (Over(n, u) => Over(n, u)')
    BY <1>7, <1>11, <1>12, <1>13 DEF Busy, Over
  <1>15. OneNode'
    BY <1>1, <1>14 DEF OneNode
  <1>16. Once'
    BY <1>1, <1>11 DEF Once
  <1>17. EndsLast'
    <2> SUFFICES ASSUME NEW n \in Nodes, NEW u \in Units, NEW i \in 1..Len(reports'[n]),
                        reports'[n][i].unit = u, reports'[n][i].status # "Running"
                 PROVE  /\ Executions(n, u)' = 0
                        /\ \A j \in (i + 1)..Len(reports'[n]) : reports'[n][j].unit # u
      BY DEF EndsLast
    <2>1. CASE n # m
      BY <1>1, <1>10, <1>11, <2>1 DEF EndsLast
    <2>2. CASE n = m
      <3>1. i \in 1..Len(Tail(reports[m])) /\ Tail(reports[m])[i] = reports'[n][i]
        BY <1>10, <2>2
      <3>2. i + 1 \in 1..Len(reports[m]) /\ reports[m][i + 1] = reports'[n][i]
        BY <1>3, <1>5, <3>1
      <3>3. /\ Executions(m, u) = 0
            /\ \A j \in (i + 1 + 1)..Len(reports[m]) : reports[m][j].unit # u
        BY <1>1, <3>2 DEF EndsLast
      <3>4. ASSUME NEW j \in (i + 1)..Len(reports'[m]) PROVE reports'[m][j].unit # u
        <4>1. j + 1 \in (i + 1 + 1)..Len(reports[m]) /\ j \in 1..Len(Tail(reports[m]))
          BY <1>3, <1>5, <1>10, <3>1
        <4> QED
          BY <1>5, <1>10, <3>3, <4>1
      <3> QED
        BY <1>11, <2>2, <3>3, <3>4
    <2> QED
      BY <2>1, <2>2
  <1>18. status # "Running" => Over(m, v)'
    <2> SUFFICES ASSUME status # "Running" PROVE Over(m, v)'
      OBVIOUS
    <2>1. /\ Executions(m, v) = 0
          /\ \A j \in 2..Len(reports[m]) : reports[m][j].unit # v
      BY <1>1, <1>3, <1>4, <1>6 DEF EndsLast
    <2>2. ASSUME NEW i \in 1..Len(reports'[m]) PROVE reports'[m][i].unit # v
      <3>1. i \in 1..Len(Tail(reports[m])) /\ i + 1 \in 2..Len(reports[m])
        BY <1>3, <1>5, <1>10
      <3> QED
        BY <1>5, <1>10, <2>1, <3>1
    <2> QED
      BY <1>11, <2>1, <2>2 DEF Over, Reported
  <1>19. HandlersSound'
    <2> SUFFICES ASSUME NEW n \in Nodes, NEW u \in Units, Handling(n, u)'
                 PROVE  /\ rep'[n].snap.retry = units'[u].retry
                        /\ rep'[n].pc = "save" =>
                              rep'[n].snap.status \in ReportStatus /\ rep'[n].snap.node # NoNode
                        /\ (rep'[n].pc = "save" /\ rep'[n].snap.status = "Running") \/ Over(n, u)'
      BY DEF HandlersSound
    <2>1. CASE n = m /\ u = v
      BY <1>2, <1>8, <1>9, <1>18, <2>1
    <2>2. CASE rep'[n] = rep[n] /\ Handling(n, u)
      BY <1>1, <1>2, <1>14, <2>2 DEF HandlersSound
    <2> QED
      BY <1>13, <2>1, <2>2
  <1>20. RecordsSound'
    <2> SUFFICES ASSUME NEW u \in Units
                 PROVE  /\ units'[u].status = "Absent" => units'[u].retry = 0
                        /\ units'[u].status \in Active => units'[u].node # NoNode
                        /\ \A n \in Nodes : Busy(n, u)' =>
                             /\ units'[u].status \notin {"Absent", "Pending"}
                             /\ units'[u].node # NoNode
                             /\ units'[u].status = "Failed" => /\ rep'[n].pc = "requeue" /\ rep'[n].unit = u
                                                               /\ u \notin ripe'
      BY DEF RecordsSound
    <2>1. \A n \in Nodes : rep[n].pc = "requeue" => rep'[n] = rep[n]
      BY <1>2, <1>9
    <2>2. ASSUME NEW n \in Nodes, Busy(n, u)'
          PROVE  /\ units[u].status \notin {"Absent", "Pending"}
                 /\ units[u].node # NoNode
                 /\ units[u].status = "Failed" => /\ rep'[n].pc = "requeue" /\ rep'[n].unit = u
                                                  /\ u \notin ripe
      <3>1. Busy(n, u)
        BY <1>14, <2>2
      <3> QED
        BY <1>1, <2>1, <3>1 DEF RecordsSound
    <2> QED
      BY <1>1, <1>2, <2>2 DEF RecordsSound
  <1>21. WaitingSound' /\ CycleOrder(eng')
    BY <1>1, <1>2, <1>14 DEF WaitingSound
  <1>22. RetriesGrow
    BY <1>1, <1>2, RetriesKept
  <1>23. Moved
    <2>1. SameCounts(Units) /\ NoneCompletes(Units)
      BY <1>2 DEF SameCounts, NoneCompletes
    <2>2. \A n \in Nodes, u \in Units : Executions(n, u)' <= Executions(n, u)
      BY <1>1, <1>2, NoExecutionBegun
    <2> QED
      BY <2>1, <2>2 DEF Moved, PutDown
  <1>24. EndsKept
    BY <1>2, <1>14 DEF EndsKept, Closed
  <1> QED
    BY <1>15, <1>16, <1>17, <1>19, <1>20, <1>21, <1>22, <1>23, <1>24 DEF Kept, Sound


LEMMA HandlerKeeps ==
    ASSUME ExecInv, TypeOK', NEW m \in Nodes, HandlerNext(m)
    PROVE  Kept
  <1>1. UNCHANGED agentVars
    BY DEF HandlerNext
  <1>2. CASE RecvReport(m)
    BY <1>1, <1>2, RecvKeeps
  <1>3. CASE SaveReport(m)
    BY <1>1, <1>3, SaveKeeps
  <1>4. CASE Requeue(m)
    BY <1>1, <1>4, RequeueKeeps
  <1>t. TypeOK /\ rep \in [Nodes -> Handler] /\ rep[m] \in Handler /\ Idle.pc = "idle"
    BY HandlerTypes DEF ExecInv
  <1>5. CASE \/ ReadJob(m) \/ ListStage(m) \/ WriteStage(m) \/ CascadeStage(m)
             \/ Reread(m) \/ Settle(m)
    <2>1. UNCHANGED <<units, ripe, cmds, eng, reports>>
      BY <1>5 DEF ReadJob, ListStage, WriteStage, CascadeStage, Reread, Settle, storeVars, engineVars
    <2>2. \E h : rep' = [rep EXCEPT ![m] = h] /\ h.pc \notin {"save", "requeue"}
      <3>1. CASE ReadJob(m)
        <4>1. [rep[m] EXCEPT !.pc = "list", !.view = stage].pc = "list"
          BY <1>t DEF Handler
        <4> QED
          BY <1>t, <3>1, <4>1 DEF ReadJob, Become
      <3>2. CASE ListStage(m)
        <4> DEFINE new == StageVerdict(ListUnitsByStage(StageOf[rep[m].unit]))
        <4>1. rep' = [rep EXCEPT ![m] = [rep[m] EXCEPT !.pc = "stage", !.new = new]]
          BY <3>2 DEF ListStage, Become
        <4> HIDE DEF new
        <4>2. [rep[m] EXCEPT !.pc = "stage", !.new = new].pc = "stage"
          BY <1>t DEF Handler
        <4> QED
          BY <4>1, <4>2
      <3>3. CASE WriteStage(m)
        <4>1. PICK view, todo :
                 \/ rep' = [rep EXCEPT ![m] = [rep[m] EXCEPT !.pc = "cascade", !.view = view, !.todo = todo]]
                 \/ rep' = [rep EXCEPT ![m] = [rep[m] EXCEPT !.pc = "settle", !.view = view]]
          BY <3>3, Zenon DEF WriteStage, Become
        <4>2. /\ [rep[m] EXCEPT !.pc = "cascade", !.view = view, !.todo = todo].pc = "cascade"
              /\ [rep[m] EXCEPT !.pc = "settle", !.view = view].pc = "settle"
          BY <1>t DEF Handler
        <4> QED
          BY <4>1, <4>2
      <3>4. CASE CascadeStage(m)
        <4>1. PICK todo, victims :
                 rep' = [rep EXCEPT ![m] = [rep[m] EXCEPT !.todo = todo, !.victims = victims]]
          BY <3>4, Zenon DEF CascadeStage, Become
        <4>2. [rep[m] EXCEPT !.todo = todo, !.victims = victims].pc = rep[m].pc /\ rep[m].pc = "cascade"
          BY <1>t, <3>4 DEF Handler, CascadeStage
        <4> QED
          BY <4>1, <4>2
      <3>5. CASE Reread(m)
        <4>1. [rep[m] EXCEPT !.pc = "settle", !.view = stage].pc = "settle"
          BY <1>t DEF Handler
        <4> QED
          BY <3>5, <4>1 DEF Reread, Become
      <3>6. CASE Settle(m)
        BY <1>t, <3>6 DEF Settle, Become
      <3> QED
        BY <1>5, <3>1, <3>2, <3>3, <3>4, <3>5, <3>6
    <2>3. \A n \in Nodes, u \in Units : Handling(n, u)' => rep'[n] = rep[n]
      BY <1>t, <2>2 DEF Handling
    <2> QED
      BY <1>1, <2>1, <2>3, RecordsOnly
  <1>6. CASE CascadeUnit(m)
    <2>1. PICK u \in rep[m].victims :
             /\ UpdateUnitStatus(u, "Cancelled")
             /\ rep' = [rep EXCEPT ![m] = [rep[m] EXCEPT !.victims = @ \ {u}]]
      BY <1>6 DEF CascadeUnit, Become
    <2>2. u \in Units
      BY <1>t DEF Handler
    <2>3. [rep[m] EXCEPT !.victims = @ \ {u}].pc = "cascade"
      BY <1>t, <1>6 DEF Handler, CascadeUnit
    <2>4. \A n \in Nodes, w \in Units : Handling(n, w)' => rep'[n] = rep[n]
      BY <1>t, <2>1, <2>3 DEF Handling
    <2>5. UNCHANGED <<cmds, eng, reports>>
      BY <1>6 DEF CascadeUnit, engineVars
    <2> QED
      BY <1>1, <2>1, <2>2, <2>4, <2>5, RecordsOnly
  <1> QED
    BY <1>2, <1>3, <1>4, <1>5, <1>6 DEF HandlerNext, HandlerStep

-----------------------------------------------------------------------------
\* The RPCs.
LEMMA ControlKeeps ==
    ASSUME ExecInv, TypeOK', ControlNext
    PROVE  Kept
  <1>1. UNCHANGED <<reports, rep, agentVars>>
    BY DEF ControlNext, reportVars
  <1>h. \A n \in Nodes, u \in Units : Handling(n, u)' => rep'[n] = rep[n]
    BY <1>1
  <1>2. CASE \E v \in Units : SubmitUnit(v)
    <2>1. PICK v \in Units : SubmitUnit(v)
      BY <1>2
    <2>2. units[v].status = "Absent" /\ SaveUnit(v, NewUnit) /\ UNCHANGED <<cmds, eng>>
      BY <2>1 DEF SubmitUnit, engineVars
    <2>3. NewUnit \in Unit /\ NewUnit.status = "Pending" /\ NewUnit.retry = 0
      BY BlankType DEF NewUnit, Blank
    <2>4. units[v].retry = 0 /\ \A n \in Nodes : ~Busy(n, v)
      BY <2>2 DEF ExecInv, Sound, RecordsSound
    <2>5. \A n \in Nodes, u \in Units :
             (Busy(n, u)' <=> Busy(n, u)) /\ (Handling(n, u)' <=> Handling(n, u))
      BY <1>1, <2>2 DEF Busy, Executions, Reported, Handling, agentVars
    <2>6. \A n \in Nodes : ~Handling(n, v)
      BY <2>4 DEF Busy
    <2>7. RightToWrite(v, NewUnit)
      <3>1. ~Closed(v)
        BY <2>2 DEF Closed
      <3> QED
        BY <1>1, <2>3, <2>4, <2>5, <2>6, <3>1 DEF RightToWrite, Active
    <2>8. RightCount(v, NewUnit)
      BY <2>3, <2>4 DEF RightCount
    <2> QED
      BY <1>1, <2>2, <2>3, <2>7, <2>8, OwnWrite
  <1>3. CASE \/ \E j \in Jobs : SubmitJob(j) \/ SubmitFails(j) \/ CancelBegin(j)
             \/ CancelList \/ CancelSave \/ UnregRemove \/ \E n \in Nodes : UnregBegin(n)
    <2>1. UNCHANGED <<units, ripe, cmds, eng>>
      BY <1>3 DEF SubmitJob, SubmitFails, CancelBegin, CancelList, CancelSave, UnregRemove, UnregBegin,
                  storeVars, engineVars
    <2> QED
      BY <1>1, <1>h, <2>1, RecordsOnly
  <1>4. CASE CancelUnit
    <2>1. PICK u \in cancel.victims : UpdateUnitStatus(u, "Cancelled")
      BY <1>4 DEF CancelUnit
    <2>2. u \in Units /\ UNCHANGED <<cmds, eng>>
      BY <1>4 DEF CancelUnit, ExecInv, TypeOK, ControlTypeOK, engineVars
    <2> QED
      BY <1>1, <1>h, <2>1, <2>2, RecordsOnly
  <1>5. CASE UnregUnit
    BY <1>5 DEF UnregUnit, ExecInv, Calm
  <1> QED
    BY <1>2, <1>3, <1>4, <1>5 DEF ControlNext, CancelStep, UnregStep


-----------------------------------------------------------------------------
\* The agents.
Alive(n, u) == IF box[n][u] \in {"running", "orphan"} THEN 1 ELSE 0

LEMMA Parts ==
    ASSUME TypeOK, NEW n \in Nodes, NEW u \in Units
    PROVE  /\ cmds[n][u] \in Nat /\ spawned[n][u] \in Nat /\ launching[n][u] \in Nat
           /\ Alive(n, u) \in Nat
           /\ Executions(n, u) = cmds[n][u] + spawned[n][u] + launching[n][u] + Alive(n, u)
  BY DEF TypeOK, EngineTypeOK, AgentTypeOK, Alive, Executions

LEMMA NextParts ==
    ASSUME TypeOK', NEW n \in Nodes, NEW u \in Units
    PROVE  /\ cmds'[n][u] \in Nat /\ spawned'[n][u] \in Nat /\ launching'[n][u] \in Nat
           /\ Alive(n, u)' \in Nat
           /\ Executions(n, u)' = cmds'[n][u] + spawned'[n][u] + launching'[n][u] + Alive(n, u)'
  BY DEF TypeOK, EngineTypeOK, AgentTypeOK, Alive, Executions

LEMMA NoMore ==
    ASSUME TypeOK, TypeOK', NEW n \in Nodes, NEW u \in Units,
           cmds'[n][u] + spawned'[n][u] <= cmds[n][u] + spawned[n][u],
           launching'[n][u] <= launching[n][u], Alive(n, u)' <= Alive(n, u)
    PROVE  Executions(n, u)' <= Executions(n, u)
  <1>1. /\ cmds[n][u] \in Nat /\ spawned[n][u] \in Nat /\ launching[n][u] \in Nat
        /\ Alive(n, u) \in Nat
        /\ Executions(n, u) = cmds[n][u] + spawned[n][u] + launching[n][u] + Alive(n, u)
    BY Parts
  <1>2. /\ cmds'[n][u] \in Nat /\ spawned'[n][u] \in Nat /\ launching'[n][u] \in Nat
        /\ Alive(n, u)' \in Nat
        /\ Executions(n, u)' = cmds'[n][u] + spawned'[n][u] + launching'[n][u] + Alive(n, u)'
    BY NextParts
  <1> QED
    BY <1>1, <1>2

\* An agent writes nothing to the store; it hands executions on and ends them.
LEMMA AgentQuiet ==
    ASSUME ExecInv, TypeOK', UNCHANGED <<units, ripe, eng>>, EndsLast',
           \A n \in Nodes, u \in Units :
              /\ Executions(n, u)' <= Executions(n, u)
              /\ Reported(n, u)' => Reported(n, u) \/ Executions(n, u) > 0
              /\ Handling(n, u)' => rep'[n] = rep[n]
    PROVE  Kept
  BY SameCycle, QuietStep

\* A step that sends no report.
LEMMA SilentAgent ==
    ASSUME ExecInv, TypeOK', UNCHANGED <<units, ripe, eng>>,
           \A n \in Nodes : /\ Len(reports'[n]) <= Len(reports[n])
                            /\ \A i \in 1..Len(reports'[n]) : reports'[n][i] = reports[n][i],
           \A n \in Nodes, u \in Units :
              /\ Executions(n, u)' <= Executions(n, u)
              /\ Handling(n, u)' => rep'[n] = rep[n]
    PROVE  Kept
  <1>1. EndsLast' /\ \A n \in Nodes, u \in Units : Reported(n, u)' => Reported(n, u)
    BY FewerReports DEF ExecInv, Sound
  <1> QED
    BY <1>1, AgentQuiet

\* A step that reports the end of an execution, or its beginning.
LEMMA ReportingAgent ==
    ASSUME ExecInv, TypeOK', UNCHANGED <<units, ripe, eng, rep>>,
           NEW m \in Nodes, NEW v \in Units, NEW status \in ReportStatus, Report(m, v, status),
           Executions(m, v) > 0,
           Executions(m, v)' < Executions(m, v) \/ status = "Running",
           \A n \in Nodes, u \in Units : Executions(n, u)' <= Executions(n, u)
    PROVE  Kept
  <1>1. Executions(m, v) <= 1 /\ Executions(m, v) \in Nat /\ Executions(m, v)' \in Nat
    BY ExecutionTypes, NextExecutionTypes DEF ExecInv, Sound, Once
  <1>2. status = "Running" \/ Executions(m, v)' = 0
    BY <1>1
  <1>3. /\ EndsLast'
        /\ \A n \in Nodes, u \in Units : Reported(n, u)' => Reported(n, u) \/ Executions(n, u) > 0
    BY <1>2, OneMoreReport DEF ExecInv, Sound
  <1> QED
    BY <1>3, AgentQuiet

LEMMA SameStreams ==
    ASSUME TypeOK, UNCHANGED reports
    PROVE  \A n \in Nodes : /\ Len(reports'[n]) <= Len(reports[n])
                            /\ \A i \in 1..Len(reports'[n]) : reports'[n][i] = reports[n][i]
  BY ExecutionTypes

LEMMA ExecStepKeeps ==
    ASSUME ExecInv, TypeOK', NEW m \in Nodes, NEW v \in Units,
           ExecStep(m, v) \/ Refuse(m, v) \/ LaunchFails(m, v)
    PROVE  Kept
  <1>t. /\ TypeOK
        /\ cmds \in [Nodes -> [Units -> Nat]] /\ spawned \in [Nodes -> [Units -> Nat]]
        /\ launching \in [Nodes -> [Units -> Nat]] /\ box \in [Nodes -> [Units -> BoxStatus]]
    BY DEF ExecInv, TypeOK, EngineTypeOK, AgentTypeOK
  <1>u. UNCHANGED <<units, ripe, eng, rep, cmds>>
    BY DEF ExecStep, Refuse, LaunchFails, Launch, CreateContainer, Exit, CleanupContainer,
           storeVars, engineVars, reportVars
  <1>o. \A n \in Nodes, u \in Units : <<n, u>> # <<m, v>> =>
           /\ spawned'[n][u] = spawned[n][u] /\ launching'[n][u] = launching[n][u]
           /\ box'[n][u] = box[n][u]
    BY <1>t DEF ExecStep, Refuse, LaunchFails, Launch, CreateContainer, Exit, CleanupContainer
  <1>e. \A n \in Nodes, u \in Units : <<n, u>> # <<m, v>> => Executions(n, u)' = Executions(n, u)
    BY <1>u, <1>o DEF Executions
  <1>p. /\ cmds[m][v] \in Nat /\ spawned[m][v] \in Nat /\ launching[m][v] \in Nat
        /\ Alive(m, v) \in Nat /\ Alive(m, v)' \in Nat
        /\ Executions(m, v) = cmds[m][v] + spawned[m][v] + launching[m][v] + Alive(m, v)
        /\ Executions(m, v)' = cmds[m][v] + spawned'[m][v] + launching'[m][v] + Alive(m, v)'
    BY <1>t, <1>u, Parts, NextParts
  <1>n. \A n \in Nodes, u \in Units : Executions(n, u) \in Nat /\ Executions(n, u)' \in Nat
    BY <1>t, ExecutionTypes, NextExecutionTypes
  <1>1. CASE Refuse(m, v)
    <2>1. /\ spawned[m][v] > 0 /\ spawned'[m][v] = spawned[m][v] - 1
          /\ launching' = launching /\ box' = box /\ Report(m, v, "Failed")
      BY <1>1, <1>t DEF Refuse
    <2>2. Alive(m, v)' = Alive(m, v)
      BY <2>1 DEF Alive
    <2>3. Executions(m, v)' < Executions(m, v) /\ Executions(m, v) > 0
      BY <1>p, <2>1, <2>2
    <2>4. \A n \in Nodes, u \in Units : Executions(n, u)' <= Executions(n, u)
      BY <1>e, <1>n, <2>3
    <2> QED
      BY <1>u, <2>1, <2>3, <2>4, ReportingAgent DEF ReportStatus
  <1>2. CASE Launch(m, v)
    <2>1. /\ spawned[m][v] > 0 /\ spawned'[m][v] = spawned[m][v] - 1
          /\ launching'[m][v] = launching[m][v] + 1 /\ box' = box /\ Report(m, v, "Running")
      BY <1>2, <1>t DEF Launch
    <2>2. Alive(m, v)' = Alive(m, v)
      BY <2>1 DEF Alive
    <2>3. Executions(m, v)' = Executions(m, v) /\ Executions(m, v) > 0
      <3>1. PICK a \in Nat, b \in Nat, c \in Nat, d \in Nat :
               /\ a = cmds[m][v] /\ b = spawned[m][v] /\ c = launching[m][v] /\ d = Alive(m, v)
        BY <1>p
      <3>2. Executions(m, v) = a + b + c + d /\ Executions(m, v)' = a + (b - 1) + (c + 1) + d
        BY <1>p, <2>1, <2>2, <3>1
      <3> QED
        BY <2>1, <3>1, <3>2
    <2>4. \A n \in Nodes, u \in Units : Executions(n, u)' <= Executions(n, u)
      BY <1>e, <1>n, <2>3
    <2> QED
      BY <1>u, <2>1, <2>3, <2>4, ReportingAgent DEF ReportStatus
  <1>3. CASE CreateContainer(m, v)
    <2>1. /\ launching[m][v] > 0 /\ launching'[m][v] = launching[m][v] - 1
          /\ box[m][v] = "none" /\ box'[m][v] = "running" /\ spawned' = spawned /\ reports' = reports
      BY <1>3, <1>t DEF CreateContainer, reportVars
    <2>2. Alive(m, v) = 0 /\ Alive(m, v)' = 1
      BY <2>1 DEF Alive
    <2>3. Executions(m, v)' = Executions(m, v)
      BY <1>p, <2>1, <2>2
    <2>4. \A n \in Nodes, u \in Units : Executions(n, u)' <= Executions(n, u)
      BY <1>e, <1>n, <2>3
    <2> QED
      BY <1>t, <1>u, <2>1, <2>4, SameStreams, SilentAgent
  <1>4. CASE LaunchFails(m, v)
    <2>1. /\ launching[m][v] > 0 /\ launching'[m][v] = launching[m][v] - 1
          /\ spawned' = spawned /\ box' = box /\ Report(m, v, "Failed")
      BY <1>4, <1>t DEF LaunchFails
    <2>2. Alive(m, v)' = Alive(m, v)
      BY <2>1 DEF Alive
    <2>3. Executions(m, v)' < Executions(m, v) /\ Executions(m, v) > 0
      BY <1>p, <2>1, <2>2
    <2>4. \A n \in Nodes, u \in Units : Executions(n, u)' <= Executions(n, u)
      BY <1>e, <1>n, <2>3
    <2> QED
      BY <1>u, <2>1, <2>3, <2>4, ReportingAgent DEF ReportStatus
  <1>5. CASE \E status \in Outcomes : Exit(m, v, status)
    <2>1. PICK status \in Outcomes : Exit(m, v, status)
      BY <1>5
    <2>2. /\ box[m][v] = "running" /\ box'[m][v] = "exited" /\ Report(m, v, status)
          /\ spawned' = spawned /\ launching' = launching
      BY <2>1, <1>t DEF Exit
    <2>3. Alive(m, v) = 1 /\ Alive(m, v)' = 0
      BY <2>2 DEF Alive
    <2>4. Executions(m, v)' < Executions(m, v) /\ Executions(m, v) > 0
      BY <1>p, <2>2, <2>3
    <2>5. \A n \in Nodes, u \in Units : Executions(n, u)' <= Executions(n, u)
      BY <1>e, <1>n, <2>4
    <2>6. status \in ReportStatus
      BY DEF ReportStatus
    <2> QED
      BY <1>u, <2>2, <2>4, <2>5, <2>6, ReportingAgent
  <1>6. CASE CleanupContainer(m, v)
    <2>1. /\ box[m][v] = "exited" /\ box'[m][v] = "none" /\ reports' = reports
          /\ spawned' = spawned /\ launching' = launching
      BY <1>6, <1>t DEF CleanupContainer, reportVars
    <2>2. Alive(m, v) = 0 /\ Alive(m, v)' = 0
      BY <2>1 DEF Alive
    <2>3. Executions(m, v)' = Executions(m, v)
      BY <1>p, <2>1, <2>2
    <2>4. \A n \in Nodes, u \in Units : Executions(n, u)' <= Executions(n, u)
      BY <1>e, <1>n, <2>3
    <2> QED
      BY <1>t, <1>u, <2>1, <2>4, SameStreams, SilentAgent
  <1> QED
    BY <1>1, <1>2, <1>3, <1>4, <1>5, <1>6 DEF ExecStep


LEMMA AgentKeeps ==
    ASSUME ExecInv, TypeOK',
           \/ AgentFault
           \/ \E n \in Nodes : HeartbeatNext(n)
           \/ \E n \in Nodes, u \in Units : ExecNext(n, u)
    PROVE  Kept
  <1>t. /\ TypeOK
        /\ cmds \in [Nodes -> [Units -> Nat]] /\ spawned \in [Nodes -> [Units -> Nat]]
        /\ launching \in [Nodes -> [Units -> Nat]] /\ box \in [Nodes -> [Units -> BoxStatus]]
        /\ reports \in [Nodes -> Seq([unit : Units, status : ReportStatus])]
    BY DEF ExecInv, TypeOK, EngineTypeOK, AgentTypeOK, ReportsTypeOK
  <1>1. CASE \E n \in Nodes, u \in Units : ExecNext(n, u) \/ Refuse(n, u) \/ LaunchFails(n, u)
    BY <1>1, ExecStepKeeps DEF ExecNext
  <1>2. CASE \E n \in Nodes : Heartbeat(n)
    <2>1. PICK m \in Nodes : Heartbeat(m)
      BY <1>2
    <2>2. UNCHANGED <<units, ripe, eng, rep, reports, launching, box>>
      BY <2>1 DEF Heartbeat, storeVars, reportVars
    <2>3. /\ \A n \in Nodes \ {m} : cmds'[n] = cmds[n] /\ spawned'[n] = spawned[n]
          /\ \A u \in Units : cmds'[m][u] = 0 /\ spawned'[m][u] = spawned[m][u] + cmds[m][u]
      BY <1>t, <2>1 DEF Heartbeat, PopCommands
    <2>4. ASSUME NEW n \in Nodes, NEW u \in Units PROVE Executions(n, u)' <= Executions(n, u)
      <3>1. Alive(n, u)' = Alive(n, u)
        BY <2>2 DEF Alive
      <3>2. /\ cmds[n][u] \in Nat /\ spawned[n][u] \in Nat /\ launching[n][u] \in Nat
            /\ Alive(n, u) \in Nat
        BY <1>t, Parts
      <3>3. cmds'[n][u] + spawned'[n][u] = cmds[n][u] + spawned[n][u]
        BY <2>3, <3>2
      <3>4. cmds'[n][u] + spawned'[n][u] <= cmds[n][u] + spawned[n][u]
        BY <3>2, <3>3
      <3>5. launching'[n][u] <= launching[n][u] /\ Alive(n, u)' <= Alive(n, u)
        BY <2>2, <3>1, <3>2
      <3> QED
        BY <1>t, <3>4, <3>5, NoMore
    <2> QED
      BY <1>t, <2>2, <2>4, SameStreams, SilentAgent
  <1>3. CASE \E n \in Nodes : LoseCommands(n)
    <2>1. PICK m \in Nodes : LoseCommands(m)
      BY <1>3
    <2>2. UNCHANGED <<units, ripe, eng, rep, reports, spawned, launching, box>>
      BY <2>1 DEF LoseCommands, storeVars, reportVars, agentVars
    <2>3. /\ \A n \in Nodes \ {m} : cmds'[n] = cmds[n]
          /\ \A u \in Units : cmds'[m][u] = 0
      BY <1>t, <2>1 DEF LoseCommands, PopCommands
    <2>4. ASSUME NEW n \in Nodes, NEW u \in Units PROVE Executions(n, u)' <= Executions(n, u)
      <3>1. Alive(n, u)' = Alive(n, u)
        BY <2>2 DEF Alive
      <3>2. cmds'[n][u] <= cmds[n][u]
        <4>1. cmds[n][u] \in Nat
          BY <1>t
        <4> QED
          BY <2>3, <4>1
      <3>3. /\ cmds[n][u] \in Nat /\ spawned[n][u] \in Nat /\ launching[n][u] \in Nat
            /\ Alive(n, u) \in Nat /\ cmds'[n][u] \in Nat
        BY <1>t, Parts, NextParts
      <3>4. cmds'[n][u] + spawned'[n][u] <= cmds[n][u] + spawned[n][u]
        BY <2>2, <3>2, <3>3
      <3>5. launching'[n][u] <= launching[n][u] /\ Alive(n, u)' <= Alive(n, u)
        BY <2>2, <3>1, <3>3
      <3> QED
        BY <1>t, <3>4, <3>5, NoMore
    <2> QED
      BY <1>t, <2>2, <2>4, SameStreams, SilentAgent
  <1>c. ASSUME NEW m \in Nodes, NEW k \in 0..Len(reports[m]),
               reports' = [reports EXCEPT ![m] = SubSeq(@, 1, k)]
        PROVE  \A n \in Nodes : /\ Len(reports'[n]) <= Len(reports[n])
                                /\ \A i \in 1..Len(reports'[n]) : reports'[n][i] = reports[n][i]
    <2>1. reports[m] \in Seq([unit : Units, status : ReportStatus]) /\ Len(reports[m]) \in Nat
      BY <1>t, ExecutionTypes
    <2>2. /\ reports'[m] = SubSeq(reports[m], 1, k)
          /\ \A n \in Nodes \ {m} : reports'[n] = reports[n]
      BY <1>t, <1>c
    <2>3. Len(SubSeq(reports[m], 1, k)) = k
      BY <2>1, SubSeqProperties
    <2>4. \A i \in 1..k : SubSeq(reports[m], 1, k)[i] = reports[m][i]
      BY <2>1, SubSeqProperties
    <2>5. \A n \in Nodes : Len(reports[n]) \in Nat
      BY <1>t, ExecutionTypes
    <2> QED
      BY <2>1, <2>2, <2>3, <2>4, <2>5
  <1>4. CASE \E n \in Nodes : LoseReports(n)
    <2>1. PICK m \in Nodes : LoseReports(m)
      BY <1>4
    <2>2. UNCHANGED <<units, ripe, eng, rep, cmds, agentVars>>
      BY <2>1 DEF LoseReports, storeVars, engineVars
    <2>3. PICK k \in 0..Len(reports[m]) : reports' = [reports EXCEPT ![m] = SubSeq(@, 1, k)]
      <3>1. Len(reports[m]) \in Nat
        BY <1>t, ExecutionTypes
      <3>2. PICK k \in 0..(Len(reports[m]) - 1) : reports' = [reports EXCEPT ![m] = SubSeq(@, 1, k)]
        BY <2>1 DEF LoseReports
      <3>3. k \in 0..Len(reports[m])
        BY <3>1
      <3> QED
        BY <3>2, <3>3
    <2>4. \A n \in Nodes, u \in Units : Executions(n, u)' <= Executions(n, u)
      BY <1>t, <2>2, NoExecutionBegun
    <2>5. \A n \in Nodes : /\ Len(reports'[n]) <= Len(reports[n])
                           /\ \A i \in 1..Len(reports'[n]) : reports'[n][i] = reports[n][i]
      BY <1>c, <2>3
    <2> QED
      BY <2>2, <2>4, <2>5, SilentAgent
  <1>5. CASE \E n \in Nodes : AgentRestart(n)
    <2>1. PICK m \in Nodes : AgentRestart(m)
      BY <1>5
    <2>2. UNCHANGED <<units, ripe, eng, rep, cmds>>
      BY <2>1 DEF AgentRestart, storeVars
    <2>3. PICK k \in 0..Len(reports[m]) : reports' = [reports EXCEPT ![m] = SubSeq(@, 1, k)]
      BY <2>1 DEF AgentRestart
    <2>4. /\ \A n \in Nodes \ {m} : spawned'[n] = spawned[n] /\ launching'[n] = launching[n]
                                    /\ box'[n] = box[n]
          /\ \A u \in Units : spawned'[m][u] = 0 /\ launching'[m][u] = 0
      BY <1>t, <2>1 DEF AgentRestart
    <2>5. \A u \in Units : box'[m][u] \in {"running", "orphan"} => box[m][u] \in {"running", "orphan"}
      <3>1. box' = [box EXCEPT ![m] = [u \in Units |-> CASE box[m][u] = "running" -> "orphan"
                                                         [] box[m][u] = "exited" -> "left"
                                                         [] OTHER -> box[m][u]]]
        BY <2>1 DEF AgentRestart
      <3> QED
        BY <1>t, <3>1
    <2>6. ASSUME NEW n \in Nodes, NEW u \in Units PROVE Executions(n, u)' <= Executions(n, u)
      <3>1. Alive(n, u)' <= Alive(n, u)
        <4>1. box'[n][u] \in {"running", "orphan"} => box[n][u] \in {"running", "orphan"}
          BY <2>4, <2>5
        <4> QED
          BY <4>1 DEF Alive
      <3>2. spawned'[n][u] <= spawned[n][u] /\ launching'[n][u] <= launching[n][u]
        <4>1. spawned[n][u] \in Nat /\ launching[n][u] \in Nat
          BY <1>t
        <4> QED
          BY <2>4, <4>1
      <3>3. cmds[n][u] \in Nat /\ spawned[n][u] \in Nat /\ spawned'[n][u] \in Nat
        BY <1>t, Parts, NextParts
      <3>4. cmds'[n][u] + spawned'[n][u] <= cmds[n][u] + spawned[n][u]
        BY <2>2, <3>2, <3>3
      <3> QED
        BY <1>t, <3>1, <3>2, <3>4, NoMore
    <2>7. \A n \in Nodes : /\ Len(reports'[n]) <= Len(reports[n])
                           /\ \A i \in 1..Len(reports'[n]) : reports'[n][i] = reports[n][i]
      BY <1>c, <2>3
    <2> QED
      BY <2>2, <2>6, <2>7, SilentAgent
  <1> QED
    BY <1>1, <1>2, <1>3, <1>4, <1>5 DEF AgentFault, HeartbeatNext

-----------------------------------------------------------------------------
\* Time and crashes.
LEMMA DelayKeeps ==
    ASSUME Reliable, ExecInv, TypeOK', Delay
    PROVE  Kept
  <1>1. PICK v \in Units : ~Requeuing(v) /\ DelayElapses(v)
    BY DEF Delay, Reliable
  <1>2. /\ UNCHANGED <<units, eng, rep, reports, cmds, agentVars>> /\ ripe' = ripe \cup {v}
        /\ units[v].status = "Failed"
    BY <1>1 DEF Delay, DelayElapses, engineVars, reportVars
  <1>3. \A n \in Nodes, u \in Units :
           /\ Executions(n, u)' = Executions(n, u)
           /\ Reported(n, u)' <=> Reported(n, u)
           /\ Handling(n, u)' <=> Handling(n, u)
    BY <1>2 DEF Executions, Reported, Handling, agentVars
  <1>4. \A n \in Nodes, u \in Units :
           (Busy(n, u)' <=> Busy(n, u)) /\ (Over(n, u)' <=> Over(n, u))
    BY <1>3 DEF Busy, Over
  <1>5. \A n \in Nodes : ~Busy(n, v)
    BY <1>1, <1>2 DEF ExecInv, Sound, RecordsSound, Requeuing
  <1>6. OneNode'
    BY <1>4 DEF OneNode, ExecInv, Sound
  <1>7. Once'
    BY <1>3 DEF Once, ExecInv, Sound
  <1>8. EndsLast'
    BY <1>2, <1>3 DEF EndsLast, ExecInv, Sound
  <1>9. HandlersSound'
    BY <1>2, <1>3, <1>4 DEF HandlersSound, ExecInv, Sound
  <1>10. RecordsSound'
    BY <1>2, <1>4, <1>5 DEF RecordsSound, ExecInv, Sound
  <1>11. WaitingSound' /\ CycleOrder(eng')
    BY <1>2, <1>4 DEF WaitingSound, ExecInv, Sound
  <1>12. RetriesGrow
    BY <1>2, RetriesKept DEF ExecInv, TypeOK
  <1>13. Moved
    <2>1. SameCounts(Units) /\ NoneCompletes(Units)
      BY <1>2 DEF SameCounts, NoneCompletes
    <2>2. \A n \in Nodes, u \in Units : Executions(n, u)' <= Executions(n, u)
      BY <1>2, NoExecutionBegun DEF ExecInv
    <2> QED
      BY <2>1, <2>2 DEF Moved, PutDown
  <1>14. EndsKept
    BY <1>2, <1>4 DEF EndsKept, Closed
  <1> QED
    BY <1>6, <1>7, <1>8, <1>9, <1>10, <1>11, <1>12, <1>13, <1>14 DEF Kept, Sound

LEMMA RestartKeeps ==
    ASSUME ExecInv, TypeOK', Restart
    PROVE  Kept
  <1>t. TypeOK
    BY DEF ExecInv
  <1>1. /\ UNCHANGED <<units, ripe, agentVars>>
        /\ \A n \in Nodes : reports'[n] = <<>> /\ rep'[n] = Idle
        /\ \A n \in Nodes, u \in Units : cmds'[n][u] = 0
        /\ eng' = IdleEngine
    BY DEF Restart, storeVars
  <1>2. ASSUME NEW n \in Nodes, NEW u \in Units PROVE Executions(n, u)' <= Executions(n, u)
    <2>1. Alive(n, u)' = Alive(n, u) /\ spawned' = spawned /\ launching' = launching
      BY <1>1 DEF Alive, agentVars
    <2>2. cmds'[n][u] <= cmds[n][u]
      BY <1>t, <1>1, Parts
    <2>3. /\ cmds[n][u] \in Nat /\ spawned[n][u] \in Nat /\ launching[n][u] \in Nat
          /\ Alive(n, u) \in Nat
      BY <1>t, Parts
    <2>4. cmds'[n][u] + spawned'[n][u] <= cmds[n][u] + spawned[n][u]
      BY <1>1, <2>1, <2>3
    <2> QED
      BY <1>t, <2>1, <2>3, <2>4, NoMore
  <1>3. \A n \in Nodes : /\ Len(reports'[n]) <= Len(reports[n])
                         /\ \A i \in 1..Len(reports'[n]) : reports'[n][i] = reports[n][i]
    BY <1>t, <1>1, ExecutionTypes
  <1>4. EndsLast' /\ \A n \in Nodes, u \in Units : Reported(n, u)' => Reported(n, u)
    BY <1>2, <1>3, FewerReports DEF ExecInv, Sound
  <1>5. \A n \in Nodes, u \in Units : ~Handling(n, u)'
    BY <1>1 DEF Handling, Idle, IdleHandler
  <1> QED
    BY <1>1, <1>2, <1>4, <1>5, IdleCycle, QuietStep


\* The failure detector, the unregistrations and the pulls stay out of it.
LEMMA CalmKept ==
    ASSUME ExecInv, Next
    PROVE  Calm' /\ ~PullNext /\ ~Flap
  <1>t. /\ \A n \in Nodes : node[n] = "Online" /\ pull[n].pc = "idle"
        /\ unreg.pc = "idle" /\ budget["flap"] = 0 /\ budget["pull"] = 0 /\ budget["unregister"] = 0
        /\ node \in [Nodes -> NodeStatus] /\ budget \in [Kinds -> Nat]
    BY DEF ExecInv, Calm, TypeOK, EngineTypeOK
  <1>s. \A kind \in Kinds : Spend(kind) =>
           /\ kind \notin {"flap", "pull", "unregister"}
           /\ budget'["flap"] = 0 /\ budget'["pull"] = 0 /\ budget'["unregister"] = 0
    BY <1>t DEF Spend, Kinds
  <1>f. Free => budget'["flap"] = 0 /\ budget'["pull"] = 0 /\ budget'["unregister"] = 0
    BY <1>t DEF Free
  <1>k. Kinds = {"flap", "cancel", "pull", "unregister", "crash", "lose", "agent", "refuse",
                 "submit", "delay"}
    BY DEF Kinds
  <1>1. ~PullNext
    BY <1>t, <1>s, <1>k DEF PullNext, PullStep, PullChoose, PullSave
  <1>2. ~Flap
    BY <1>s, <1>k DEF Flap
  <1>3. ~UnregStep /\ \A n \in Nodes : ~(UnregBegin(n) /\ Spend("unregister"))
    BY <1>t, <1>s, <1>k DEF UnregStep, UnregUnit, UnregRemove
  <1>4. budget'["flap"] = 0 /\ budget'["pull"] = 0 /\ budget'["unregister"] = 0
    BY <1>s, <1>f, <1>k, <1>1, <1>2
    DEF Next, EngineNext, HandlerNext, ExecNext, HeartbeatNext, AgentFault, ControlNext, Delay, Restart
  <1>5. (\A n \in Nodes : node'[n] = "Online" /\ pull'[n].pc = "idle") /\ unreg'.pc = "idle"
    <2>1. CASE EngineNext
      BY <1>t, <2>1 DEF EngineNext, EngineStep, ReclaimUnit, ListPending, ListRetryable, VisitJob,
           SkipStage, SkipUnit, PickNode, AssignUnit, EndCycle, WakeUp, Tick, controlVars
    <2>2. CASE ControlNext
      <3>1. UNCHANGED <<node, pull, unreg>>
        BY <1>3, <2>2 DEF ControlNext, SubmitUnit, SubmitJob, SubmitFails, CancelBegin, CancelStep,
             CancelList, CancelUnit, CancelSave, engineVars
      <3> QED
        BY <1>t, <3>1
    <2>3. CASE AgentFault
      <3>1. UNCHANGED <<pull, unreg>>
        BY <2>3 DEF AgentFault, Refuse, LaunchFails, LoseCommands, LoseReports, AgentRestart,
             engineVars, controlVars
      <3>2. node' = node \/ (\E m \in Nodes : LoseCommands(m)) \/ (\E m \in Nodes : AgentRestart(m))
        BY <2>3 DEF AgentFault, Refuse, LaunchFails, LoseReports, engineVars
      <3>3. \A n \in Nodes : node'[n] = "Online"
        BY <1>t, <3>2 DEF LoseCommands, AgentRestart
      <3> QED
        BY <1>t, <3>1, <3>3
    <2>4. CASE \E m \in Nodes : HeartbeatNext(m)
      BY <1>t, <2>4 DEF HeartbeatNext, Heartbeat, controlVars
    <2>5. CASE \E m \in Nodes : HandlerNext(m)
      <3>1. UNCHANGED <<node, pull, unreg>>
        BY <2>5 DEF HandlerNext, HandlerStep, RecvReport, SaveReport, Requeue, ReadJob, ListStage,
             WriteStage, CascadeStage, CascadeUnit, Reread, Settle, engineVars, controlVars
      <3> QED
        BY <1>t, <3>1
    <2>6. CASE \E m \in Nodes, u \in Units : ExecNext(m, u)
      <3>1. UNCHANGED <<node, pull, unreg>>
        BY <2>6 DEF ExecNext, ExecStep, Launch, CreateContainer, LaunchFails, Exit, CleanupContainer,
             engineVars, controlVars
      <3> QED
        BY <1>t, <3>1
    <2>7. CASE Delay
      BY <1>t, <2>7 DEF Delay, engineVars, controlVars
    <2>8. CASE Restart
      BY <1>t, <2>8 DEF Restart, IdlePull, IdleUnreg
    <2> QED
      BY <1>1, <1>2, <2>1, <2>2, <2>3, <2>4, <2>5, <2>6, <2>7, <2>8 DEF Next
  <1> QED
    BY <1>1, <1>2, <1>4, <1>5 DEF Calm

-----------------------------------------------------------------------------
LEMMA ExecutionInit ==
    ASSUME Reliable, Init
    PROVE  ExecInv
  <1>1. TypeOK
    BY InitType
  <1>2. Calm
    BY DEF Init, EngineInit, ControlInit, Calm, Reliable, IdlePull, IdleUnreg
  <1>3. \A n \in Nodes, u \in Units : Executions(n, u) = 0 /\ ~Reported(n, u) /\ ~Handling(n, u)
    <2>1. \A n \in Nodes, u \in Units : /\ cmds[n][u] = 0 /\ spawned[n][u] = 0 /\ launching[n][u] = 0
                                        /\ box[n][u] = "none"
      BY DEF Init, EngineInit, AgentInit
    <2>2. \A n \in Nodes : reports[n] = <<>> /\ rep[n] = Idle
      BY DEF Init, ReportsInit
    <2>3. \A n \in Nodes, u \in Units : Executions(n, u) = 0
      BY <2>1 DEF Executions
    <2>4. \A n \in Nodes, u \in Units : ~Reported(n, u)
      BY <2>2 DEF Reported
    <2> QED
      BY <2>2, <2>3, <2>4 DEF Handling, Idle, IdleHandler
  <1>4. \A n \in Nodes, u \in Units : ~Busy(n, u)
    BY <1>3 DEF Busy
  <1>5. /\ OneNode /\ Once /\ HandlersSound
    BY <1>3, <1>4 DEF OneNode, Once, HandlersSound
  <1>6. EndsLast
    BY DEF Init, ReportsInit, EndsLast
  <1>7. RecordsSound
    BY <1>4 DEF Init, StoreInit, RecordsSound, Blank, Active
  <1>8. CycleOrder(eng) /\ WaitingSound
    BY IdleCycle DEF Init, EngineInit, WaitingSound
  <1> QED
    BY <1>1, <1>2, <1>5, <1>6, <1>7, <1>8 DEF ExecInv, Sound

LEMMA ExecutionStep ==
    ASSUME Reliable, ExecInv, [Next]_vars
    PROVE  ExecInv' /\ RetriesGrow /\ Moved /\ EndsKept
  <1>t. TypeOK'
    BY StepType, StutterType DEF ExecInv
  <1>1. CASE Next
    <2>1. Calm' /\ ~PullNext /\ ~Flap
      BY <1>1, CalmKept
    <2>2. Kept
      BY <1>1, <1>t, <2>1, EngineKeeps, HandlerKeeps, ControlKeeps, AgentKeeps, DelayKeeps,
         RestartKeeps DEF Next
    <2> QED
      BY <1>t, <2>1, <2>2 DEF ExecInv, Kept
  <1>2. CASE UNCHANGED vars
    <2>1. UNCHANGED <<units, ripe, eng, cmds, reports, rep, agentVars, node, pull, unreg, budget>>
      BY <1>2 DEF vars, storeVars, engineVars, reportVars, controlVars
    <2>2. \A n \in Nodes, u \in Units : Handling(n, u)' => rep'[n] = rep[n]
      BY <2>1
    <2>3. Kept
      BY <1>t, <2>1, <2>2, RecordsOnly
    <2>4. Calm'
      BY <2>1 DEF Calm, ExecInv
    <2> QED
      BY <1>t, <2>3, <2>4 DEF ExecInv, Kept
  <1> QED
    BY <1>1, <1>2

\* A unit is with one node at most, and there once: as a queued command, as a goroutine about to
\* run it, or as a container.  Crashes, losses, refusals and cancellations do not change that; what
\* can is named in Reliable.
THEOREM ExecutesOnce == ASSUME Reliable PROVE Spec => []SingleExecution
  <1>1. Init => ExecInv
    BY ExecutionInit
  <1>2. ExecInv /\ [Next]_vars => ExecInv'
    BY ExecutionStep
  <1>3. ExecInv => SingleExecution
    BY DEF ExecInv, Sound, OneNode, Once, Busy, SingleExecution
  <1> QED
    BY <1>1, <1>2, <1>3, PTL DEF Spec

\* RetryCount never goes down: whoever saves a copy of a unit saves its newest count.
THEOREM RetriesOnlyGrow == ASSUME Reliable PROVE Spec => RetryMonotone
  <1>1. Init => ExecInv
    BY ExecutionInit
  <1>2. ExecInv /\ [Next]_vars => ExecInv' /\ RetriesGrow
    BY ExecutionStep
  <1>3. RetriesGrow => [\A u \in Units : units'[u].retry >= units[u].retry]_vars
    BY DEF RetriesGrow
  <1> QED
    BY <1>1, <1>2, <1>3, PTL DEF Spec, RetryMonotone

-----------------------------------------------------------------------------
\* The refinement of UnitLife.

\* The units that were completed have been recorded, and nobody has them.
DoneSound ==
    \A u \in Units : /\ units[u].status = "Completed" => u \in done
                     /\ u \in done => Closed(u)

LifeInv == ExecInv /\ RetryInv /\ DoneSound

LEMMA HolderIs ==
    ASSUME ExecInv, NEW u \in Units
    PROVE  /\ \A n \in Nodes : Executions(n, u) > 0 => Holder(u) = n
           /\ (\A n \in Nodes : ~(Executions(n, u) > 0)) => Holder(u) = NoNode
  <1>1. ASSUME NEW n \in Nodes, Executions(n, u) > 0 PROVE Holder(u) = n
    <2>1. \A m \in Nodes : Executions(m, u) > 0 => m = n
      BY <1>1 DEF ExecInv, Sound, OneNode, Busy
    <2> QED
      BY <1>1, <2>1 DEF Holder
  <1> QED
    BY <1>1 DEF Holder

LEMMA NextHolderIs ==
    ASSUME ExecInv', NEW u \in Units
    PROVE  /\ \A n \in Nodes : Executions(n, u)' > 0 => Holder(u)' = n
           /\ (\A n \in Nodes : ~(Executions(n, u)' > 0)) => Holder(u)' = NoNode
  <1>1. ASSUME NEW n \in Nodes, Executions(n, u)' > 0 PROVE Holder(u)' = n
    <2>1. \A m \in Nodes : Executions(m, u)' > 0 => m = n
      BY <1>1 DEF ExecInv, Sound, OneNode, Busy
    <2> QED
      BY <1>1, <2>1 DEF Holder
  <1> QED
    BY <1>1 DEF Holder

LEMMA LifeInit ==
    ASSUME Reliable, Init
    PROVE  LifeInv /\ Life!Init
  <1>1. ExecInv /\ RetryInv
    BY ExecutionInit, RetryInit
  <1>2. \A u \in Units : units[u].status = "Absent" /\ units[u].retry = 0
    BY DEF Init, StoreInit, Blank
  <1>3. \A n \in Nodes, u \in Units : Executions(n, u) = 0
    BY DEF Init, EngineInit, AgentInit, Executions
  <1>4. \A u \in Units : Holder(u) = NoNode
    BY <1>1, <1>3, HolderIs
  <1>5. done = {}
    BY DEF Init
  <1>6. DoneSound
    BY <1>2, <1>5 DEF DoneSound
  <1> QED
    BY <1>1, <1>2, <1>4, <1>5, <1>6 DEF LifeInv, Life!Init

\* Every step is one of a unit's life, or none.
LEMMA LifeStep ==
    ASSUME Reliable, LifeInv, [Next]_vars
    PROVE  LifeInv' /\ [Life!Next]_(Life!life)
  <1>1. ExecInv /\ RetryInv /\ DoneSound
    BY DEF LifeInv
  <1>2. ExecInv' /\ RetryInv' /\ Moved /\ EndsKept
    BY <1>1, ExecutionStep, RetryStep
  <1>3. done' = done \cup {u \in Units : units'[u].status = "Completed"}
    <2>1. CASE Next
      BY <2>1 DEF Next, Record
    <2>2. CASE UNCHANGED vars
      BY <1>1, <2>2 DEF vars, storeVars, DoneSound
    <2> QED
      BY <2>1, <2>2
  <1>4. DoneSound'
    <2> SUFFICES ASSUME NEW u \in Units
                 PROVE  /\ units'[u].status = "Completed" => u \in done'
                        /\ u \in done' => Closed(u)'
      BY DEF DoneSound
    <2>1. ASSUME u \in done PROVE Closed(u)'
      BY <1>1, <1>2, <2>1 DEF DoneSound, EndsKept
    <2>2. ASSUME units'[u].status = "Completed" PROVE u \in done \/ Closed(u)'
      BY <1>1, <1>2, <2>2 DEF DoneSound, EndsKept
    <2> QED
      BY <1>3, <2>1, <2>2
  <1>5. /\ \A u \in Units : \A n \in Nodes : Executions(n, u) > 0 => Holder(u) = n
        /\ \A u \in Units : (\A n \in Nodes : ~(Executions(n, u) > 0)) => Holder(u) = NoNode
    BY <1>1, HolderIs
  <1>6. /\ \A u \in Units : \A n \in Nodes : Executions(n, u)' > 0 => Holder(u)' = n
        /\ \A u \in Units : (\A n \in Nodes : ~(Executions(n, u)' > 0)) => Holder(u)' = NoNode
    BY <1>2, NextHolderIs
  <1>7. \A u \in Units : Untouched(u) => Holder(u) = NoNode /\ u \notin done
    BY <1>1, <1>5 DEF Untouched, DoneSound
  <1>8. \A u \in Units :
           (\A n \in Nodes : Executions(n, u)' = Executions(n, u)) => Holder(u)' = Holder(u)
    BY DEF Holder
  <1>9. NoneCompletes(Units) => done' = done
    BY <1>1, <1>3 DEF NoneCompletes, DoneSound
  <1>10. CASE PutDown
    <2> DEFINE S == {u \in Units : Holder(u)' = NoNode}
    <2>1. ASSUME NEW u \in Units \ S PROVE Holder(u)' = Holder(u)
      <3>1. PICK n \in Nodes : Executions(n, u)' > 0
        BY <1>6, <2>1
      <3>2. Executions(n, u) > 0
        <4>1. /\ Executions(n, u) \in Nat /\ Executions(n, u)' \in Nat
              /\ Executions(n, u)' <= Executions(n, u)
          BY <1>1, <1>2, <1>10, ExecutionTypes, NextExecutionTypes DEF PutDown, ExecInv
        <4> QED
          BY <3>1, <4>1
      <3> QED
        BY <1>5, <1>6, <3>1, <3>2
    <2>2. \A u \in S : Holder(u)' = NoNode
      OBVIOUS
    <2>3. S \in SUBSET Units
      OBVIOUS
    <2> HIDE DEF S
    <2>4. /\ \A u \in Units : Holder(u)' = IF u \in S THEN NoNode ELSE Holder(u)
          /\ \A u \in Units : units'[u].retry = units[u].retry
          /\ done' = done
      BY <1>9, <1>10, <2>1, <2>2 DEF PutDown, SameCounts
    <2>5. Life!Release(S)
      BY <2>4 DEF Life!Release
    <2> QED
      BY <1>2, <1>4, <2>3, <2>5 DEF LifeInv, Life!Next
  <1>11. ASSUME NEW v \in Units, NEW m \in Nodes, GivenOut(v, m)
         PROVE  Life!Next
    <2>1. Holder(v) = NoNode /\ v \notin done
      BY <1>7, <1>11 DEF GivenOut
    <2>2. Holder(v)' = m
      BY <1>6, <1>11 DEF GivenOut
    <2>3. \A u \in Units : u # v => Holder(u)' = Holder(u)
      <3>1. \A n \in Nodes, u \in Units : u # v => Executions(n, u)' = Executions(n, u)
        BY <1>11 DEF GivenOut
      <3> QED
        BY <1>8, <3>1
    <2>4. done' = done /\ \A u \in Units : units'[u].retry = units[u].retry
      BY <1>9, <1>11 DEF GivenOut, SameCounts
    <2>5. Life!Take(v, m)
      BY <2>1, <2>2, <2>3, <2>4 DEF Life!Take, Life!Free
    <2> QED
      BY <2>5 DEF Life!Next
  <1>12. ASSUME NEW v \in Units, Counted(v)
         PROVE  Life!Next
    <2>1. Holder(v) = NoNode /\ v \notin done
      BY <1>7, <1>12 DEF Counted
    <2>2. units[v].retry < MaxRetries
      BY <1>1, <1>12 DEF Counted, RetryInv
    <2>3. \A u \in Units : Holder(u)' = Holder(u)
      BY <1>8, <1>12 DEF Counted, SameExecutions
    <2>4. /\ done' = done /\ units'[v].retry = units[v].retry + 1
          /\ \A u \in Units : u # v => units'[u].retry = units[u].retry
      BY <1>9, <1>12 DEF Counted, SameCounts
    <2>5. Life!Retry(v)
      BY <2>1, <2>2, <2>3, <2>4 DEF Life!Retry, Life!Free
    <2> QED
      BY <2>5 DEF Life!Next
  <1>13. ASSUME NEW v \in Units, Finished(v)
         PROVE  [Life!Next]_(Life!life)
    <2>1. /\ \A u \in Units : Holder(u)' = Holder(u)
          /\ \A u \in Units : units'[u].retry = units[u].retry
      BY <1>8, <1>13 DEF Finished, SameExecutions, SameCounts
    <2>2. CASE units'[v].status = "Completed"
      <3>1. Holder(v) = NoNode /\ v \notin done
        BY <1>7, <1>13, <2>2 DEF Finished
      <3>2. done' = done \cup {v}
        BY <1>1, <1>3, <1>13, <2>2 DEF Finished, NoneCompletes, DoneSound
      <3>3. Life!Complete(v)
        BY <2>1, <3>1, <3>2 DEF Life!Complete, Life!Free
      <3> QED
        BY <3>3 DEF Life!Next
    <2>3. CASE units'[v].status # "Completed"
      <3>1. done' = done
        BY <1>1, <1>3, <1>13, <2>3 DEF Finished, NoneCompletes, DoneSound
      <3> QED
        BY <2>1, <3>1 DEF Life!life
    <2> QED
      BY <2>2, <2>3
  <1> QED
    BY <1>2, <1>4, <1>10, <1>11, <1>12, <1>13 DEF Moved, LifeInv

\* Scheduler and agents keep what is promised of a unit: no node takes a unit another one has, a
\* retry is counted only while nobody has it and max_retries allows, and what was Completed is
\* never given out again.
THEOREM ImplementsUnitLife == ASSUME Reliable PROVE Spec => KeepsUnitLife
  <1>1. Init => LifeInv /\ Life!Init
    BY LifeInit
  <1>2. LifeInv /\ [Next]_vars => LifeInv' /\ [Life!Next]_(Life!life)
    BY LifeStep
  <1> QED
    BY <1>1, <1>2, PTL DEF Spec, KeepsUnitLife, Life!Spec

=============================================================================
