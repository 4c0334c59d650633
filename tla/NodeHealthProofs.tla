------------------------- MODULE NodeHealthProofs --------------------------
(***************************************************************************)
(* Theorems about NodeHealth, for any set of nodes, any curve of phi and    *)
(* any budget of events:                                                    *)
(*   - an operation of the registry waits for a lock that it holds itself   *)
(*     only over the detector of a node whose heartbeats have come while it *)
(*     was not registered: for all others phi is computed, and with it the  *)
(*     statistics brought up to date, before Stats visits the detectors;    *)
(*   - a node that sends its heartbeats is not taken for dead;              *)
(*   - a detector that suspects a node never changes its mind by itself.    *)
(***************************************************************************)
EXTENDS NodeHealth, TLAPS

USE NodeHealthAssumption

LEMMA CappedType ==
    ASSUME NEW max \in Nat, NEW k \in 0..max
    PROVE  Capped(k + 1, max) \in 0..max
BY DEF Capped

\* Asked keeps a detector a detector, and leaves no statistics out of date that matter.
LEMMA AskedFact ==
    ASSUME NEW d \in Detector, ~d.exists => d = None
    PROVE  /\ Asked(d) \in Detector
           /\ Asked(d).exists
           /\ Asked(d).dirty => ~Trained(Asked(d))
BY DEF Asked, GetOrCreate, New, None, Trained, Detector

LEMMA NoneFact == None \in Detector /\ New \in Detector /\ New.exists /\ ~None.dirty /\ ~Trained(New)
<1>1. 0 \in 0..MinSamples /\ 0 \in 0..MaxSilence
  OBVIOUS
<1>2. None \in Detector
  BY <1>1 DEF None, Detector
<1>3. New \in Detector /\ New.exists /\ ~New.heard
  BY <1>1, <1>2 DEF New, None, Detector
<1>4. ~None.dirty
  BY DEF None
<1> QED BY <1>2, <1>3, <1>4 DEF Trained

LEMMA HeardFact ==
    ASSUME NEW d \in Detector
    PROVE  Heard(d) \in Detector /\ Heard(d).exists /\ Heard(d).silence = 0
<1> DEFINE e == GetOrCreate(d)
           k == IF d.heard THEN Capped(e.samples + 1, MinSamples) ELSE e.samples
           b == IF d.heard THEN TRUE ELSE e.dirty
<1>1. e \in Detector /\ e.exists
  BY NoneFact DEF GetOrCreate
<1>2. k \in 0..MinSamples
  BY <1>1, CappedType DEF Detector
<1>3. b \in BOOLEAN
  BY <1>1 DEF Detector
<1>4. 0 \in 0..MaxSilence
  OBVIOUS
<1>5. Heard(d) = [e EXCEPT !.heard = TRUE, !.silence = 0, !.samples = k, !.dirty = b]
  BY DEF Heard
<1> HIDE DEF e, k, b
<1> QED BY <1>1, <1>2, <1>3, <1>4, <1>5 DEF Detector

LEMMA SpendType ==
    ASSUME NEW k \in Kinds, budget \in [Kinds -> Nat], Spend(k)
    PROVE  budget' \in [Kinds -> Nat]
BY DEF Spend

-----------------------------------------------------------------------------
\* Types.

LEMMA InitType == Init => TypeOK
<1> SUFFICES ASSUME Init PROVE TypeOK
  OBVIOUS
<1>1. 0 \in 0..MaxSilence
  OBVIOUS
<1>2. det \in [Nodes -> Detector] /\ \A n \in Nodes : det[n] = None
  BY NoneFact DEF Init
<1> QED BY <1>1, <1>2 DEF Init, TypeOK, Statuses, Agents

\* Asking some of the detectors for phi, as Detect and ListOnline do.
LEMMA AskedSomeType ==
    ASSUME TypeOK, NEW S \in SUBSET Nodes,
           det' = [n \in Nodes |-> IF n \in S THEN Asked(det[n]) ELSE det[n]]
    PROVE  /\ det' \in [Nodes -> Detector]
           /\ \A n \in Nodes : ~det'[n].exists => det'[n] = None
<1>1. \A n \in Nodes : det[n] \in Detector /\ (~det[n].exists => det[n] = None)
  BY DEF TypeOK
<1>2. \A n \in Nodes : Asked(det[n]) \in Detector /\ Asked(det[n]).exists
  BY <1>1, AskedFact
<1> QED BY <1>1, <1>2

\* What the passing of an interval makes of a detector.
LEMMA TickedType ==
    ASSUME TypeOK, Tick, NEW n \in Nodes
    PROVE  /\ det'[n] \in Detector
           /\ det'[n].exists = det[n].exists /\ det'[n].dirty = det[n].dirty
           /\ det'[n].heard = det[n].heard /\ det'[n].samples = det[n].samples
           /\ det'[n].silence = IF det[n].heard THEN Later(det[n].silence) ELSE det[n].silence
           /\ ~det'[n].exists => det'[n] = None
<1>1. det[n] \in Detector /\ (~det[n].exists => det[n] = None)
  BY DEF TypeOK
<1> DEFINE k == IF det[n].heard THEN Later(det[n].silence) ELSE det[n].silence
<1>2. det'[n] = [det[n] EXCEPT !.silence = k]
  BY DEF Tick
<1>3. k \in 0..MaxSilence
  BY <1>1, CappedType DEF Detector, Later
<1>4. ~det[n].exists => k = det[n].silence
  BY <1>1 DEF None
<1> HIDE DEF k
<1>5. det'[n] \in Detector
  BY <1>1, <1>2, <1>3 DEF Detector
<1>6. /\ det'[n].exists = det[n].exists /\ det'[n].dirty = det[n].dirty
      /\ det'[n].heard = det[n].heard /\ det'[n].samples = det[n].samples
      /\ det'[n].silence = k
  BY <1>1, <1>2 DEF Detector
<1>7. ~det'[n].exists => det'[n] = None
  BY <1>1, <1>2, <1>4, <1>6 DEF Detector
<1> QED BY <1>5, <1>6, <1>7 DEF k

\* Heartbeat, the status and the detector of its node.
LEMMA HeartbeatFact ==
    ASSUME TypeOK, NEW n \in Nodes, Heartbeat(n)
    PROVE  \E d \in Detector :
             /\ det' = [det EXCEPT ![n] = d] /\ d.exists /\ d.silence = 0
             /\ n \in Registered => (d.dirty => ~Trained(d))
<1> DEFINE h == Heard(det[n])
           d == IF n \in Registered THEN Asked(h) ELSE h
<1>1. h \in Detector /\ h.exists /\ h.silence = 0
  BY HeardFact DEF TypeOK
<1>2. /\ Asked(h) \in Detector /\ Asked(h).exists /\ Asked(h).silence = 0
      /\ Asked(h).dirty => ~Trained(Asked(h))
  <2> HIDE DEF h
  <2>1. /\ Asked(h) \in Detector /\ Asked(h).exists
        /\ Asked(h).dirty => ~Trained(Asked(h))
    BY <1>1, AskedFact
  <2>2. Asked(h).silence = 0
    BY <1>1 DEF Asked, GetOrCreate, Detector
  <2> QED BY <2>1, <2>2
<1>3. det' = [det EXCEPT ![n] = d]
  BY DEF Heartbeat
<1>4. d \in Detector /\ d.exists /\ d.silence = 0 /\ (n \in Registered => (d.dirty => ~Trained(d)))
  BY <1>1, <1>2
<1> HIDE DEF d
<1> QED BY <1>3, <1>4

\* ... a registered node ends up in one of the states of AfterHeartbeat, unless the
\* goroutine hangs.
LEMMA HeartbeatStatus ==
    ASSUME TypeOK, NEW n \in Nodes, Heartbeat(n)
    PROVE  /\ wedged' \in BOOLEAN
           /\ DOMAIN status' = Nodes /\ \A m \in Nodes \ {n} : status'[m] = status[m]
           /\ n \notin Registered => status'[n] = "none"
           /\ n \in Registered /\ wedged' => status'[n] = status[n]
           /\ n \in Registered /\ ~wedged' =>
                \E busy \in BOOLEAN : status'[n] = AfterHeartbeat(status[n], Phi(det'[n]), busy)
BY DEF Heartbeat, StatsHang, TypeOK, Registered

\* Whatever comes first, ListOnline asks some of the detectors for phi.
LEMMA ListedFact ==
    ASSUME ListOnline
    PROVE  /\ \E S \in SUBSET Nodes :
                 /\ S \subseteq {n \in Nodes : status[n] \in {"Online", "Busy"}}
                 /\ det' = [n \in Nodes |-> IF n \in S THEN Asked(det[n]) ELSE det[n]]
           /\ wedged' \in BOOLEAN
<1> DEFINE listed == {n \in Nodes : status[n] \in {"Online", "Busy"}}
<1>1. PICK first \in listed :
        /\ wedged' = StatsHang([det EXCEPT ![first] = Asked(@)])
        /\ LET asked == IF wedged' THEN {first} ELSE listed
           IN  det' = [n \in Nodes |-> IF n \in asked THEN Asked(det[n]) ELSE det[n]]
  BY DEF ListOnline
<1>2. wedged' \in BOOLEAN
  BY <1>1 DEF StatsHang
<1> DEFINE S == IF wedged' THEN {first} ELSE listed
<1>3. S \in SUBSET Nodes /\ S \subseteq listed
  OBVIOUS
<1>4. det' = [n \in Nodes |-> IF n \in S THEN Asked(det[n]) ELSE det[n]]
  BY <1>1
<1> HIDE DEF S
<1> QED BY <1>2, <1>3, <1>4

LEMMA StepType ==
    ASSUME TypeOK, [Next]_vars
    PROVE  TypeOK'
<1>1. CASE UNCHANGED vars
  BY <1>1 DEF vars, TypeOK
<1>2. CASE Detect
  <2> DEFINE checked == {n \in Registered : status[n] # "Offline"}
  <2>1. det' = [n \in Nodes |-> IF n \in checked THEN Asked(det[n]) ELSE det[n]]
        /\ checked \in SUBSET Nodes
    BY <1>2 DEF Detect, Registered
  <2>2. status' \in [Nodes -> Statuses \cup {"none"}]
    <3>1. \A n \in Nodes : Verdict(n) \in {"Offline", "Unhealthy", "Online", status[n]}
      BY DEF Verdict
    <3>2. \A n \in Nodes : (IF n \in checked THEN Verdict(n) ELSE status[n])
                              \in Statuses \cup {"none"}
      BY <3>1 DEF TypeOK, Statuses
    <3> QED BY <1>2, <3>2 DEF Detect
  <2> HIDE DEF checked
  <2> QED BY <1>2, <2>1, <2>2, AskedSomeType DEF Detect, TypeOK
<1>3. CASE ListOnline
  <2>1. PICK S \in SUBSET Nodes : det' = [n \in Nodes |-> IF n \in S THEN Asked(det[n]) ELSE det[n]]
    BY <1>3, ListedFact
  <2>2. wedged' \in BOOLEAN
    BY <1>3, ListedFact
  <2> QED BY <1>3, <2>1, <2>2, AskedSomeType DEF ListOnline, TypeOK
<1>4. CASE Restart
  BY <1>4, SpendType, NoneFact DEF Restart, TypeOK, Statuses, Kinds
<1>5. CASE Tick
  <2>1. \A k \in 0..MaxSilence : Later(k) \in 0..MaxSilence
    BY CappedType DEF Later
  <2>2. det' \in [Nodes -> Detector] /\ \A n \in Nodes : ~det'[n].exists => det'[n] = None
    <3>1. det' = [n \in Nodes |-> det'[n]]
      BY <1>5 DEF Tick
    <3> QED BY <1>5, <3>1, TickedType
  <2> QED BY <1>5, <2>1, <2>2 DEF Tick, TypeOK, Agents
<1>6. ASSUME NEW n \in Nodes, Heartbeat(n) PROVE TypeOK'
  <2>1. PICK d \in Detector : det' = [det EXCEPT ![n] = d] /\ d.exists
    BY <1>6, HeartbeatFact
  <2>2. det' \in [Nodes -> Detector] /\ \A m \in Nodes : ~det'[m].exists => det'[m] = None
    BY <2>1 DEF TypeOK
  <2>3. status' \in [Nodes -> Statuses \cup {"none"}] /\ wedged' \in BOOLEAN
    <3>1. \A old, phi, busy : AfterHeartbeat(old, phi, busy) \in Statuses
      BY DEF AfterHeartbeat, Statuses
    <3>2. \E s \in Statuses \cup {"none"} : status' = status \/ status' = [status EXCEPT ![n] = s]
      BY <1>6, <3>1 DEF Heartbeat
    <3> QED BY <1>6, <3>2, HeartbeatStatus DEF TypeOK
  <2>4. silence' \in [Nodes -> 0..MaxSilence]
    <3>1. silence' = silence \/ silence' = [silence EXCEPT ![n] = 0]
      BY <1>6 DEF Heartbeat
    <3>2. 0 \in 0..MaxSilence
      OBVIOUS
    <3> QED BY <3>1, <3>2 DEF TypeOK
  <2>5. agent' \in [Nodes -> Agents]
    BY <1>6 DEF Heartbeat, TypeOK, Agents
  <2> QED BY <1>6, <2>2, <2>3, <2>4, <2>5 DEF Heartbeat, TypeOK
<1>7. ASSUME NEW n \in Nodes, Start(n) PROVE TypeOK'
  <2>1. det' \in [Nodes -> Detector] /\ \A m \in Nodes : ~det'[m].exists => det'[m] = None
    <3>1. GetOrCreate(det[n]) \in Detector /\ GetOrCreate(det[n]).exists
      BY NoneFact DEF GetOrCreate, TypeOK
    <3>2. det' = det \/ det' = [det EXCEPT ![n] = GetOrCreate(det[n])]
      BY <1>7 DEF Start, Registers
    <3> QED BY <3>1, <3>2 DEF TypeOK
  <2>2. budget' \in [Kinds -> Nat]
    BY <1>7, SpendType DEF Start, TypeOK, Kinds
  <2> QED BY <1>7, <2>1, <2>2 DEF Start, Registers, TypeOK, Statuses, Agents
<1>8. ASSUME NEW n \in Nodes, Unregister(n) PROVE TypeOK'
  BY <1>8, SpendType, NoneFact DEF Unregister, TypeOK, Statuses, Kinds
<1>9. ASSUME NEW n \in Nodes, Stop(n) PROVE TypeOK'
  BY <1>9, SpendType DEF Stop, TypeOK, Agents, Kinds
<1> QED BY <1>1, <1>2, <1>3, <1>4, <1>5, <1>6, <1>7, <1>8, <1>9 DEF Next

-----------------------------------------------------------------------------
\* Who makes a goroutine wait for itself.

\* A detector that was asked for phi is not stale, and a new one is not either.
LEMMA FreshFact ==
    ASSUME NEW d \in Detector, ~d.exists => d = None
    PROVE  ~Stale(Asked(d)) /\ (Stale(GetOrCreate(d)) => Stale(d)) /\ ~Stale(None)
<1>1. ~Stale(Asked(d))
  BY AskedFact DEF Stale
<1>2. Stale(GetOrCreate(d)) => Stale(d)
  BY NoneFact DEF GetOrCreate, Stale
<1>3. ~Stale(None)
  BY DEF None, Stale
<1> QED BY <1>1, <1>2, <1>3

\* A step makes stale only what was stale or is not registered, and hangs only over what was stale.
Cause ==
    /\ \A n \in Nodes : Stale(det'[n]) => Stale(det[n]) \/ n \notin Registered
    /\ wedged' => wedged \/ \E n \in Nodes : Stale(det[n])

LEMMA CauseOfHang == ASSUME TypeOK, [Next]_vars PROVE Cause
<1>d. \A n \in Nodes : det[n] \in Detector /\ (~det[n].exists => det[n] = None)
  BY DEF TypeOK
<1>f. \A n \in Nodes : ~Stale(Asked(det[n])) /\ (Stale(GetOrCreate(det[n])) => Stale(det[n])) /\ ~Stale(None)
  BY <1>d, FreshFact
<1>1. CASE UNCHANGED vars
  BY <1>1 DEF vars, Cause
<1>2. CASE Detect
  BY <1>2, <1>f DEF Detect, Cause
<1>3. CASE ListOnline
  <2>1. PICK S \in SUBSET Nodes : det' = [n \in Nodes |-> IF n \in S THEN Asked(det[n]) ELSE det[n]]
    BY <1>3, ListedFact
  <2>2. \A n \in Nodes : Stale(det'[n]) => Stale(det[n])
    BY <1>f, <2>1
  <2>3. wedged' => \E n \in Nodes : Stale(det[n])
    <3>1. PICK first \in Nodes : wedged' = StatsHang([det EXCEPT ![first] = Asked(@)])
      BY <1>3 DEF ListOnline
    <3> QED BY <3>1, <1>f DEF StatsHang, TypeOK
  <2> QED BY <2>2, <2>3 DEF Cause
<1>4. CASE Restart
  BY <1>4, <1>f DEF Restart, Cause
<1>5. CASE Tick
  <2>1. \A n \in Nodes : Stale(det'[n]) => Stale(det[n])
    BY <1>5, TickedType DEF Stale, Trained
  <2> QED BY <1>5, <2>1 DEF Tick, Cause
<1>6. ASSUME NEW m \in Nodes, Heartbeat(m) PROVE Cause
  <2>1. PICK d \in Detector : det' = [det EXCEPT ![m] = d] /\ (m \in Registered => (d.dirty => ~Trained(d)))
    BY <1>6, HeartbeatFact
  <2>2. \A n \in Nodes \ {m} : det'[n] = det[n]
    BY <2>1 DEF TypeOK
  <2>3. m \in Registered => ~Stale(det'[m])
    BY <2>1 DEF TypeOK, Stale
  <2>4. \A n \in Nodes : Stale(det'[n]) => Stale(det[n]) \/ n \notin Registered
    BY <2>2, <2>3
  <2>5. wedged' => wedged \/ \E n \in Nodes : Stale(det[n])
    <3>1. CASE m \in Registered
      <4>1. wedged' = \E n \in Nodes : Stale(det'[n])
        BY <1>6, <3>1 DEF Heartbeat, StatsHang
      <4> QED BY <2>2, <2>3, <3>1, <4>1
    <3>2. CASE m \notin Registered
      BY <1>6, <3>2 DEF Heartbeat
    <3> QED BY <3>1, <3>2
  <2> QED BY <2>4, <2>5 DEF Cause
<1>7. ASSUME NEW m \in Nodes, Start(m) PROVE Cause
  <2>1. det' = det \/ det' = [det EXCEPT ![m] = GetOrCreate(det[m])]
    BY <1>7 DEF Start, Registers
  <2>2. \A n \in Nodes : Stale(det'[n]) => Stale(det[n])
    BY <1>f, <2>1 DEF TypeOK
  <2> QED BY <1>7, <2>2 DEF Start, Cause
<1>8. ASSUME NEW m \in Nodes, Unregister(m) PROVE Cause
  <2>1. \A n \in Nodes : Stale(det'[n]) => Stale(det[n])
    BY <1>8, <1>f DEF Unregister, TypeOK
  <2> QED BY <1>8, <2>1 DEF Unregister, Cause
<1>9. ASSUME NEW m \in Nodes, Stop(m) PROVE Cause
  BY <1>9 DEF Stop, Cause
<1> QED BY <1>1, <1>2, <1>3, <1>4, <1>5, <1>6, <1>7, <1>8, <1>9 DEF Next

\* A goroutine of the registry waits for itself only over the detector of a node whose heartbeats
\* have come while it was not registered: for any nodes, removals of live ones, and restarts.
THEOREM RegistryReturns == Spec => HangsOnlyOverRemoved
<1>1. TypeOK /\ [Next]_vars => TypeOK'
  BY StepType
<1>2. TypeOK /\ [Next]_vars =>
        [/\ \A n \in Nodes : Stale(det'[n]) => Stale(det[n]) \/ n \notin Registered
         /\ wedged' => wedged \/ \E n \in Nodes : Stale(det[n])]_vars
  BY CauseOfHang DEF Cause
<1> QED BY InitType, <1>1, <1>2, PTL DEF Spec, HangsOnlyOverRemoved

-----------------------------------------------------------------------------
\* A node that sends its heartbeats is up.

\* No restart and no stop so far: every agent that runs has run from its start, and has
\* sent a heartbeat in each interval.
Undisturbed == budget.restart = Budget.restart /\ budget.stop = Budget.stop

\* The node's silence, and its detector's, are k intervals at most.
QuietFor(n, k) == silence[n] <= k /\ det[n].silence <= k

\* Before its heartbeat of this interval an agent was silent for one interval at most,
\* after it for none; a node that never had an agent is not registered.
Beating(n) ==
    /\ agent[n] = "off" => status[n] = "none" /\ det[n] = None
    /\ agent[n] = "due" /\ status[n] # "none" => QuietFor(n, 1)
    /\ agent[n] = "sent" /\ status[n] # "none" => QuietFor(n, 0)
    /\ status[n] # "Offline"

LiveInv ==
    /\ TypeOK
    /\ budget.restart <= Budget.restart /\ budget.stop <= Budget.stop
    /\ Undisturbed /\ ~wedged => \A n \in Nodes : Beating(n)

\* A silence of one interval is not conclusive.
LEMMA OneInterval ==
    ASSUME PhiAt[1] < 2 * Threshold, 1 < Underflow,
           NEW d \in Detector, d.silence <= 1
    PROVE  Phi(d) < 2 * Threshold
<1>1. d.silence = 0 \/ d.silence = 1
  BY DEF Detector
<1> QED BY <1>1 DEF Phi

LEMMA SpendLess ==
    ASSUME NEW k \in Kinds, budget \in [Kinds -> Nat], Spend(k)
    PROVE  /\ budget'[k] < budget[k]
           /\ \A i \in Kinds \ {k} : budget'[i] = budget[i]
BY DEF Spend

LEMMA LiveInit == Init => LiveInv
BY InitType, NoneFact DEF Init, LiveInv, Beating, Kinds

LEMMA LiveStep ==
    ASSUME PhiAt[1] < 2 * Threshold, 1 < Underflow, LiveInv, [Next]_vars
    PROVE  LiveInv'
<1>0. TypeOK /\ TypeOK'
  BY StepType DEF LiveInv
<1>k. Kinds = {"restart", "stop", "register", "unregister"} /\ budget \in [Kinds -> Nat]
      /\ Budget \in [Kinds -> Nat]
  BY <1>0 DEF Kinds, TypeOK
<1>b. /\ budget'.restart <= budget.restart /\ budget'.stop <= budget.stop
      /\ Restart => budget'.restart < budget.restart
      /\ \A n \in Nodes : Stop(n) => budget'.stop < budget.stop
  <2>1. \A k \in Kinds : Spend(k) => /\ budget'.restart <= budget.restart
                                     /\ budget'.stop <= budget.stop
                                     /\ budget'[k] < budget[k]
    <3> SUFFICES ASSUME NEW k \in Kinds, Spend(k)
                 PROVE  /\ budget'.restart <= budget.restart
                        /\ budget'.stop <= budget.stop
                        /\ budget'[k] < budget[k]
      OBVIOUS
    <3>1. budget'[k] < budget[k] /\ \A i \in Kinds \ {k} : budget'[i] = budget[i]
      BY <1>k, SpendLess
    <3>2. \A i \in Kinds : budget[i] \in Nat /\ budget'[i] \in Nat
      BY <1>k, <1>0 DEF TypeOK
    <3>3. ASSUME NEW i \in Kinds PROVE budget'[i] <= budget[i]
      <4>1. CASE i = k
        BY <3>1, <3>2, <4>1
      <4>2. CASE i # k
        <5>1. budget'[i] = budget[i]
          BY <3>1, <4>2
        <5> QED BY <3>2, <5>1
      <4> QED BY <4>1, <4>2
    <3> QED BY <1>k, <3>1, <3>3
  <2>2. UNCHANGED budget \/ \E k \in Kinds : Spend(k)
    <3>1. ListOnline => UNCHANGED budget
      BY DEF ListOnline
    <3> QED BY <1>k, <3>1 DEF Next, Detect, Tick, Restart, Heartbeat, Start, Unregister, Stop, vars
  <2>3. Restart => Spend("restart")
    BY DEF Restart
  <2>4. \A n \in Nodes : Stop(n) => Spend("stop")
    BY DEF Stop
  <2> QED BY <1>k, <2>1, <2>2, <2>3, <2>4
<1>u. budget'.restart \in Nat /\ budget'.stop \in Nat /\ budget.restart \in Nat /\ budget.stop \in Nat
      /\ Budget.restart \in Nat /\ Budget.stop \in Nat
  BY <1>0, <1>k DEF TypeOK
<1>l. budget'.restart <= Budget.restart /\ budget'.stop <= Budget.stop
      /\ (Undisturbed' => Undisturbed /\ ~Restart /\ \A n \in Nodes : ~Stop(n))
  BY <1>b, <1>u DEF LiveInv, Undisturbed
<1> SUFFICES ASSUME Undisturbed', ~wedged' PROVE \A n \in Nodes : Beating(n)'
  BY <1>0, <1>l DEF LiveInv
<1>w. ~wedged
  BY <1>l DEF Next, Detect, ListOnline, Tick, Heartbeat, Start, Unregister, vars
<1>h. \A n \in Nodes : Beating(n)
  BY <1>l, <1>w DEF LiveInv
<1>1. CASE UNCHANGED vars
  BY <1>1, <1>h DEF vars, Beating, QuietFor
<1>2. CASE Detect
  <2> SUFFICES ASSUME NEW n \in Nodes PROVE Beating(n)'
    OBVIOUS
  <2>1. Beating(n) /\ det[n] \in Detector /\ silence[n] \in 0..MaxSilence /\ agent[n] \in Agents
    BY <1>h, <1>0 DEF TypeOK
  <2>2. n \in Registered => /\ det[n].silence <= 1 /\ silence[n] <= 1
                            /\ Phi(det[n]) < 2 * Threshold
    BY <2>1, OneInterval DEF Beating, QuietFor, Registered, Agents, Detector
  <2>3. Phi(det[n]) \in Nat
    BY <2>1 DEF Phi, Detector
  <2>4. n \in Registered => Verdict(n) # "Offline" /\ Verdict(n) # "none"
    BY <2>1, <2>2, <2>3 DEF Verdict, Registered, Beating
  <2>5. UNCHANGED <<agent, silence>>
        /\ status'[n] # "Offline" /\ (status'[n] = "none" <=> status[n] = "none")
    BY <1>2, <2>1, <2>4 DEF Detect, Registered, Beating
  <2>6. /\ det'[n].silence = det[n].silence
        /\ n \notin Registered => det'[n] = det[n]
    <3>1. det'[n] = Asked(det[n]) \/ det'[n] = det[n]
      BY <1>2 DEF Detect, Registered
    <3>2. Asked(det[n]).silence = det[n].silence
      BY <2>1, <1>0 DEF Asked, GetOrCreate, New, None, Detector, TypeOK
    <3>3. n \notin Registered => det'[n] = det[n]
      BY <1>2 DEF Detect
    <3> QED BY <3>1, <3>2, <3>3
  <2> QED BY <2>1, <2>5, <2>6 DEF Beating, QuietFor, Registered
<1>3. CASE ListOnline
  <2> SUFFICES ASSUME NEW n \in Nodes PROVE Beating(n)'
    OBVIOUS
  <2>1. Beating(n) /\ det[n] \in Detector
    BY <1>h, <1>0 DEF TypeOK
  <2>2. Asked(det[n]).silence = det[n].silence
    BY <2>1, <1>0 DEF Asked, GetOrCreate, New, None, Detector, TypeOK
  <2>3. /\ det'[n].silence = det[n].silence
        /\ n \notin Registered => det'[n] = det[n]
        /\ UNCHANGED <<agent, silence, status>>
    BY <1>3, <2>2, ListedFact DEF ListOnline, Registered
  <2> QED BY <2>1, <2>3 DEF Beating, QuietFor, Registered
<1>4. CASE Tick
  <2> SUFFICES ASSUME NEW n \in Nodes PROVE Beating(n)'
    OBVIOUS
  <2>1. Beating(n) /\ det[n] \in Detector /\ silence[n] \in 0..MaxSilence /\ agent[n] \in Agents
    BY <1>h, <1>0 DEF TypeOK
  <2>2. agent[n] # "due" /\ status'[n] = status[n] /\ silence'[n] = Later(silence[n])
        /\ agent'[n] = (IF agent[n] = "sent" THEN "due" ELSE agent[n])
    BY <1>4, <1>w, <1>0 DEF Tick, TypeOK
  <2>3. det'[n].silence = (IF det[n].heard THEN Later(det[n].silence) ELSE det[n].silence)
        /\ (~det'[n].exists => det'[n] = None) /\ det'[n].exists = det[n].exists
    BY <1>0, <1>4, TickedType
  <2>4. \A k \in 0..MaxSilence : k <= 0 => Later(k) <= 1
    BY DEF Later, Capped
  <2>5. QuietFor(n, 0) => QuietFor(n, 1)'
    BY <2>1, <2>2, <2>3, <2>4 DEF QuietFor, Detector
  <2>6. det[n] = None => det'[n] = None
    BY <2>3 DEF None
  <2> QED BY <2>1, <2>2, <2>5, <2>6 DEF Beating, Agents
<1>5. ASSUME NEW m \in Nodes, Heartbeat(m) PROVE \A n \in Nodes : Beating(n)'
  <2>1. PICK d \in Detector : det' = [det EXCEPT ![m] = d] /\ d.silence = 0
    BY <1>0, <1>5, HeartbeatFact
  <2>2. /\ agent' = [agent EXCEPT ![m] = "sent"] /\ agent[m] = "due"
        /\ m \in Registered => silence' = [silence EXCEPT ![m] = 0]
    BY <1>5 DEF Heartbeat
  <2>3. ASSUME NEW n \in Nodes, n # m PROVE Beating(n)'
    <3>1. det'[n] = det[n] /\ agent'[n] = agent[n] /\ status'[n] = status[n]
          /\ silence'[n] = silence[n]
      <4>1. status'[n] = status[n]
        BY <2>3, <1>5, <1>0, HeartbeatStatus
      <4>2. silence'[n] = silence[n]
        BY <2>3, <1>5, <1>0 DEF TypeOK, Heartbeat
      <4> QED BY <2>1, <2>2, <2>3, <4>1, <4>2, <1>0 DEF TypeOK
    <3> QED BY <3>1, <1>h DEF Beating, QuietFor
  <2>4. Beating(m)'
    <3>1. agent'[m] = "sent" /\ det'[m].silence = 0
      BY <2>1, <2>2, <1>0 DEF TypeOK
    <3>2. CASE m \notin Registered
      BY <3>1, <3>2, <1>0, <1>5, HeartbeatStatus DEF Beating, Registered
    <3>3. CASE m \in Registered
      <4>1. silence'[m] = 0
        BY <2>2, <3>3, <1>0 DEF TypeOK
      <4>2. status'[m] # "Offline"
        <5>1. \A old, phi, busy : AfterHeartbeat(old, phi, busy) # "Offline"
          BY DEF AfterHeartbeat
        <5> QED BY <3>3, <5>1, <1>0, <1>5, HeartbeatStatus
      <4> QED BY <3>1, <4>1, <4>2 DEF Beating, QuietFor
    <3> QED BY <3>2, <3>3
  <2> QED BY <2>3, <2>4
<1>6. ASSUME NEW m \in Nodes, Start(m) PROVE \A n \in Nodes : Beating(n)'
  <2>1. Beating(m) /\ agent[m] = "off" /\ det[m] = None /\ m \notin Registered
    BY <1>6, <1>h DEF Start, Beating, Registered
  <2>2. det' = [det EXCEPT ![m] = GetOrCreate(None)] /\ GetOrCreate(None).silence = 0
    BY <1>6, <2>1 DEF Start, Registers, GetOrCreate, None, New
  <2>3. agent'[m] = "due" /\ status'[m] = "Online" /\ silence'[m] = 0 /\ det'[m].silence = 0
    BY <1>6, <1>0, <2>2 DEF Start, Registers, TypeOK
  <2>4. \A n \in Nodes \ {m} : /\ agent'[n] = agent[n] /\ status'[n] = status[n]
                               /\ silence'[n] = silence[n] /\ det'[n] = det[n]
    BY <1>6, <1>0, <2>2 DEF Start, Registers, TypeOK
  <2>5. Beating(m)'
    BY <2>3 DEF Beating, QuietFor
  <2> QED BY <1>h, <2>4, <2>5 DEF Beating, QuietFor
<1>7. ASSUME NEW m \in Nodes, Unregister(m) PROVE \A n \in Nodes : Beating(n)'
  <2>1. /\ status'[m] = "none" /\ det'[m] = None /\ UNCHANGED <<agent, silence>>
        /\ \A n \in Nodes \ {m} : status'[n] = status[n] /\ det'[n] = det[n]
    BY <1>7, <1>0 DEF Unregister, TypeOK
  <2> QED BY <1>h, <2>1 DEF Beating, QuietFor
<1> QED BY <1>l, <1>1, <1>2, <1>3, <1>4, <1>5, <1>6, <1>7 DEF Next

\* A node whose agent runs and sends its heartbeats is not taken for dead, as long as the
\* scheduler has not started again and no agent has stopped: whatever the curve of phi, if
\* only a silence of one interval is not conclusive.
THEOREM LiveNodesStayUp ==
    ASSUME PhiAt[1] < 2 * Threshold, 1 < Underflow
    PROVE  Spec => []LiveNodeIsUp
<1>1. LiveInv /\ [Next]_vars => LiveInv'
  BY LiveStep
<1>2. LiveInv => LiveNodeIsUp
  BY DEF LiveInv, Undisturbed, Beating, LiveNodeIsUp, Registered
<1> QED BY LiveInit, <1>1, <1>2, PTL DEF Spec

-----------------------------------------------------------------------------
\* A detector that suspects a node does not change its mind.

\* Phi of an unhealthy node has reached the threshold.
Suspected == \A n \in Nodes : status[n] = "Unhealthy" => Trained(det[n]) /\ Phi(det[n]) >= Threshold

SuspectInv == TypeOK /\ (~wedged => Suspected)

\* With the silence phi grows, also where its probability is rounded to zero.
LEMMA PhiGrows ==
    ASSUME NEW d \in Detector, NEW e \in Detector, Trained(d), Trained(e),
           e.silence = d.silence \/ e.silence = Later(d.silence), Phi(d) >= Threshold
    PROVE  Phi(e) >= Threshold
<1>1. PICK s \in 0..MaxSilence : d.silence = s
  BY DEF Detector
<1>2. PICK t \in 0..MaxSilence : e.silence = t
  BY DEF Detector
<1>3. t = s \/ (s < MaxSilence /\ t = s + 1)
  BY <1>1, <1>2 DEF Later, Capped
<1>4. PhiAt[s] \in Nat /\ PhiAt[t] \in Nat /\ PhiAt[s] <= PhiAt[t]
  BY <1>3
<1>5. Phi(d) = IF s >= Underflow THEN Threshold + 1 ELSE PhiAt[s]
  BY <1>1 DEF Phi
<1>6. Phi(e) = IF t >= Underflow THEN Threshold + 1 ELSE PhiAt[t]
  BY <1>2 DEF Phi
<1> QED BY <1>3, <1>4, <1>5, <1>6

\* Right after a heartbeat phi is zero.
LEMMA PhiZero ==
    ASSUME NEW d \in Detector, d.silence = 0
    PROVE  Phi(d) = 0
<1>1. ~(0 >= Underflow)
  OBVIOUS
<1> QED BY <1>1 DEF Phi

\* Asking for phi does not change it.
LEMMA AskedPhi ==
    ASSUME NEW d \in Detector, ~d.exists => d = None
    PROVE  Phi(Asked(d)) = Phi(d) /\ (Trained(Asked(d)) <=> Trained(d))
BY DEF Asked, GetOrCreate, New, None, Trained, Phi, Detector

LEMMA PhiNat ==
    ASSUME NEW d \in Detector
    PROVE  Phi(d) \in Nat /\ (Phi(d) >= Threshold => Trained(d))
BY DEF Phi, Detector

LEMMA SuspectInit == Init => SuspectInv
BY InitType DEF Init, SuspectInv, Suspected

\* The invariant and the action property, in one pass over the steps.
LEMMA SuspectStep ==
    ASSUME SuspectInv, [Next]_vars
    PROVE  /\ SuspectInv'
           /\ \A n \in Nodes :
                status[n] = "Unhealthy" /\ status'[n] \in {"Online", "Busy"} /\ budget'.restart = budget.restart
                  => silence'[n] = 0
<1> DEFINE Mind == \A n \in Nodes :
              status[n] = "Unhealthy" /\ status'[n] \in {"Online", "Busy"} /\ budget'.restart = budget.restart
                => silence'[n] = 0
<1>0. TypeOK /\ TypeOK'
  BY StepType DEF SuspectInv
<1>d. \A n \in Nodes : det[n] \in Detector /\ (~det[n].exists => det[n] = None) /\ det'[n] \in Detector
  BY <1>0 DEF TypeOK
<1>s. ~wedged => Suspected
  BY DEF SuspectInv
<1>1. CASE UNCHANGED vars
  BY <1>0, <1>1, <1>s DEF vars, SuspectInv, Suspected, Trained, Phi
<1>2. CASE Detect
  <2> DEFINE checked == {n \in Registered : status[n] # "Offline"}
  <2>1. ASSUME NEW n \in Nodes
        PROVE  /\ status[n] = "Unhealthy" => status'[n] \in {"Unhealthy", "Offline"}
               /\ status'[n] = "Unhealthy" => Trained(det'[n]) /\ Phi(det'[n]) >= Threshold
    <3>1. CASE n \in checked
      <4>1. status'[n] = Verdict(n) /\ det'[n] = Asked(det[n])
        BY <1>2, <3>1 DEF Detect
      <4>2. Phi(det'[n]) = Phi(det[n]) /\ (Trained(det'[n]) <=> Trained(det[n]))
            /\ Phi(det[n]) \in Nat /\ (Phi(det[n]) >= Threshold => Trained(det[n]))
        BY <4>1, <1>d, AskedPhi, PhiNat
      <4>3. status[n] = "Unhealthy" => Phi(det[n]) >= Threshold
        BY <1>2, <1>s DEF Detect, Suspected
      <4> QED BY <4>1, <4>2, <4>3 DEF Verdict
    <3>2. CASE n \notin checked
      <4>1. status'[n] = status[n] /\ status[n] # "Unhealthy"
        BY <1>2, <3>2 DEF Detect, Registered
      <4> QED BY <4>1
    <3> QED BY <3>1, <3>2
  <2> QED BY <1>0, <2>1 DEF SuspectInv, Suspected
<1>3. CASE ListOnline
  <2>1. \A n \in Nodes : det'[n] = Asked(det[n]) \/ det'[n] = det[n]
    BY <1>3, ListedFact
  <2>2. \A n \in Nodes : Phi(det'[n]) = Phi(det[n]) /\ (Trained(det'[n]) <=> Trained(det[n]))
    BY <1>d, <2>1, AskedPhi
  <2> QED BY <1>0, <1>3, <1>s, <2>2 DEF ListOnline, SuspectInv, Suspected
<1>4. CASE Restart
  <2>1. \A n \in Nodes : status'[n] # "Unhealthy"
    BY <1>4 DEF Restart
  <2>2. budget'.restart # budget.restart
    BY <1>4, <1>0 DEF Restart, Spend, TypeOK, Kinds
  <2> QED BY <1>0, <2>1, <2>2 DEF SuspectInv, Suspected
<1>5. CASE Tick
  <2>1. ASSUME NEW n \in Nodes, Trained(det[n]), Phi(det[n]) >= Threshold
        PROVE  Trained(det'[n]) /\ Phi(det'[n]) >= Threshold
    <3>1. Trained(det'[n]) /\ det'[n].silence = Later(det[n].silence)
      BY <1>0, <1>5, <2>1, TickedType DEF Trained
    <3> QED BY <1>d, <2>1, <3>1, PhiGrows
  <2> QED BY <1>0, <1>5, <1>s, <2>1 DEF Tick, SuspectInv, Suspected
<1>6. ASSUME NEW m \in Nodes, Heartbeat(m) PROVE SuspectInv' /\ Mind
  <2>1. PICK d \in Detector : det' = [det EXCEPT ![m] = d] /\ d.silence = 0
    BY <1>0, <1>6, HeartbeatFact
  <2>2. Phi(det'[m]) = 0
    BY <1>0, <2>1, PhiZero DEF TypeOK
  <2>3. /\ \A n \in Nodes \ {m} : status'[n] = status[n] /\ det'[n] = det[n]
        /\ m \notin Registered => status'[m] = "none"
        /\ m \in Registered => silence'[m] = 0
        /\ m \in Registered /\ ~wedged' => status'[m] # "Unhealthy"
    <3>1. /\ \A n \in Nodes \ {m} : status'[n] = status[n] /\ det'[n] = det[n]
          /\ m \notin Registered => status'[m] = "none"
      <4>1. \A n \in Nodes \ {m} : det'[n] = det[n]
        BY <1>0, <2>1 DEF TypeOK
      <4> QED BY <1>0, <1>6, <4>1, HeartbeatStatus
    <3>2. m \in Registered => silence'[m] = 0
      BY <1>0, <1>6 DEF Heartbeat, TypeOK
    <3>3. \A old, busy : AfterHeartbeat(old, 0, busy) # "Unhealthy"
      BY DEF AfterHeartbeat
    <3>4. m \in Registered /\ ~wedged' => status'[m] # "Unhealthy"
      BY <1>0, <1>6, <2>2, <3>3, HeartbeatStatus
    <3> QED BY <3>1, <3>2, <3>4
  <2>4. Suspected
    BY <1>6, <1>s DEF Heartbeat
  <2>5. ~wedged' => Suspected'
    BY <2>3, <2>4 DEF Suspected
  <2>6. Mind
    BY <2>3
  <2> QED BY <1>0, <2>5, <2>6 DEF SuspectInv
<1>7. ASSUME NEW m \in Nodes, Start(m) PROVE SuspectInv' /\ Mind
  <2>1. /\ status'[m] = "Online" /\ silence'[m] = 0 /\ ~wedged
        /\ \A n \in Nodes \ {m} : status'[n] = status[n] /\ det'[n] = det[n]
    BY <1>7, <1>0 DEF Start, Registers, TypeOK
  <2> QED BY <1>0, <1>s, <2>1 DEF SuspectInv, Suspected
<1>8. ASSUME NEW m \in Nodes, Unregister(m) PROVE SuspectInv' /\ Mind
  <2>1. /\ status'[m] = "none" /\ ~wedged
        /\ \A n \in Nodes \ {m} : status'[n] = status[n] /\ det'[n] = det[n]
    BY <1>8, <1>0 DEF Unregister, TypeOK
  <2> QED BY <1>0, <1>s, <2>1 DEF SuspectInv, Suspected
<1>9. ASSUME NEW m \in Nodes, Stop(m) PROVE SuspectInv' /\ Mind
  BY <1>0, <1>9, <1>s DEF Stop, SuspectInv, Suspected
<1> QED BY <1>1, <1>2, <1>3, <1>4, <1>5, <1>6, <1>7, <1>8, <1>9 DEF Next

\* Only a heartbeat or a registration makes an unhealthy node available again: as silence
\* goes on, the detector never changes its mind, not even where the probability behind phi
\* is too small to be represented and phi becomes a fixed value.
THEOREM SuspicionLasts == Spec => RecoversByHeartbeat
<1>1. SuspectInv /\ [Next]_vars => SuspectInv'
  BY SuspectStep
<1>2. SuspectInv /\ [Next]_vars =>
        [\A n \in Nodes :
            status[n] = "Unhealthy" /\ status'[n] \in {"Online", "Busy"} /\ budget'.restart = budget.restart
              => silence'[n] = 0]_vars
  BY SuspectStep
<1> QED BY SuspectInit, <1>1, <1>2, PTL DEF Spec, RecoversByHeartbeat
=============================================================================
