----------------------------- MODULE NodeHealth -----------------------------
(***************************************************************************)
(* The node registry (scheduler/internal/registry) and its phi detectors    *)
(* (pkg/phidetector): heartbeats, failure detection, registration and       *)
(* removal, and a restart of the scheduler.                                 *)
(*                                                                         *)
(* Time is counted in heartbeat intervals.  A running agent sends one       *)
(* heartbeat in each; the detection loop runs whenever it likes.            *)
(*                                                                         *)
(* Every operation holds the registry's lock from beginning to end, so each *)
(* is one step, with one exception: Manager.Stats asks a detector for phi   *)
(* while it holds that detector's read lock, and phi takes the write lock   *)
(* if the cached statistics are out of date.  The goroutine then waits for  *)
(* itself, and the registry's lock is never released.                       *)
(***************************************************************************)
EXTENDS Integers, FiniteSets

CONSTANTS
    Nodes,
    MinSamples,   \* failure_detection.min_samples
    PhiAt,        \* phi after so many intervals of silence
    Underflow,    \* silence from which the probability behind phi is rounded to 0
    Threshold,    \* failure_detection.phi_threshold
    Timeout,      \* failure_detection.heartbeat_timeout
    MaxSilence,   \* silence is not counted beyond this
    Budget        \* how often each kind of event may happen

Kinds == {"restart", "stop", "register", "unregister"}

ASSUME NodeHealthAssumption ==
    /\ MinSamples \in Nat \ {0}
    /\ Threshold \in Nat \ {0}
    /\ MaxSilence \in Nat /\ Timeout \in 1..MaxSilence - 1
    /\ Underflow \in Nat
    /\ PhiAt \in [0..MaxSilence -> Nat]
    /\ PhiAt[0] = 0
    /\ \A s \in 0..MaxSilence - 1 : PhiAt[s] <= PhiAt[s + 1]
    /\ Underflow \in 0..MaxSilence => PhiAt[Underflow] > Threshold
    /\ Budget \in [Kinds -> Nat]

VARIABLES
    status,   \* Registry.nodes: status of the nodes that are registered
    silence,  \* time since Node.LastHeartbeat, per node
    det,      \* Manager.detectors
    stored,   \* the nodes in the database
    since,    \* time since the LastHeartbeat stored with them
    agent,    \* per node, its agent process
    wedged,   \* a goroutine waits for itself and holds the registry's lock
    budget

vars == <<status, silence, det, stored, since, agent, wedged, budget>>

Statuses == {"Online", "Busy", "Unhealthy", "Offline"}
Agents == {"off", "due", "sent"}  \* not running; to send its heartbeat; has sent it

None == [exists |-> FALSE, samples |-> 0, dirty |-> FALSE, heard |-> FALSE, silence |-> 0]
New == [None EXCEPT !.exists = TRUE, !.dirty = TRUE]
GetOrCreate(d) == IF d.exists THEN d ELSE New

Spend(kind) == budget[kind] > 0 /\ budget' = [budget EXCEPT ![kind] = @ - 1]

Registered == {n \in Nodes : status[n] # "none"}

-----------------------------------------------------------------------------
\* Detectors.

Capped(k, max) == IF k < max THEN k ELSE max

Trained(d) == d.heard /\ d.samples >= MinSamples

Heard_mutKeepsTime(d) ==
    [GetOrCreate(d) EXCEPT !.heard = TRUE,
        !.samples = IF d.heard THEN Capped(@ + 1, MinSamples) ELSE @, !.dirty = IF d.heard THEN TRUE ELSE @]

Heard_mutNoWindow(d) ==
    [GetOrCreate(d) EXCEPT !.heard = TRUE, !.silence = 0,
        !.samples = IF d.heard THEN @ + 1 ELSE @, !.dirty = IF d.heard THEN TRUE ELSE @]

\* Detector.ReportHeartbeat: from the second one on, each heartbeat is a sample.
Heard(d) ==
    [GetOrCreate(d) EXCEPT !.heard = TRUE, !.silence = 0,
        !.samples = IF d.heard THEN Capped(@ + 1, MinSamples) ELSE @, !.dirty = IF d.heard THEN TRUE ELSE @]

Phi_mutNoGuard(d) ==
    IF ~Trained(d) THEN 0
    ELSE IF d.silence >= Underflow THEN 0
    ELSE PhiAt[d.silence]

\* Detector.Phi: zero while there are too few samples; a fixed value once the
\* probability has been rounded to zero.
Phi(d) ==
    IF ~Trained(d) THEN 0
    ELSE IF d.silence >= Underflow THEN Threshold + 1
    ELSE PhiAt[d.silence]

\* ... and it brings the statistics up to date on the way.  Phi on a node without a
\* detector creates one (GetOrCreate).
Asked_mutLeavesDirty(d) == GetOrCreate(d)

Asked(d) == [GetOrCreate(d) EXCEPT !.dirty = IF Trained(d) THEN FALSE ELSE @]

\* Phi would have to bring the statistics of this detector up to date, ...
Stale(d) == d.exists /\ d.dirty /\ Trained(d)

\* ... and Manager.Stats visits every detector there is.
StatsHang(ds) == \E n \in Nodes : Stale(ds[n])

-----------------------------------------------------------------------------
\* The registry.

\* ReportHeartbeat's state machine, for a node whose phi has just been computed.
AfterHeartbeat(old, phi, busy) ==
    CASE old = "Offline" -> "Online"
      [] old = "Unhealthy" -> IF phi < Threshold THEN "Online" ELSE "Unhealthy"
      [] OTHER -> IF phi >= Threshold THEN "Unhealthy" ELSE IF busy THEN "Busy" ELSE "Online"

\* The detector hears of every heartbeat, whether the node is registered or not.
Heartbeat(n) ==
    /\ ~wedged
    /\ agent[n] = "due"
    /\ agent' = [agent EXCEPT ![n] = "sent"]
    /\ IF n \notin Registered
       THEN det' = [det EXCEPT ![n] = Heard(@)] /\ UNCHANGED <<status, silence, wedged>>
       ELSE /\ det' = [det EXCEPT ![n] = Asked(Heard(@))]
            /\ silence' = [silence EXCEPT ![n] = 0]
            /\ wedged' = StatsHang(det')
            /\ \E busy \in BOOLEAN :
                 status' = IF wedged' THEN status
                           ELSE [status EXCEPT ![n] = AfterHeartbeat(@, Phi(det'[n]), busy)]
    /\ UNCHANGED <<stored, since, budget>>

Verdict_mutNoTimeout(n) ==
    LET phi == Phi(det[n])
    IN  IF phi >= 2 * Threshold THEN "Offline"
        ELSE IF phi >= Threshold THEN "Unhealthy"
        ELSE IF status[n] = "Unhealthy" THEN "Online" ELSE status[n]

\* What detectAndTransition makes of node n.
Verdict(n) ==
    LET phi == Phi(det[n])
    IN  IF silence[n] > Timeout \/ phi >= 2 * Threshold THEN "Offline"
        ELSE IF phi >= Threshold THEN "Unhealthy"
        ELSE IF status[n] = "Unhealthy" THEN "Online" ELSE status[n]

\* Offline nodes are left alone.
Detect ==
    LET checked == {n \in Registered : status[n] # "Offline"}
    IN  /\ ~wedged
        /\ status' = [n \in Nodes |-> IF n \in checked THEN Verdict(n) ELSE status[n]]
        /\ det' = [n \in Nodes |-> IF n \in checked THEN Asked(det[n]) ELSE det[n]]
        /\ UNCHANGED <<silence, stored, since, agent, wedged, budget>>

\* ListOnline, for the scheduling cycle: phi of a node that is up and then the statistics of all,
\* for one such node after the other, in any order.  If the first returns, all do.
ListOnline ==
    LET listed == {n \in Nodes : status[n] \in {"Online", "Busy"}}
    IN  /\ ~wedged
        /\ \E first \in listed :
              /\ wedged' = StatsHang([det EXCEPT ![first] = Asked(@)])
              /\ LET asked == IF wedged' THEN {first} ELSE listed
                 IN  det' = [n \in Nodes |-> IF n \in asked THEN Asked(det[n]) ELSE det[n]]
        /\ UNCHANGED <<status, silence, stored, since, agent, budget>>

\* Register, for a new node or one that registers again, and SaveNode.  A detector that
\* is there is kept as it is.
Registers(n) ==
    /\ status' = [status EXCEPT ![n] = "Online"]
    /\ silence' = [silence EXCEPT ![n] = 0]
    /\ det' = IF n \in Registered THEN det ELSE [det EXCEPT ![n] = GetOrCreate(@)]
    /\ stored' = stored \cup {n}
    /\ since' = [since EXCEPT ![n] = 0]

\* An agent starts: it registers and then sends its first heartbeat.
Start(n) ==
    /\ ~wedged
    /\ agent[n] = "off"
    /\ Spend("register")
    /\ Registers(n)
    /\ agent' = [agent EXCEPT ![n] = "due"]
    /\ UNCHANGED wedged

\* UnregisterNode, from the command line or the user interface: the agent is not told.
Unregister(n) ==
    /\ ~wedged
    /\ n \in Registered
    /\ Spend("unregister")
    /\ status' = [status EXCEPT ![n] = "none"]
    /\ det' = [det EXCEPT ![n] = None]
    /\ stored' = stored \ {n}
    /\ UNCHANGED <<silence, since, agent, wedged>>

\* The scheduler's process starts again: LoadNodes, no detectors, the times of registration.
Restart ==
    /\ Spend("restart")
    /\ status' = [n \in Nodes |-> IF n \in stored THEN "Online" ELSE "none"]
    /\ silence' = since
    /\ det' = [n \in Nodes |-> None]
    /\ wedged' = FALSE
    /\ UNCHANGED <<stored, since, agent>>

-----------------------------------------------------------------------------
Stop(n) ==
    /\ agent[n] # "off"
    /\ Spend("stop")
    /\ agent' = [agent EXCEPT ![n] = "off"]
    /\ UNCHANGED <<status, silence, det, stored, since, wedged>>

Later(k) == Capped(k + 1, MaxSilence)

\* One heartbeat interval passes.  Running agents keep up, unless nobody answers them.
Tick ==
    /\ \A n \in Nodes : agent[n] # "due" \/ wedged
    /\ silence' = [n \in Nodes |-> Later(silence[n])]
    /\ since' = [n \in Nodes |-> Later(since[n])]
    /\ det' = [n \in Nodes |-> [det[n] EXCEPT !.silence = IF det[n].heard THEN Later(@) ELSE @]]
    /\ agent' = [n \in Nodes |-> IF agent[n] = "sent" THEN "due" ELSE agent[n]]
    /\ UNCHANGED <<status, stored, wedged, budget>>

Init ==
    /\ status = [n \in Nodes |-> "none"]
    /\ silence = [n \in Nodes |-> 0]
    /\ det = [n \in Nodes |-> None]
    /\ stored = {}
    /\ since = [n \in Nodes |-> 0]
    /\ agent = [n \in Nodes |-> "off"]
    /\ wedged = FALSE
    /\ budget = Budget

Next ==
    \/ Detect \/ ListOnline \/ Restart \/ Tick
    \/ \E n \in Nodes : Heartbeat(n) \/ Start(n) \/ Unregister(n) \/ Stop(n)

Spec == Init /\ [][Next]_vars

\* Time passes, agents send, the detection loop runs.
Fairness == WF_vars(Tick) /\ WF_vars(Detect) /\ \A n \in Nodes : WF_vars(Heartbeat(n))

LiveSpec == Spec /\ Fairness

-----------------------------------------------------------------------------
\* Properties.

Detector == [exists : BOOLEAN, samples : 0..MinSamples, dirty : BOOLEAN, heard : BOOLEAN,
             silence : 0..MaxSilence]

\* The variables have their types; only a detector that exists has heard anything.
TypeOK ==
    /\ status \in [Nodes -> Statuses \cup {"none"}]
    /\ silence \in [Nodes -> 0..MaxSilence]
    /\ det \in [Nodes -> Detector]
    /\ \A n \in Nodes : ~det[n].exists => det[n] = None
    /\ stored \subseteq Nodes
    /\ since \in [Nodes -> 0..MaxSilence]
    /\ agent \in [Nodes -> Agents]
    /\ wedged \in BOOLEAN
    /\ budget \in [Kinds -> Nat]

\* A goroutine of the registry waits for itself (Stats, Phi, updateStats), and with it heartbeats
\* and scheduling, only over a detector that was stale before, and a detector becomes stale only
\* by a heartbeat of a node that is not registered: of one that was removed while its agent runs.
HangsOnlyOverRemoved ==
    [][/\ \A n \in Nodes : Stale(det'[n]) => Stale(det[n]) \/ n \notin Registered
       /\ wedged' => wedged \/ \E n \in Nodes : Stale(det[n])]_vars

\* A node whose agent runs and sends its heartbeats is not taken for dead, as long as the
\* scheduler has not started again and no agent has stopped.  (The scheduler takes the units
\* of an offline node away from it at once.)
LiveNodeIsUp ==
    budget.restart = Budget.restart /\ budget.stop = Budget.stop
      => \A n \in Registered : agent[n] # "off" /\ ~wedged => status[n] # "Offline"

\* Only a heartbeat or a registration makes an unhealthy node available again: as silence
\* goes on, the detector never changes its mind, not even when the probability behind phi
\* becomes too small to be represented.
RecoversByHeartbeat ==
    [][\A n \in Nodes :
         status[n] = "Unhealthy" /\ status'[n] \in {"Online", "Busy"} /\ budget'.restart = budget.restart
           => silence'[n] = 0]_vars

\* A node whose agent is gone ends up offline, or is removed, or its agent comes back, unless
\* the registry hangs.
DeadNodeGoesOffline ==
    \A n \in Nodes :
       (n \in Registered /\ agent[n] = "off")
         ~> (status[n] \in {"Offline", "none"} \/ agent[n] # "off" \/ wedged)
=============================================================================
