----------------------------- MODULE MCFailures -----------------------------
(***************************************************************************)
(* Who falls silent, for TLC: nodes, for the registry (NodeHealth), and the *)
(* primary, for its standby (Replication).  They have no variable in        *)
(* common, so a behaviour is one of a single instance, which part names,    *)
(* and the other module stands still.                                       *)
(***************************************************************************)
EXTENDS NodeHealth, TLC

CONSTANTS n1, n2, Absent, k1, k2, w1, w2, p

\* The scheduler starts again, an agent stops and returns or another one starts, a node is removed.
AllEvents == [k \in Kinds |-> IF k = "register" THEN 2 ELSE 1]

\* phi with a threshold of 2: normal for one interval of silence, suspect for two,
\* certain for three, and rounded off (Underflow) from four on.
Curve == [s \in 0..MaxSilence |-> CASE s <= 1 -> 0 [] s = 2 -> 2 [] s = 3 -> 4 [] OTHER -> 5]

Keys == {k1, k2}
Writers == {w1, w2}

\* Each writer works on a key of its own.
OwnKeys == (w1 :> {k1}) @@ (w2 :> {k2})

\* So many writes, and each of these faults once.
Events(writes, faults) ==
    [k \in {"write", "crash", "reboot", "rebuild", "drop", "cut", "checkpoint"} |->
        IF k = "write" THEN writes ELSE IF k \in faults THEN 1 ELSE 0]

VARIABLES part, files, writer, up, db, pend, ack, check, link, sb, journal, faults

\* What a standby catches up after: a stream that breaks, or a restart of the standby, while
\* the log is cleaned up and the network fails.
Interrupted(fault) == INSTANCE Replication WITH
    Values <- {"v"}, JobKeys <- {k2}, Standbys <- {p}, Capacity <- 2, MaxFailures <- 2,
    Owner <- OwnKeys, Budget <- Events(3, {fault, "checkpoint", "cut"}), budget <- faults

\* Everything that may happen before a standby takes over.
Outages == INSTANCE Replication WITH
    Values <- {"v"}, JobKeys <- {k2}, Standbys <- {p}, Capacity <- 2, MaxFailures <- 2,
    Owner <- OwnKeys, Budget <- Events(2, {"crash", "cut", "drop", "reboot", "rebuild"}), budget <- faults

ASSUME /\ Interrupted("drop")!ReplicationAssumption /\ Interrupted("reboot")!ReplicationAssumption
       /\ Outages!ReplicationAssumption

replicaVars == <<files, writer, up, db, pend, ack, check, link, sb, journal, faults>>
all == <<part, vars, replicaVars>>

FailuresInit ==
    /\ Init
    /\ \/ part = "interrupted" /\ \E fault \in {"drop", "reboot"} : Interrupted(fault)!Init
       \/ part \in {"outages", "health"} /\ Outages!Init

\* A step of one part; the two of Replication differ in the budget they begin with.
Health(A) == part = "health" /\ A /\ UNCHANGED <<part, replicaVars>>
Replica(A) == part \in {"interrupted", "outages"} /\ A /\ UNCHANGED <<part, vars>>

FailuresNext == Health(Next) \/ Replica(Outages!Next)

\* What NodeHealth asks for, and the goroutines of Replication!Fairness, where they matter.
FailuresFairness ==
    /\ WF_all(Health(Tick)) /\ WF_all(Health(Detect))
    /\ \A n \in Nodes : WF_all(Health(Heartbeat(n)))
    /\ WF_all(Replica(Outages!CheckpointNext))
    /\ \A w \in Writers : WF_all(Replica(Outages!LogEntry(w)))
    /\ WF_all(Replica(Outages!Connect(p)))
    /\ WF_all(Replica(Outages!SyncNext(p)))
    /\ WF_all(Replica(Outages!HealthNext(p)))

FailuresSpec == FailuresInit /\ [][FailuresNext]_all /\ FailuresFairness

-----------------------------------------------------------------------------
\* The properties of Replication, each of the instances that it is about.
CatchesUp == part = "interrupted" => Outages!CatchesUp
FailsOver == part = "outages" => Outages!FailsOver

\* What standby.go says of a promotion, and the code does not keep.
PromotedStopsReplaying == Outages!PromotedStopsReplaying
=============================================================================
