---------------------------- MODULE MCScheduler ----------------------------
(***************************************************************************)
(* Small instances of Scheduler for TLC.                                    *)
(***************************************************************************)
EXTENDS Claims

CONSTANTS a, b, c, s1, s2, j1, n1, n2

\* One stage of two units.
PairStageOf == [u \in Units |-> s1]

\* Two stages: a and b (where there is a b) in the first, c in the second.
ChainStageOf == [u \in Units |-> IF u = c THEN s2 ELSE s1]

OneJobOf == [s \in Stages |-> j1]

NoDeps == [s \in Stages |-> {}]
ChainDeps == [s \in Stages |-> IF s = s2 THEN {s1} ELSE {}]

Everywhere == Units \X Nodes

\* a runs on the first node only and the other units on the second.
Apart == {<<u, n>> \in Everywhere : (u = a) <=> (n = n1)}

\* What may go wrong in a run: one event of each of these kinds.
OneOf(kinds) == [k \in Kinds |-> IF k \in kinds THEN 1 ELSE 0]

NoFaults == OneOf({})
RetryFaults == OneOf({"unregister", "pull", "delay"})
ExecutionFaults == OneOf({"crash", "agent", "lose", "refuse", "delay"})
NodeFaults == OneOf({"flap"})
OneCancel == OneOf({"cancel"})
OneUnregister == OneOf({"unregister"})

\* A behaviour with the faults of Budget, or one with a cancellation and a failed submission.
EitherInit ==
    /\ StoreInit /\ EngineInit /\ ReportsInit /\ AgentInit /\ ControlInit
    /\ budget \in {Budget, OneOf({"unregister", "pull", "cancel", "submit"})}
    /\ done = {}

EitherSpec == EitherInit /\ [][Next]_vars
=============================================================================
