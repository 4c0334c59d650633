------------------------------ MODULE UnitLife ------------------------------
(***************************************************************************)
(* What scheduling promises of a unit, whatever goes on between scheduler   *)
(* and agents: one node at a time works on it, it passes from one node to   *)
(* another only by being put down in between, it is tried again only while  *)
(* nobody works on it and no more often than max_retries allows, and once   *)
(* it is completed nobody takes it up again.                                *)
(***************************************************************************)
EXTENDS Naturals

CONSTANTS Units, Nodes, NoNode, MaxRetries

VARIABLES
    holder,    \* the node that works on each unit, or is told to
    tries,     \* how often each unit was sent back to the queue
    completed  \* the units that were completed

life == <<holder, tries, completed>>

Init ==
    /\ holder = [u \in Units |-> NoNode]
    /\ tries = [u \in Units |-> 0]
    /\ completed = {}

Free(u) == holder[u] = NoNode /\ u \notin completed

\* A node is given a unit.
Take(u, n) ==
    /\ Free(u)
    /\ holder' = [holder EXCEPT ![u] = n]
    /\ UNCHANGED <<tries, completed>>

\* Units are put down: an execution ends, or is lost with a connection or a process.
Release(S) ==
    /\ holder' = [u \in Units |-> IF u \in S THEN NoNode ELSE holder[u]]
    /\ UNCHANGED <<tries, completed>>

\* A unit is to be tried again.
Retry(u) ==
    /\ Free(u)
    /\ tries[u] < MaxRetries
    /\ tries' = [tries EXCEPT ![u] = @ + 1]
    /\ UNCHANGED <<holder, completed>>

Complete(u) ==
    /\ Free(u)
    /\ completed' = completed \cup {u}
    /\ UNCHANGED <<holder, tries>>

Next ==
    \/ \E u \in Units, n \in Nodes : Take(u, n)
    \/ \E S \in SUBSET Units : Release(S)
    \/ \E u \in Units : Retry(u) \/ Complete(u)

Spec == Init /\ [][Next]_life
=============================================================================
