---------------------------- MODULE LogShipping ----------------------------
(***************************************************************************)
(* What hot standby promises: the primary's changes form one log, and a     *)
(* standby's store is the result of the first so many entries of it, in     *)
(* order, none left out and none applied twice.                             *)
(***************************************************************************)
EXTENDS Naturals, Sequences

CONSTANTS
    Standbys,      \* standby schedulers
    Ops,           \* changes of the store
    Empty,         \* the store before the first change
    After(_, _)    \* After(store, op) is the store after the change

VARIABLES
    log,      \* every change the primary has logged
    replica,  \* per standby, its store
    pos       \* per standby, how many entries it has replayed

vars == <<log, replica, pos>>

LogChange(op) ==
    /\ log' = Append(log, op)
    /\ UNCHANGED <<replica, pos>>

ReplayNext(s) ==
    /\ pos[s] < Len(log)
    /\ pos' = [pos EXCEPT ![s] = @ + 1]
    /\ replica' = [replica EXCEPT ![s] = After(@, log[pos[s] + 1])]
    /\ UNCHANGED log

Init ==
    /\ log = <<>>
    /\ replica = [s \in Standbys |-> Empty]
    /\ pos = [s \in Standbys |-> 0]

Next ==
    \/ \E op \in Ops : LogChange(op)
    \/ \E s \in Standbys : ReplayNext(s)

Spec == Init /\ [][Next]_vars
=============================================================================
