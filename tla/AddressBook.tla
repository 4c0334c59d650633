---------------------------- MODULE AddressBook -----------------------------
(***************************************************************************)
(* What registration promises: a list of members, each with an overlay      *)
(* address that no other member has, and that it keeps as long as it is a   *)
(* member.                                                                  *)
(***************************************************************************)
EXTENDS Naturals

CONSTANTS IDs, Addresses, Nobody

VARIABLE book  \* per node ID its address, or Nobody

Init == book = [i \in IDs |-> Nobody]

\* A node joins with an address of its own.
Join(i, a) ==
    /\ book[i] = Nobody
    /\ \A j \in IDs : book[j] # a
    /\ book' = [book EXCEPT ![i] = a]

\* A node leaves.
Leave(i) ==
    /\ book[i] # Nobody
    /\ book' = [book EXCEPT ![i] = Nobody]

Next == \E i \in IDs : Leave(i) \/ \E a \in Addresses : Join(i, a)

Spec == Init /\ [][Next]_book
=============================================================================
