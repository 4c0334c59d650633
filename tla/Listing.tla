------------------------------ MODULE Listing -------------------------------
(***************************************************************************)
(* ListJobs and ListNodes (scheduler/internal/server): a client reads a     *)
(* list page by page, with the token of one answer in the next call, while  *)
(* the list changes.  The token is an offset into the list that the next    *)
(* call makes anew: jobs in the order of their keys in the store, nodes in  *)
(* the order of a Go map, which is another one every time.                  *)
(***************************************************************************)
EXTENDS Naturals, FiniteSets, Functions

CONSTANTS
    Items,        \* jobs or nodes, numbered in the order of their keys
    Sizes,        \* page_size that a client may ask for
    DefaultSize, LargestSize,
    MaxChanges    \* bound on the changes during a walk

ASSUME ListingAssumption ==
    /\ Items \in SUBSET Nat /\ IsFiniteSet(Items)
    /\ Sizes \in SUBSET Nat
    /\ DefaultSize \in Nat \ {0} /\ LargestSize \in Nat \ {0}
    /\ MaxChanges \in Nat

VARIABLES
    request,   \* what the client asks for: which of the two calls, and page_size
    matching,  \* the items that the filters of the request let through
    known,     \* the items there are
    offset,    \* what the client's page token stands for
    got,       \* the items it was sent
    over,      \* the last answer carried no token
    steady,    \* items that matched all through the walk
    changes

listVars == <<request, matching, known, offset, got, over, steady, changes>>

Smaller(x, y) == IF x <= y THEN x ELSE y

Total == Cardinality(matching)

\* The list that a call may build: of jobs there is one, of nodes any order will do.
Lists ==
    {list \in Bijection(1..Total, matching) :
        request.of = "jobs" => \A j, k \in 1..Total : j < k => list[j] < list[k]}

PageSize == IF request.size = 0 THEN DefaultSize ELSE Smaller(request.size, LargestSize)

\* How many items the page leaves out before it.
Start == Smaller(offset, Total)

\* Where the page ends; the next one starts here.
End == Smaller(offset + PageSize, Total)

More_mutFull == End + PageSize <= Total

\* The answer carries a token.
More == End < Total

\* One call of ListJobs or ListNodes.
NextPage ==
    /\ ~over
    /\ \E list \in Lists : got' = got \cup {list[k] : k \in Start + 1 .. End}
    /\ offset' = End
    /\ over' = ~More
    /\ UNCHANGED <<request, matching, known, steady, changes>>

Change ==
    /\ changes > 0 /\ changes' = changes - 1
    /\ UNCHANGED <<request, offset, got, over>>

\* A job is submitted, a node registers.
Appear(i) ==
    /\ i \notin known
    /\ known' = known \cup {i} /\ matching' = matching \cup {i}
    /\ UNCHANGED steady
    /\ Change

\* The status of an item changes so that the filter drops it.
DropOut(i) ==
    /\ i \in matching
    /\ matching' = matching \ {i} /\ steady' = steady \ {i}
    /\ UNCHANGED known
    /\ Change

WalkInit ==
    /\ request \in [of : {"jobs", "nodes"}, size : Sizes]
    /\ known \in SUBSET Items /\ matching = known /\ steady = known
    /\ offset = 0 /\ got = {} /\ over = FALSE
    /\ changes = MaxChanges

WalkNext == NextPage \/ \E i \in Items : Appear(i) \/ DropOut(i)

WalkSpec == WalkInit /\ [][WalkNext]_listVars

-----------------------------------------------------------------------------
\* Properties.

\* A client that has read to the last page was sent everything that was in the list all the
\* time, if nothing dropped out of it, and if one page was enough or the order is that of keys.
NothingMissed ==
    /\ over /\ matching = known
    /\ request.of = "jobs" \/ Cardinality(known) <= PageSize
    => steady \subseteq got
=============================================================================
