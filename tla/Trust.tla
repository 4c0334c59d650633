------------------------------- MODULE Trust --------------------------------
(***************************************************************************)
(* Declarations of trust: the RPC handlers DeclareTrust and RevokeTrust and *)
(* the expiry loop (scheduler/internal/server), the graph in memory that    *)
(* decisions are made on (pkg/trustgraph) and its copy in the store, from   *)
(* which a scheduler that starts rebuilds the graph.                        *)
(*                                                                         *)
(* The graph and the store have locks of their own, so a handler is one     *)
(* step per access.  The index by target (reverse) changes under the same   *)
(* lock as the index by source, and is the same edges.                      *)
(***************************************************************************)
EXTENDS FiniteSets, Naturals

CONSTANTS
    Edges,        \* pairs of nodes <<from, to>>
    Declarations, Revocations,
    Edge,         \* per call, the edge it is about
    Limited,      \* declarations that carry an ExpiresAt
    Signature,    \* per call, "none", "good" or "bad"
    Keyed,        \* nodes that registered a public key
    Members,      \* nodes with a record
    Faulty,       \* calls whose write to the store may fail
    Restarts,     \* bound on restarts
    None, Bare    \* no edge; the edge that a failed revocation puts back

Decisions == Declarations \cup Revocations

ASSUME TrustAssumption ==
    /\ Edge \in [Decisions -> Edges]
    /\ \A e \in Edges : e[1] # e[2]
    /\ Limited \subseteq Declarations
    /\ None \notin Declarations /\ Bare \notin Declarations /\ None # Bare
    /\ Restarts \in Nat

VARIABLES
    graph,    \* Graph.edges: per edge the declaration that made it, Bare or None
    store,    \* trust bucket
    decision, \* per call, where its handler is
    sweep,    \* pruneExpiredTrust: where it is, and the edges it still has to delete
    expired,  \* declarations whose ExpiresAt has passed
    promised, \* per edge, the declaration its owner was told is in force, or None
    restarts

trustVars == <<graph, store, decision, sweep, expired, promised, restarts>>

Live(x) == x # None /\ x \notin expired
Owner(c) == Edge[c][1]

Verified_mutAnyKey(c) == Signature[c] = "none" \/ Owner(c) \in Keyed

\* VerifyTrust, for a call that has a signature.
Verified(c) == Signature[c] = "none" \/ (Owner(c) \in Keyed /\ Signature[c] = "good")

Running == {c \in Decisions : decision[c] \notin {"idle", "ok", "error"}}
AtWork == Cardinality(Running) + (IF sweep.pc = "idle" THEN 0 ELSE 1)
Idle == AtWork = 0

Move(c, pc) == decision' = [decision EXCEPT ![c] = pc]

\* A call begins: the node's record, its key, the signature.  RevokeTrust wants a key even
\* when there is no signature to verify.
Admitted(c) ==
    /\ Owner(c) \in Members /\ Verified(c)
    /\ c \in Revocations => Owner(c) \in Keyed

Refuse(c) ==
    /\ decision[c] = "idle" /\ ~Admitted(c)
    /\ Move(c, "error")
    /\ UNCHANGED <<graph, store, sweep, expired, promised, restarts>>

-----------------------------------------------------------------------------
\* DeclareTrust: the graph first ...
Declare(d) ==
    /\ decision[d] = "idle" /\ Admitted(d)
    /\ graph' = [graph EXCEPT ![Edge[d]] = d]
    /\ Move(d, "save")
    /\ UNCHANGED <<store, sweep, expired, promised, restarts>>

Saved_mutOnce(d) == IF store[Edge[d]] = None THEN [store EXCEPT ![Edge[d]] = d] ELSE store

\* SaveTrustEdge writes over the record of an older declaration.
Saved(d) == [store EXCEPT ![Edge[d]] = d]

\* ... then the store.
SaveEdge(d) ==
    /\ decision[d] = "save"
    /\ store' = Saved(d)
    /\ promised' = [promised EXCEPT ![Edge[d]] = d]
    /\ Move(d, "ok")
    /\ UNCHANGED <<graph, sweep, expired, restarts>>

WriteFails(c) ==
    /\ c \in Faulty
    /\ \/ decision[c] = "save" /\ Move(c, "undo")
       \/ decision[c] = "delete" /\ Move(c, "restore")
    /\ UNCHANGED <<graph, store, sweep, expired, promised, restarts>>

\* The roll-back after a failed write takes the edge out, an older one with it.
Undo(d) ==
    /\ decision[d] = "undo"
    /\ graph' = [graph EXCEPT ![Edge[d]] = None]
    /\ Move(d, "error")
    /\ UNCHANGED <<store, sweep, expired, promised, restarts>>

-----------------------------------------------------------------------------
\* RevokeTrust: without a live edge in the graph it is done ...
Revoke(r) ==
    /\ decision[r] = "idle" /\ Admitted(r)
    /\ LET e == Edge[r]
       IN  IF Live(graph[e]) THEN Move(r, "remove") /\ UNCHANGED promised
           ELSE Move(r, "ok") /\ promised' = [promised EXCEPT ![e] = None]
    /\ UNCHANGED <<graph, store, sweep, expired, restarts>>

\* ... otherwise the edge leaves the graph ...
RemoveEdge(r) ==
    /\ decision[r] = "remove"
    /\ graph' = [graph EXCEPT ![Edge[r]] = None]
    /\ Move(r, "delete")
    /\ UNCHANGED <<store, sweep, expired, promised, restarts>>

\* The store after DeleteTrustEdge.
Deleted(r) == [store EXCEPT ![Edge[r]] = None]

\* ... and the store.
DeleteEdge(r) ==
    /\ decision[r] = "delete"
    /\ store' = Deleted(r)
    /\ promised' = [promised EXCEPT ![Edge[r]] = None]
    /\ Move(r, "ok")
    /\ UNCHANGED <<graph, sweep, expired, restarts>>

\* The roll-back puts an edge without signature and without expiry into the graph.
Restore(r) ==
    /\ decision[r] = "restore"
    /\ graph' = [graph EXCEPT ![Edge[r]] = Bare]
    /\ Move(r, "error")
    /\ UNCHANGED <<store, sweep, expired, promised, restarts>>

-----------------------------------------------------------------------------
\* The ExpiresAt of a declaration passes.
ExpireEdge(d) ==
    /\ d \in Limited \ expired
    /\ expired' = expired \cup {d}
    /\ UNCHANGED <<graph, store, decision, sweep, promised, restarts>>

\* pruneExpiredTrust: Graph.PruneExpired under the lock ...
PruneGraph ==
    /\ sweep.pc = "idle"
    /\ graph' = [e \in Edges |-> IF Live(graph[e]) THEN graph[e] ELSE None]
    /\ sweep' = [sweep EXCEPT !.pc = "list"]
    /\ UNCHANGED <<store, decision, expired, promised, restarts>>

Due_mutUnseen == {e \in Edges : store[e] \in expired /\ graph[e] = store[e]}

\* The edges of the store whose time has passed.
Due == {e \in Edges : store[e] \in expired}

\* ... ListTrustEdges ...
PruneList ==
    /\ sweep.pc = "list"
    /\ sweep' = [pc |-> IF Due = {} THEN "idle" ELSE "delete", due |-> Due]
    /\ UNCHANGED <<graph, store, decision, expired, promised, restarts>>

\* ... and one DeleteTrustEdge after the other, whatever the record is by then.
PruneStore ==
    /\ sweep.pc = "delete"
    /\ \E e \in sweep.due :
          /\ store' = [store EXCEPT ![e] = None]
          /\ sweep' = [pc |-> IF sweep.due = {e} THEN "idle" ELSE "delete", due |-> sweep.due \ {e}]
    /\ UNCHANGED <<graph, decision, expired, promised, restarts>>

\* The process ends and starts again: main builds the graph from the store.  An owner whose
\* call was cut has no answer and has to look.
Reload ==
    /\ restarts > 0 /\ restarts' = restarts - 1
    /\ graph' = store
    /\ decision' = [c \in Decisions |-> IF c \in Running THEN "error" ELSE decision[c]]
    /\ promised' = [e \in Edges |-> IF \E c \in Running : Edge[c] = e THEN store[e] ELSE promised[e]]
    /\ sweep' = [pc |-> "idle", due |-> {}]
    /\ UNCHANGED <<store, expired>>

TrustInit ==
    /\ graph = [e \in Edges |-> None] /\ store = graph /\ promised = graph
    /\ decision = [c \in Decisions |-> "idle"]
    /\ sweep = [pc |-> "idle", due |-> {}]
    /\ expired = {} /\ restarts = Restarts

Prune == PruneGraph \/ PruneList \/ PruneStore

TrustNext ==
    \/ \E d \in Declarations : Declare(d) \/ SaveEdge(d) \/ Undo(d) \/ ExpireEdge(d)
    \/ \E r \in Revocations : Revoke(r) \/ RemoveEdge(r) \/ DeleteEdge(r) \/ Restore(r)
    \/ \E c \in Decisions : Refuse(c) \/ WriteFails(c)
    \/ Prune \/ Reload

\* The ticker of the expiry loop comes again and again, and a handler that runs goes on.
TrustFairness ==
    /\ WF_trustVars(PruneGraph) /\ WF_trustVars(PruneList) /\ WF_trustVars(PruneStore)

TrustSpec == TrustInit /\ [][TrustNext]_trustVars
FairTrust == TrustSpec /\ TrustFairness

-----------------------------------------------------------------------------
\* Properties.

Records == Declarations \cup {None}

TrustTypeOK ==
    /\ graph \in [Edges -> Records \cup {Bare}]
    /\ store \in [Edges -> Records] /\ promised \in [Edges -> Records]
    /\ decision \in [Decisions -> {"idle", "save", "undo", "remove", "delete", "restore", "ok", "error"}]
    /\ sweep.pc \in {"idle", "list", "delete"} /\ sweep.due \subseteq Edges
    /\ sweep.pc = "delete" => sweep.due # {}
    /\ expired \subseteq Limited

\* Whatever the overlaps, failures and restarts: an edge that counts goes back to a
\* declaration of just this edge that was not wrongly signed.
OnlyDeclared ==
    \A e \in Edges :
        /\ \A x \in {graph[e], store[e]} \ {None, Bare} : Edge[x] = e /\ Signature[x] # "bad"
        /\ graph[e] = Bare => \E d \in Declarations : Edge[d] = e /\ Signature[d] # "bad" /\ decision[d] # "idle"

\* When nothing is under way, the graph says what the owner of the edge was told, and so does
\* the store, for the next start.
Kept ==
    Idle => \A e \in Edges : Live(promised[e]) = Live(graph[e]) /\ Live(promised[e]) = Live(store[e])

\* One handler or sweep at a time, and no write that fails.
Calm == AtWork <= 1 /\ \A c \in Decisions : decision[c] \notin {"undo", "restore"}

\* As long as it is calm, an owner's word is kept, over restarts and expiries.
WordIsKept == []Calm => []Kept

\* An expired edge does not stay in the store.
ExpiredEdgesGo ==
    \A d \in Limited : \A e \in Edges :
        (store[e] = d /\ d \in expired) ~> store[e] # d
=============================================================================
