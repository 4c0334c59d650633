----------------------------- MODULE TrustPath ------------------------------
(***************************************************************************)
(* Graph.IsReachable (pkg/trustgraph): is there a chain of trust from one   *)
(* node to another?  The scheduler asks it which nodes an owner's units may *)
(* run on and which nodes a caller may see.                                 *)
(*                                                                         *)
(* The search holds the lock of the graph, so the graph stands still.  A    *)
(* node's targets come out of a Go map, in any order.                       *)
(***************************************************************************)
EXTENDS Naturals, Sequences, FiniteSets

CONSTANTS
    Node,
    From, To,   \* the question
    MaxDepth    \* the bound that the caller passes (10 everywhere)

ASSUME TrustPathAssumption ==
    /\ IsFiniteSet(Node) /\ From \in Node /\ To \in Node
    /\ MaxDepth \in Nat \ {0}

VARIABLES
    trusts,   \* edges: per node, the nodes it trusts, without the expired edges
    sources,  \* the nodes that have edges, expired ones too
    queue, visited, depth,
    answer    \* "open" until the search returns

searchVars == <<trusts, sources, queue, visited, depth, answer>>

\* The orders in which the elements of a finite set can be met.
Orders(S) == {s \in [1..Cardinality(S) -> S] : \A x \in S : \E i \in DOMAIN s : s[i] = x}

SearchInit ==
    /\ trusts \in {t \in [Node -> SUBSET Node] : \A n \in Node : n \notin t[n]}
    /\ sources \in {S \in SUBSET Node : \A n \in Node : trusts[n] # {} => n \in S}
    /\ queue = <<From>> /\ visited = {From} /\ depth = 0
    /\ answer = IF From = To THEN "yes" ELSE "open"

Continues_mutKeepsOne == Len(queue) > 1 /\ depth < MaxDepth

\* The condition of the loop.
Continues == queue # <<>> /\ depth < MaxDepth

Targets_mutReverse(n) == {t \in Node : n \in trusts[t]}

\* The nodes that the search goes on to from n.
Targets(n) == trusts[n]

\* One node off the queue.
Visit ==
    LET next == Head(queue)
    IN  /\ answer = "open" /\ Continues
        /\ \E found \in Orders(Targets(next) \ visited) : queue' = Tail(queue) \o found
        /\ visited' = visited \cup (Targets(next) \ visited)
        /\ answer' = IF To \in Targets(next) THEN "yes" ELSE "open"
        /\ depth' = IF next \in sources THEN depth + 1 ELSE depth
        /\ UNCHANGED <<trusts, sources>>

GiveUp ==
    /\ answer = "open" /\ ~Continues
    /\ answer' = "no"
    /\ UNCHANGED <<trusts, sources, queue, visited, depth>>

Search == Visit \/ GiveUp

SearchSpec == SearchInit /\ [][Search]_searchVars

-----------------------------------------------------------------------------
\* isNodeVisibleTo, for a caller that gives its ID.
HasTrust == To \in trusts[From]

VisibleTo(discoverable) ==
    CASE discoverable = "public" -> TRUE
      [] discoverable = "hidden" -> HasTrust \/ To = From
      [] OTHER -> answer = "yes" \/ To = From

-----------------------------------------------------------------------------
\* Properties.

\* A set of nodes that no edge leaves.
Closed(S) == \A n \in S : trusts[n] \subseteq S

\* What a chain of trust means: To is in every closed set that From is in.
Connected == \A S \in SUBSET Node : From \in S /\ Closed(S) => To \in S

SearchTypeOK ==
    /\ trusts \in [Node -> SUBSET Node]
    /\ sources \in SUBSET Node
    /\ queue \in Seq(Node)
    /\ visited \in SUBSET Node
    /\ depth \in 0..MaxDepth
    /\ answer \in {"open", "yes", "no"}

\* Nobody is trusted without a chain of declarations.
Sound == answer = "yes" => Connected

\* When the bound did not end the search, a denial is right.
Complete == answer = "no" /\ depth < MaxDepth => ~Connected

\* A node that shows itself to direct trust only is seen by no one who would not see it
\* if it showed itself to chains of trust.
HiddenIsStricter == answer # "open" /\ VisibleTo("hidden") => VisibleTo("trust_only")
=============================================================================
