---------------------------- MODULE TrustProofs -----------------------------
(***************************************************************************)
(* The trust graph: what IsReachable answers on every graph and for every   *)
(* bound, what may be in the graph and in the store however handlers,       *)
(* sweeps and failures overlap, and what the owner of an edge is told.      *)
(***************************************************************************)
EXTENDS Trust, TrustPath, FiniteSetTheorems, TLAPS

-----------------------------------------------------------------------------
\* The search.
Waiting(n) == \E i \in DOMAIN queue : queue[i] = n

\* A node that was met is waiting, or its targets were met and To is not among them.
Explored ==
    answer # "yes" =>
        /\ To \notin visited
        /\ \A n \in visited : Waiting(n) \/ trusts[n] \subseteq visited

\* What was met is reached from From.
Reached ==
    \A S \in SUBSET Node : From \in S /\ Closed(S) =>
        visited \subseteq S /\ (answer = "yes" => To \in S)

\* From itself is the first node that the search visits.
Started ==
    answer # "yes" =>
        \/ answer = "open" /\ queue = <<From>> /\ depth = 0
        \/ To \notin trusts[From]

SearchInv ==
    /\ SearchTypeOK /\ Explored /\ Reached /\ Started
    /\ From \in visited
    /\ \A i \in DOMAIN queue : queue[i] \in visited
    /\ answer = "no" /\ depth < MaxDepth => queue = <<>>

-----------------------------------------------------------------------------
\* A sequence in Orders(S) has the elements of S.
LEMMA OrdersFact ==
    ASSUME NEW S \in SUBSET Node, NEW s \in Orders(S)
    PROVE  s \in Seq(S) /\ \A x \in S : \E i \in DOMAIN s : s[i] = x
<1>1. IsFiniteSet(S)
  BY TrustPathAssumption, FS_Subset
<1>2. Cardinality(S) \in Nat
  BY <1>1, FS_CardinalityType
<1> QED BY <1>2 DEF Orders

LEMMA SearchBegins == SearchInit => SearchInv
<1> SUFFICES ASSUME SearchInit PROVE SearchInv
  OBVIOUS
<1>1. SearchTypeOK
  BY TrustPathAssumption DEF SearchInit, SearchTypeOK
<1>2. Explored
  <2>1. queue = <<From>> /\ visited = {From}
    BY DEF SearchInit
  <2>2. Waiting(From)
    BY <2>1 DEF Waiting
  <2> QED BY <2>1, <2>2 DEF SearchInit, Explored
<1>3. Reached
  BY DEF SearchInit, Reached
<1> QED BY <1>1, <1>2, <1>3 DEF SearchInit, SearchInv, Started

LEMMA VisitInv == SearchInv /\ Visit => SearchInv'
<1> SUFFICES ASSUME SearchInv, Visit PROVE SearchInv'
  OBVIOUS
<1> DEFINE next == Head(queue)
           new == Targets(next) \ visited
<1>1. queue \in Seq(Node) /\ queue # <<>> /\ depth < MaxDepth /\ answer = "open"
  BY DEF SearchInv, SearchTypeOK, Visit, Continues
<1>2. next \in Node /\ Tail(queue) \in Seq(Node)
  BY <1>1
<1>3. new \in SUBSET Node /\ Targets(next) = trusts[next] /\ trusts[next] \in SUBSET Node
  BY <1>2 DEF SearchInv, SearchTypeOK, Targets
<1>4. PICK found \in Orders(new) : queue' = Tail(queue) \o found
  BY DEF Visit
<1>5. found \in Seq(new) /\ \A x \in new : \E i \in DOMAIN found : found[i] = x
  BY <1>3, <1>4, OrdersFact
<1>6. /\ visited' = visited \cup new /\ trusts' = trusts /\ sources' = sources
      /\ answer' = (IF To \in trusts[next] THEN "yes" ELSE "open")
      /\ depth' = (IF next \in sources THEN depth + 1 ELSE depth)
  BY <1>3 DEF Visit
<1> HIDE DEF next, new
<1>7. SearchTypeOK'
  <2>1. found \in Seq(Node)
    BY <1>3, <1>5
  <2>2. queue' \in Seq(Node)
    BY <1>2, <1>4, <2>1
  <2>3. depth' \in 0..MaxDepth
    BY <1>1, <1>6, TrustPathAssumption DEF SearchInv, SearchTypeOK
  <2> QED BY <1>3, <1>6, <2>2, <2>3 DEF SearchInv, SearchTypeOK
<1>8. ASSUME NEW n \in new PROVE Waiting(n)'
  <2>1. PICK i \in DOMAIN found : found[i] = n
    BY <1>5
  <2>2. Len(Tail(queue)) + i \in DOMAIN queue' /\ queue'[Len(Tail(queue)) + i] = n
    BY <1>2, <1>4, <1>5, <2>1
  <2> QED BY <2>2 DEF Waiting
<1>9. ASSUME NEW n \in Node, n # next, Waiting(n) PROVE Waiting(n)'
  <2>1. PICK i \in DOMAIN queue : queue[i] = n
    BY <1>9 DEF Waiting
  <2>2. i # 1
    BY <1>1, <1>9, <2>1 DEF next
  <2>3. i - 1 \in DOMAIN Tail(queue) /\ Tail(queue)[i - 1] = n
    BY <1>1, <2>1, <2>2
  <2>4. i - 1 \in DOMAIN queue' /\ queue'[i - 1] = n
    BY <1>2, <1>4, <1>5, <2>3
  <2> QED BY <2>4 DEF Waiting
<1>10. Explored'
  <2> SUFFICES ASSUME answer' # "yes"
               PROVE  /\ To \notin visited'
                      /\ \A n \in visited' : Waiting(n)' \/ trusts'[n] \subseteq visited'
    BY DEF Explored
  <2>1. To \notin trusts[next]
    BY <1>6
  <2>2. To \notin visited'
    BY <1>1, <1>3, <1>6, <2>1 DEF SearchInv, Explored, new
  <2>3. ASSUME NEW n \in visited' PROVE Waiting(n)' \/ trusts'[n] \subseteq visited'
    <3>1. CASE n \in new
      BY <1>8, <3>1
    <3>2. CASE n = next
      BY <1>3, <1>6, <3>2 DEF new
    <3>3. CASE n \in visited /\ n # next
      <4>1. n \in Node /\ (Waiting(n) \/ trusts[n] \subseteq visited)
        BY <1>1, <3>3 DEF SearchInv, Explored, SearchTypeOK
      <4> QED BY <1>6, <1>9, <3>3, <4>1
    <3> QED BY <1>6, <3>1, <3>2, <3>3
  <2> QED BY <2>2, <2>3
<1>11. \A i \in DOMAIN queue' : queue'[i] \in visited'
  <2> SUFFICES ASSUME NEW i \in DOMAIN queue' PROVE queue'[i] \in visited'
    OBVIOUS
  <2>1. CASE i \in 1..Len(Tail(queue))
    <3>1. queue'[i] = queue[i + 1] /\ i + 1 \in DOMAIN queue
      BY <1>1, <1>2, <1>4, <1>5, <2>1
    <3> QED BY <1>6, <3>1 DEF SearchInv
  <2>2. CASE i \notin 1..Len(Tail(queue))
    <3>1. i - Len(Tail(queue)) \in DOMAIN found /\ queue'[i] = found[i - Len(Tail(queue))]
      BY <1>2, <1>4, <1>5, <2>2
    <3>2. queue'[i] \in new
      BY <1>5, <3>1
    <3> QED BY <1>6, <3>2
  <2> QED BY <2>1, <2>2
<1>12. Reached'
  <2> SUFFICES ASSUME NEW S \in SUBSET Node, From \in S, Closed(S)'
               PROVE  visited' \subseteq S /\ (answer' = "yes" => To \in S)
    BY DEF Reached
  <2>1. Closed(S)
    BY <1>6 DEF Closed
  <2>2. visited \subseteq S
    BY <2>1 DEF SearchInv, Reached
  <2>3. next \in visited
    BY <1>1 DEF SearchInv, next
  <2>4. trusts[next] \subseteq S
    BY <2>1, <2>2, <2>3 DEF Closed
  <2> QED BY <1>3, <1>6, <2>2, <2>4 DEF new
<1>13. Started'
  <2> SUFFICES ASSUME answer' # "yes" PROVE To \notin trusts'[From]
    BY DEF Started
  <2>1. CASE queue = <<From>>
    BY <1>6, <2>1 DEF next
  <2>2. CASE To \notin trusts[From]
    BY <1>6, <2>2
  <2> QED BY <1>1, <2>1, <2>2 DEF SearchInv, Started
<1>14. From \in visited' /\ (answer' = "no" /\ depth' < MaxDepth => queue' = <<>>)
  BY <1>6 DEF SearchInv
<1> QED BY <1>7, <1>10, <1>11, <1>12, <1>13, <1>14 DEF SearchInv

LEMMA GiveUpInv == SearchInv /\ GiveUp => SearchInv'
<1> SUFFICES ASSUME SearchInv, GiveUp PROVE SearchInv'
  OBVIOUS
<1>1. /\ answer = "open" /\ answer' = "no"
      /\ trusts' = trusts /\ sources' = sources /\ queue' = queue /\ visited' = visited /\ depth' = depth
  BY DEF GiveUp
<1>2. queue = <<>> \/ ~ (depth < MaxDepth)
  BY DEF GiveUp, Continues
<1>3. SearchTypeOK'
  BY <1>1 DEF SearchInv, SearchTypeOK
<1>4. Explored'
  BY <1>1 DEF SearchInv, Explored, Waiting
<1>5. Reached'
  BY <1>1 DEF SearchInv, Reached, Closed
<1>6. Started'
  <2>1. ~ (queue = <<From>> /\ depth = 0)
    <3>1. 0 < MaxDepth
      BY TrustPathAssumption
    <3>2. <<From>> # <<>>
      OBVIOUS
    <3> QED BY <1>2, <3>1, <3>2
  <2> QED BY <1>1, <2>1 DEF SearchInv, Started
<1> QED BY <1>1, <1>2, <1>3, <1>4, <1>5, <1>6 DEF SearchInv

LEMMA SearchGoesOn == SearchSpec => []SearchInv
<1>1. SearchInv /\ [Search]_searchVars => SearchInv'
  <2> SUFFICES ASSUME SearchInv, [Search]_searchVars PROVE SearchInv'
    OBVIOUS
  <2>1. CASE UNCHANGED searchVars
    BY <2>1 DEF SearchInv, SearchTypeOK, Explored, Waiting, Reached, Closed, Started, searchVars
  <2> QED BY <2>1, VisitInv, GiveUpInv DEF Search
<1> QED BY <1>1, SearchBegins, PTL DEF SearchSpec

-----------------------------------------------------------------------------
LEMMA ImpliesSound == SearchInv => Sound
BY DEF SearchInv, Reached, Sound, Connected

LEMMA ImpliesComplete == SearchInv => Complete
<1> SUFFICES ASSUME SearchInv, answer = "no", depth < MaxDepth PROVE ~Connected
  BY DEF Complete
<1>1. visited \in SUBSET Node /\ From \in visited /\ To \notin visited
  BY DEF SearchInv, SearchTypeOK, Explored
<1>2. queue = <<>>
  BY DEF SearchInv
<1>3. Closed(visited)
  BY <1>2 DEF SearchInv, Explored, Waiting, Closed
<1> QED BY <1>1, <1>3 DEF Connected

LEMMA ImpliesStricter == SearchInv => HiddenIsStricter
BY DEF SearchInv, SearchTypeOK, Started, HiddenIsStricter, VisibleTo, HasTrust

\* IsReachable answers yes only when a chain of live declarations leads from the asking
\* node to the other one, on every graph (graph.go:180-186).
THEOREM TrustIsFounded == SearchSpec => []Sound
BY SearchGoesOn, ImpliesSound, PTL

\* A denial that the bound did not force means that there is no chain (graph.go:170-194).
THEOREM DenialIsFounded == SearchSpec => []Complete
BY SearchGoesOn, ImpliesComplete, PTL

\* Who sees a hidden node would see it as a trust_only node, too: the first round of the
\* search finds every direct declaration (server.go:1246-1257).
THEOREM HiddenIsNarrower == SearchSpec => []HiddenIsStricter
BY SearchGoesOn, ImpliesStricter, PTL

-----------------------------------------------------------------------------
\* Declarations: types.
Typed ==
    /\ graph \in [Edges -> Records \cup {Bare}]
    /\ store \in [Edges -> Records] /\ promised \in [Edges -> Records]
    /\ decision \in [Decisions -> {"idle", "save", "undo", "remove", "delete", "restore", "ok", "error"}]
    /\ sweep \in [pc : {"idle", "list", "delete"}, due : SUBSET Edges]
    /\ sweep.pc = "delete" => sweep.due # {}
    /\ expired \subseteq Limited

LEMMA TypedBegins == TrustInit => Typed
BY DEF TrustInit, Typed, Records

LEMMA TypedStep == ASSUME Typed, [TrustNext]_trustVars PROVE Typed'
<1> USE DEF Typed, Move
<1>1. ASSUME NEW d \in Declarations, Declare(d) \/ SaveEdge(d) \/ Undo(d) PROVE Typed'
  <2>1. Edge[d] \in Edges /\ d \in Decisions /\ d \in Records /\ None \in Records
    BY TrustAssumption DEF Decisions, Records
  <2> QED BY <1>1, <2>1 DEF Declare, SaveEdge, Saved, Undo
<1>2. ASSUME NEW d \in Declarations, ExpireEdge(d) PROVE Typed'
  BY <1>2 DEF ExpireEdge
<1>3. ASSUME NEW r \in Revocations, Revoke(r) \/ RemoveEdge(r) \/ DeleteEdge(r) \/ Restore(r)
      PROVE  Typed'
  <2>1. Edge[r] \in Edges /\ r \in Decisions /\ None \in Records
    BY TrustAssumption DEF Decisions, Records
  <2>2. CASE Revoke(r)
    BY <2>1, <2>2 DEF Revoke
  <2>3. CASE RemoveEdge(r) \/ DeleteEdge(r) \/ Restore(r)
    BY <2>1, <2>3 DEF RemoveEdge, DeleteEdge, Deleted, Restore
  <2> QED BY <1>3, <2>2, <2>3
<1>4. ASSUME NEW c \in Decisions, Refuse(c) \/ WriteFails(c) PROVE Typed'
  BY <1>4 DEF Refuse, WriteFails
<1>5. CASE PruneGraph
  BY <1>5 DEF PruneGraph, Records
<1>6. CASE PruneList
  BY <1>6 DEF PruneList, Due
<1>7. CASE PruneStore
  <2>1. PICK e \in sweep.due :
           /\ store' = [store EXCEPT ![e] = None]
           /\ sweep' = [pc |-> IF sweep.due = {e} THEN "idle" ELSE "delete", due |-> sweep.due \ {e}]
    BY <1>7 DEF PruneStore
  <2>2. e \in Edges /\ sweep.due \ {e} \in SUBSET Edges /\ (sweep.due # {e} => sweep.due \ {e} # {})
    OBVIOUS
  <2> QED BY <1>7, <2>1, <2>2 DEF PruneStore, Records
<1>8. CASE Reload
  BY <1>8 DEF Reload
<1>9. CASE UNCHANGED trustVars
  BY <1>9 DEF trustVars
<1> QED BY <1>1, <1>2, <1>3, <1>4, <1>5, <1>6, <1>7, <1>8, <1>9 DEF TrustNext, Prune

LEMMA Types == TrustSpec => []Typed
BY TypedBegins, TypedStep, PTL DEF TrustSpec

-----------------------------------------------------------------------------
\* Declarations: what is in the graph and in the store goes back to a declaration.

\* A declaration of e that was not wrongly signed has come in.
Founded(e) == \E d \in Declarations : Edge[d] = e /\ Signature[d] # "bad" /\ decision[d] # "idle"

\* x is an edge that a declaration may have made at e.
Fits(x, e) == x \notin {None, Bare} => Edge[x] = e /\ Signature[x] # "bad"

EdgesFounded ==
    \A e \in Edges :
        /\ Fits(graph[e], e) /\ Fits(store[e], e)
        /\ graph[e] # None \/ store[e] # None => Founded(e)

\* A handler that will still write an edge has a reason to.
CallsFounded ==
    \A c \in Decisions :
        /\ decision[c] = "save" => c \in Declarations /\ Signature[c] # "bad"
        /\ decision[c] \in {"remove", "delete", "restore"} => Founded(Edge[c])

FoundedInv == Typed /\ EdgesFounded /\ CallsFounded

\* A call that has begun is never again one that has not.
LEMMA BegunStays ==
    ASSUME Typed, [TrustNext]_trustVars
    PROVE  \A c \in Decisions : decision[c] # "idle" => decision'[c] # "idle"
<1> USE DEF Typed, Move
<1>1. ASSUME NEW d \in Declarations, Declare(d) \/ SaveEdge(d) \/ Undo(d) \/ ExpireEdge(d)
      PROVE  \A c \in Decisions : decision[c] # "idle" => decision'[c] # "idle"
  BY <1>1 DEF Declare, SaveEdge, Undo, ExpireEdge
<1>2. ASSUME NEW r \in Revocations, Revoke(r) \/ RemoveEdge(r) \/ DeleteEdge(r) \/ Restore(r)
      PROVE  \A c \in Decisions : decision[c] # "idle" => decision'[c] # "idle"
  BY <1>2 DEF Revoke, RemoveEdge, DeleteEdge, Restore
<1>3. ASSUME NEW b \in Decisions, Refuse(b) \/ WriteFails(b)
      PROVE  \A c \in Decisions : decision[c] # "idle" => decision'[c] # "idle"
  BY <1>3 DEF Refuse, WriteFails
<1>4. CASE Prune
  BY <1>4 DEF Prune, PruneGraph, PruneList, PruneStore
<1>5. CASE Reload
  BY <1>5 DEF Reload
<1>6. CASE UNCHANGED trustVars
  BY <1>6 DEF trustVars
<1> QED BY <1>1, <1>2, <1>3, <1>4, <1>5, <1>6 DEF TrustNext

LEMMA FoundedBegins == TrustInit => FoundedInv
BY TypedBegins DEF TrustInit, FoundedInv, EdgesFounded, CallsFounded, Fits

LEMMA FoundedStep ==
    ASSUME FoundedInv, [TrustNext]_trustVars
    PROVE  FoundedInv'
<1>1. Typed /\ Typed'
  BY TypedStep DEF FoundedInv
<1>2. ASSUME NEW e \in Edges, Founded(e) PROVE Founded(e)'
  <2>1. PICK d \in Declarations : Edge[d] = e /\ Signature[d] # "bad" /\ decision[d] # "idle"
    BY <1>2 DEF Founded
  <2>2. decision'[d] # "idle"
    BY <1>1, <2>1, BegunStays DEF Decisions
  <2> QED BY <2>1, <2>2 DEF Founded
<1>3. \A c \in Decisions : Edge[c] \in Edges
  BY TrustAssumption
<1>4. EdgesFounded /\ CallsFounded
  BY DEF FoundedInv
\* It is enough that a step puts only founded edges into the graph and the store ...
<1>5. ASSUME \A e \in Edges :
                /\ graph'[e] = graph[e] \/ graph'[e] \in {None, store[e]} \/ (Fits(graph'[e], e) /\ Founded(e)')
                /\ store'[e] = store[e] \/ store'[e] = None \/ (Fits(store'[e], e) /\ Founded(e)')
      PROVE  EdgesFounded'
  <2> SUFFICES ASSUME NEW e \in Edges
               PROVE  /\ Fits(graph'[e], e) /\ Fits(store'[e], e)
                      /\ graph'[e] # None \/ store'[e] # None => Founded(e)'
    BY DEF EdgesFounded, Fits
  <2>1. Fits(graph[e], e) /\ Fits(store[e], e) /\ (graph[e] # None \/ store[e] # None => Founded(e))
    BY <1>4 DEF EdgesFounded
  <2>2. Fits(None, e)
    BY DEF Fits
  <2>3. Fits(graph'[e], e) /\ Fits(store'[e], e)
    BY <1>5, <2>1, <2>2
  <2>4. graph'[e] # None \/ store'[e] # None => Founded(e) \/ Founded(e)'
    BY <1>5, <2>1
  <2> QED BY <1>2, <2>3, <2>4
\* ... and that a handler that goes on keeps its reason, and one that begins has one.
<1>6. ASSUME \A c \in Decisions :
                \/ decision'[c] = decision[c]
                \/ decision'[c] \notin {"save", "remove", "delete", "restore"}
                \/ decision'[c] = "save" /\ c \in Declarations /\ Signature[c] # "bad"
                \/ decision'[c] \in {"remove", "delete", "restore"} /\ Founded(Edge[c])
      PROVE  CallsFounded'
  <2> SUFFICES ASSUME NEW c \in Decisions
               PROVE  /\ decision'[c] = "save" => c \in Declarations /\ Signature[c] # "bad"
                      /\ decision'[c] \in {"remove", "delete", "restore"} => Founded(Edge[c])'
    BY DEF CallsFounded, Founded
  <2>1. Founded(Edge[c]) => Founded(Edge[c])'
    BY <1>2, <1>3
  <2>2. /\ decision[c] = "save" => c \in Declarations /\ Signature[c] # "bad"
        /\ decision[c] \in {"remove", "delete", "restore"} => Founded(Edge[c])
    BY <1>4 DEF CallsFounded
  <2> QED BY <1>6, <2>1, <2>2
<1> USE DEF Move
<1>7. ASSUME NEW d \in Declarations, Declare(d) PROVE FoundedInv'
  <2>1. d \in Decisions /\ d \notin {None, Bare} /\ Signature[d] # "bad"
    BY <1>7, TrustAssumption DEF Decisions, Declare, Admitted, Verified
  <2>2. decision'[d] = "save" /\ Founded(Edge[d])'
    BY <1>1, <1>7, <2>1 DEF Declare, Founded, Typed
  <2>3. Fits(d, Edge[d])
    BY <2>1 DEF Fits
  <2>4. EdgesFounded'
    BY <1>1, <1>5, <1>7, <2>2, <2>3 DEF Declare, Typed
  <2>5. CallsFounded'
    BY <1>1, <1>6, <1>7, <2>1 DEF Declare, Typed
  <2> QED BY <1>1, <2>4, <2>5 DEF FoundedInv
<1>8. ASSUME NEW d \in Declarations, SaveEdge(d) PROVE FoundedInv'
  <2>1. d \in Decisions /\ d \notin {None, Bare} /\ decision[d] = "save" /\ decision'[d] = "ok"
    BY <1>1, <1>8, TrustAssumption DEF Decisions, SaveEdge, Typed
  <2>2. Signature[d] # "bad"
    BY <1>4, <2>1 DEF CallsFounded
  <2>3. Fits(d, Edge[d]) /\ Founded(Edge[d])'
    BY <2>1, <2>2 DEF Fits, Founded
  <2>4. EdgesFounded'
    BY <1>1, <1>5, <1>8, <2>3 DEF SaveEdge, Saved, Typed
  <2>5. CallsFounded'
    BY <1>1, <1>6, <1>8 DEF SaveEdge, Typed
  <2> QED BY <1>1, <2>4, <2>5 DEF FoundedInv
<1>9. ASSUME NEW d \in Declarations, Undo(d) PROVE FoundedInv'
  <2>1. EdgesFounded'
    BY <1>1, <1>5, <1>9 DEF Undo, Typed
  <2>2. CallsFounded'
    BY <1>1, <1>6, <1>9 DEF Undo, Typed
  <2> QED BY <1>1, <2>1, <2>2 DEF FoundedInv
<1>10. ASSUME NEW d \in Declarations, ExpireEdge(d) PROVE FoundedInv'
  BY <1>1, <1>5, <1>6, <1>10 DEF ExpireEdge, FoundedInv
<1>11. ASSUME NEW r \in Revocations, Revoke(r) PROVE FoundedInv'
  <2>1. r \in Decisions /\ Edge[r] \in Edges
    BY <1>3 DEF Decisions
  <2>2. Live(graph[Edge[r]]) => Founded(Edge[r])
    BY <1>4, <2>1 DEF EdgesFounded, Live
  <2>3. EdgesFounded'
    BY <1>1, <1>5, <1>11 DEF Revoke
  <2>4. CallsFounded'
    <3>1. CASE Live(graph[Edge[r]])
      BY <1>1, <1>6, <1>11, <2>1, <2>2, <3>1 DEF Revoke, Typed
    <3>2. CASE ~Live(graph[Edge[r]])
      BY <1>1, <1>6, <1>11, <2>1, <3>2 DEF Revoke, Typed
    <3> QED BY <3>1, <3>2
  <2> QED BY <1>1, <2>3, <2>4 DEF FoundedInv
<1>12. ASSUME NEW r \in Revocations, RemoveEdge(r) PROVE FoundedInv'
  <2>1. r \in Decisions /\ decision[r] = "remove" /\ Founded(Edge[r])
    BY <1>4, <1>12 DEF Decisions, RemoveEdge, CallsFounded
  <2>2. EdgesFounded'
    BY <1>1, <1>5, <1>12 DEF RemoveEdge, Typed
  <2>3. CallsFounded'
    BY <1>1, <1>6, <1>12, <2>1 DEF RemoveEdge, Typed
  <2> QED BY <1>1, <2>2, <2>3 DEF FoundedInv
<1>13. ASSUME NEW r \in Revocations, DeleteEdge(r) PROVE FoundedInv'
  <2>1. EdgesFounded'
    BY <1>1, <1>5, <1>13 DEF DeleteEdge, Deleted, Typed
  <2>2. CallsFounded'
    BY <1>1, <1>6, <1>13 DEF DeleteEdge, Typed
  <2> QED BY <1>1, <2>1, <2>2 DEF FoundedInv
<1>14. ASSUME NEW r \in Revocations, Restore(r) PROVE FoundedInv'
  <2>1. r \in Decisions /\ Edge[r] \in Edges /\ Founded(Edge[r])
    BY <1>3, <1>4, <1>14 DEF Decisions, Restore, CallsFounded
  <2>2. Founded(Edge[r])' /\ Fits(Bare, Edge[r])
    BY <1>2, <2>1 DEF Fits
  <2>3. EdgesFounded'
    BY <1>1, <1>5, <1>14, <2>2 DEF Restore, Typed
  <2>4. CallsFounded'
    BY <1>1, <1>6, <1>14 DEF Restore, Typed
  <2> QED BY <1>1, <2>3, <2>4 DEF FoundedInv
<1>15. ASSUME NEW c \in Decisions, Refuse(c) PROVE FoundedInv'
  <2>1. EdgesFounded'
    BY <1>1, <1>5, <1>15 DEF Refuse
  <2>2. CallsFounded'
    BY <1>1, <1>6, <1>15 DEF Refuse, Typed
  <2> QED BY <1>1, <2>1, <2>2 DEF FoundedInv
<1>16. ASSUME NEW c \in Decisions, WriteFails(c) PROVE FoundedInv'
  <2>1. EdgesFounded'
    BY <1>1, <1>5, <1>16 DEF WriteFails
  <2>2. decision[c] = "delete" => Founded(Edge[c])
    BY <1>4 DEF CallsFounded
  <2>3. CallsFounded'
    BY <1>1, <1>6, <1>16, <2>2 DEF WriteFails, Typed
  <2> QED BY <1>1, <2>1, <2>3 DEF FoundedInv
<1>17. CASE Prune
  <2>1. decision' = decision
    BY <1>17 DEF Prune, PruneGraph, PruneList, PruneStore
  <2>2. \A e \in Edges : graph'[e] \in {graph[e], None} /\ store'[e] \in {store[e], None}
    BY <1>1, <1>17 DEF Prune, PruneGraph, PruneList, PruneStore, Typed
  <2> QED BY <1>1, <1>5, <1>6, <2>1, <2>2 DEF FoundedInv
<1>18. CASE Reload
  <2>1. EdgesFounded'
    BY <1>1, <1>5, <1>18 DEF Reload
  <2>2. CallsFounded'
    BY <1>1, <1>6, <1>18 DEF Reload, Typed
  <2> QED BY <1>1, <2>1, <2>2 DEF FoundedInv
<1>19. CASE UNCHANGED trustVars
  BY <1>1, <1>5, <1>6, <1>19 DEF trustVars, FoundedInv
<1> QED BY <1>7, <1>8, <1>9, <1>10, <1>11, <1>12, <1>13, <1>14, <1>15, <1>16, <1>17, <1>18, <1>19 DEF TrustNext

LEMMA FoundedOnly == FoundedInv => OnlyDeclared
<1> SUFFICES ASSUME FoundedInv, NEW e \in Edges
             PROVE  /\ \A x \in {graph[e], store[e]} \ {None, Bare} : Edge[x] = e /\ Signature[x] # "bad"
                    /\ graph[e] = Bare => Founded(e)
  BY DEF OnlyDeclared, Founded
<1>1. Fits(graph[e], e) /\ Fits(store[e], e) /\ (graph[e] # None => Founded(e))
  BY DEF FoundedInv, EdgesFounded
<1>2. Bare # None
  BY TrustAssumption
<1> QED BY <1>1, <1>2 DEF Fits

\* Whatever handlers, sweeps, failing writes and restarts do to each other: an edge of the
\* graph or of the store goes back to a declaration of just that edge which was not wrongly
\* signed (server.go:862-971, 1343-1371).
THEOREM OnlyDeclarations == TrustSpec => []OnlyDeclared
BY FoundedBegins, FoundedStep, FoundedOnly, PTL DEF TrustSpec

-----------------------------------------------------------------------------
\* Declarations: what the owner was told, with one handler or sweep at a time and writes that
\* do not fail.

\* An edge that is in force for the owner, in the graph or in the store is the same in all.
Same(e) ==
    Live(promised[e]) \/ Live(graph[e]) \/ Live(store[e]) =>
        promised[e] = graph[e] /\ graph[e] = store[e]

Alone ==
    /\ IsFiniteSet(Running)
    /\ \A b, c \in Running : b = c
    /\ Running # {} => sweep.pc = "idle"

\* Only the handler that runs may leave an edge for a while that is not the same in all.
AllSame == \A e \in Edges : Same(e) \/ \E c \in Running : Edge[c] = e

InGraph ==
    \A c \in Decisions :
        /\ decision[c] \notin {"undo", "restore"}
        /\ decision[c] = "save" => graph[Edge[c]] = c
        /\ decision[c] = "delete" => graph[Edge[c]] = None

DueExpired == sweep.pc = "delete" => \A e \in sweep.due : store[e] \in expired

WordInv == Typed /\ Alone /\ AllSame /\ InGraph /\ DueExpired

LEMMA NobodyWorks ==
    ASSUME Alone, AtWork = 0
    PROVE  Running = {} /\ sweep.pc = "idle"
<1>1. Cardinality(Running) \in Nat
  BY FS_CardinalityType DEF Alone
<1>2. Cardinality(Running) = 0 /\ sweep.pc = "idle"
  BY <1>1 DEF AtWork
<1>3. Running = {}
  BY <1>2, FS_EmptySet DEF Alone
<1> QED BY <1>2, <1>3

LEMMA WordBegins == TrustInit => WordInv
<1> SUFFICES ASSUME TrustInit PROVE WordInv
  OBVIOUS
<1>1. Typed
  BY TypedBegins
<1>2. Running = {}
  BY DEF TrustInit, Running
<1>3. Alone
  BY <1>2, FS_EmptySet DEF Alone
<1>4. AllSame
  BY DEF TrustInit, AllSame, Same
<1> QED BY <1>1, <1>3, <1>4 DEF TrustInit, WordInv, InGraph, DueExpired

\* A step after which no other handler runs than before.
LEMMA AloneStays ==
    ASSUME Alone, Running' \subseteq Running, sweep'.pc = sweep.pc \/ sweep'.pc = "idle"
    PROVE  Alone'
<1>1. IsFiniteSet(Running')
  BY FS_Subset DEF Alone
<1> QED BY <1>1 DEF Alone

\* While it is calm, a handler that takes more than one step begins when nothing is under way.
LEMMA AloneBegins ==
    ASSUME Typed, Alone, Calm', sweep' = sweep,
           NEW c \in Decisions, decision[c] = "idle",
           NEW pc \in {"save", "remove"}, decision' = [decision EXCEPT ![c] = pc]
    PROVE  Alone' /\ Running = {} /\ sweep.pc = "idle" /\ Running' = {c}
<1>1. Running' = Running \cup {c} /\ c \notin Running
  BY DEF Running, Typed
<1>2. /\ IsFiniteSet(Running) /\ IsFiniteSet(Running')
      /\ Cardinality(Running) \in Nat /\ Cardinality(Running') = Cardinality(Running) + 1
  BY <1>1, FS_AddElement, FS_CardinalityType DEF Alone
<1>3. AtWork = 0
  BY <1>2 DEF Calm, AtWork
<1>4. Running = {} /\ sweep.pc = "idle"
  BY <1>3, NobodyWorks
<1> QED BY <1>1, <1>2, <1>4 DEF Alone

LEMMA DeclareWord ==
    ASSUME WordInv, Calm', NEW d \in Declarations, Declare(d)
    PROVE  Alone' /\ AllSame' /\ InGraph' /\ DueExpired'
<1>1. d \in Decisions /\ Edge[d] \in Edges
  BY TrustAssumption DEF Decisions, Declare
<1>2. Alone' /\ Running = {} /\ sweep.pc = "idle" /\ Running' = {d}
  BY <1>1, AloneBegins DEF Declare, Move, WordInv
<1>3. AllSame'
  <2> SUFFICES ASSUME NEW e \in Edges PROVE Same(e)' \/ \E c \in Running' : Edge[c] = e
    BY DEF AllSame, Same, Live
  <2>1. CASE e = Edge[d]
    BY <1>2, <2>1
  <2>2. CASE e # Edge[d]
    <3>1. Same(e) /\ graph'[e] = graph[e]
      BY <1>2, <2>2 DEF WordInv, AllSame, Typed, Declare
    <3> QED BY <3>1 DEF Same, Live, Declare
  <2> QED BY <2>1, <2>2
<1>4. InGraph'
  BY <1>1, <1>2 DEF InGraph, Declare, Move, WordInv, Typed, Running
<1> QED BY <1>2, <1>3, <1>4 DEF DueExpired, Declare

LEMMA RevokeWord ==
    ASSUME WordInv, Calm', NEW r \in Revocations, Revoke(r)
    PROVE  Alone' /\ AllSame' /\ InGraph' /\ DueExpired'
<1>1. /\ r \in Decisions /\ Edge[r] \in Edges
      /\ decision[r] = "idle"
      /\ graph' = graph /\ store' = store /\ expired' = expired /\ sweep' = sweep
  BY TrustAssumption DEF Decisions, Revoke
<1>2. DueExpired'
  BY <1>1 DEF WordInv, DueExpired
\* It takes more steps, and is alone.
<1>3. CASE Live(graph[Edge[r]])
  <2>1. decision' = [decision EXCEPT ![r] = "remove"] /\ promised' = promised
    BY <1>3 DEF Revoke, Move
  <2>2. Alone' /\ Running = {} /\ sweep.pc = "idle" /\ Running' = {r}
    BY <1>1, <2>1, AloneBegins DEF WordInv
  <2>3. AllSame'
    BY <1>1, <2>1, <2>2 DEF WordInv, AllSame, Same, Live
  <2>4. InGraph'
    BY <1>1, <2>1 DEF WordInv, InGraph, Typed
  <2> QED BY <1>2, <2>2, <2>3, <2>4
\* It is done at once, maybe while another one runs.
<1>4. CASE ~Live(graph[Edge[r]])
  <2>1. decision' = [decision EXCEPT ![r] = "ok"] /\ promised' = [promised EXCEPT ![Edge[r]] = None]
    BY <1>4 DEF Revoke, Move
  <2>2. Running' = Running
    BY <1>1, <2>1 DEF Running, WordInv, Typed
  <2>3. Alone'
    BY <1>1, <2>2, AloneStays DEF WordInv
  <2>4. InGraph'
    BY <1>1, <2>1 DEF WordInv, InGraph, Typed
  <2>5. AllSame'
    <3> SUFFICES ASSUME NEW e \in Edges PROVE Same(e)' \/ \E c \in Running' : Edge[c] = e
      BY DEF AllSame, Same, Live
    <3>1. Same(e) \/ \E c \in Running' : Edge[c] = e
      BY <2>2 DEF WordInv, AllSame
    <3>2. CASE Same(e) /\ e = Edge[r]
      <4>1. promised'[e] = None /\ ~Live(graph[e])
        BY <1>1, <1>4, <2>1, <3>2 DEF WordInv, Typed
      <4>2. ~Live(store[e])
        BY <3>2, <4>1 DEF Same
      <4> QED BY <1>1, <4>1, <4>2 DEF Same, Live
    <3>3. CASE Same(e) /\ e # Edge[r]
      <4>1. promised'[e] = promised[e]
        BY <1>1, <2>1, <3>3 DEF WordInv, Typed
      <4> QED BY <1>1, <3>3, <4>1 DEF Same, Live
    <3> QED BY <3>1, <3>2, <3>3
  <2> QED BY <1>2, <2>3, <2>4, <2>5
<1> QED BY <1>3, <1>4

\* The steps that end a handler's work on an edge.
LEMMA EndWord ==
    ASSUME WordInv, sweep' = sweep, expired' = expired,
           NEW c \in Decisions, c \in Running, Move(c, "ok"),
           NEW x, graph'[Edge[c]] = x, store'[Edge[c]] = x, promised'[Edge[c]] = x,
           \A e \in Edges \ {Edge[c]} :
              graph'[e] = graph[e] /\ store'[e] = store[e] /\ promised'[e] = promised[e]
    PROVE  Alone' /\ AllSame' /\ InGraph' /\ DueExpired'
<1>1. decision' = [decision EXCEPT ![c] = "ok"]
  BY DEF Move
<1>2. Running = {c} /\ Running' = {} /\ sweep.pc = "idle"
  BY <1>1 DEF WordInv, Typed, Alone, Running
<1>3. Alone'
  BY <1>2, AloneStays DEF WordInv
<1>4. AllSame'
  <2> SUFFICES ASSUME NEW e \in Edges PROVE Same(e)'
    BY DEF AllSame, Same, Live
  <2>1. CASE e = Edge[c]
    BY <2>1 DEF Same
  <2>2. CASE e # Edge[c]
    <3>1. Same(e)
      BY <1>2, <2>2 DEF WordInv, AllSame
    <3>2. graph'[e] = graph[e] /\ store'[e] = store[e] /\ promised'[e] = promised[e]
      BY <2>2
    <3> QED BY <3>1, <3>2 DEF Same, Live
  <2> QED BY <2>1, <2>2
<1>5. InGraph'
  <2>1. \A b \in Decisions : decision'[b] \in {"idle", "ok", "error"}
    BY <1>2 DEF Running
  <2> QED BY <2>1 DEF InGraph
<1> QED BY <1>2, <1>3, <1>4, <1>5 DEF DueExpired

LEMMA SaveWord ==
    ASSUME WordInv, NEW d \in Declarations, SaveEdge(d)
    PROVE  Alone' /\ AllSame' /\ InGraph' /\ DueExpired'
<1>1. d \in Decisions /\ Edge[d] \in Edges /\ d \in Running
  BY TrustAssumption DEF Decisions, SaveEdge, Running
<1>2. graph'[Edge[d]] = d /\ store'[Edge[d]] = d /\ promised'[Edge[d]] = d
  BY <1>1 DEF SaveEdge, Saved, WordInv, InGraph, Typed
<1>3. \A e \in Edges \ {Edge[d]} :
         graph'[e] = graph[e] /\ store'[e] = store[e] /\ promised'[e] = promised[e]
  BY DEF SaveEdge, Saved, WordInv, Typed
<1> QED BY <1>1, <1>2, <1>3, EndWord DEF SaveEdge

LEMMA DeleteWord ==
    ASSUME WordInv, NEW r \in Revocations, DeleteEdge(r)
    PROVE  Alone' /\ AllSame' /\ InGraph' /\ DueExpired'
<1>1. r \in Decisions /\ Edge[r] \in Edges /\ r \in Running
  BY TrustAssumption DEF Decisions, DeleteEdge, Running
<1>2. graph'[Edge[r]] = None /\ store'[Edge[r]] = None /\ promised'[Edge[r]] = None
  BY <1>1 DEF DeleteEdge, Deleted, WordInv, InGraph, Typed
<1>3. \A e \in Edges \ {Edge[r]} :
         graph'[e] = graph[e] /\ store'[e] = store[e] /\ promised'[e] = promised[e]
  BY DEF DeleteEdge, Deleted, WordInv, Typed
<1> QED BY <1>1, <1>2, <1>3, EndWord DEF DeleteEdge

LEMMA RemoveWord ==
    ASSUME WordInv, NEW r \in Revocations, RemoveEdge(r)
    PROVE  Alone' /\ AllSame' /\ InGraph' /\ DueExpired'
<1>1. /\ r \in Decisions /\ Edge[r] \in Edges /\ r \in Running
      /\ decision' = [decision EXCEPT ![r] = "delete"] /\ graph' = [graph EXCEPT ![Edge[r]] = None]
      /\ store' = store /\ promised' = promised /\ expired' = expired /\ sweep' = sweep
  BY TrustAssumption DEF Decisions, RemoveEdge, Running, Move
<1>2. Running = {r} /\ Running' = {r} /\ sweep.pc = "idle"
  BY <1>1 DEF WordInv, Typed, Alone, Running
<1>3. Alone'
  BY <1>1, <1>2, AloneStays DEF WordInv
<1>4. AllSame'
  <2> SUFFICES ASSUME NEW e \in Edges PROVE Same(e)' \/ \E c \in Running' : Edge[c] = e
    BY DEF AllSame, Same, Live
  <2>1. CASE e = Edge[r]
    BY <1>2, <2>1
  <2>2. CASE e # Edge[r]
    <3>1. Same(e) /\ graph'[e] = graph[e]
      BY <1>1, <1>2, <2>2 DEF WordInv, AllSame, Typed
    <3> QED BY <1>1, <3>1 DEF Same, Live
  <2> QED BY <2>1, <2>2
<1>5. InGraph'
  <2>1. \A c \in Decisions : c # r => decision'[c] \in {"idle", "ok", "error"}
    BY <1>2 DEF Running
  <2>2. decision'[r] = "delete" /\ graph'[Edge[r]] = None
    BY <1>1 DEF WordInv, Typed
  <2> QED BY <2>1, <2>2 DEF InGraph
<1> QED BY <1>1, <1>2, <1>3, <1>4, <1>5 DEF DueExpired

\* The steps of the sweep: what leaves the graph or the store was not in force.
LEMMA PruneWord ==
    ASSUME WordInv, Calm', Prune
    PROVE  Alone' /\ AllSame' /\ InGraph' /\ DueExpired'
<1> USE DEF WordInv
<1>1. decision' = decision /\ expired' = expired /\ promised' = promised /\ Running' = Running
  BY DEF Prune, PruneGraph, PruneList, PruneStore, Running
<1>2. Running = {}
  <2>1. CASE PruneGraph
    <3>1. sweep'.pc = "list"
      BY <2>1 DEF PruneGraph, Typed
    <3>2. Cardinality(Running) \in Nat
      BY FS_CardinalityType DEF Alone
    <3>3. Cardinality(Running) = 0
      BY <1>1, <3>1, <3>2 DEF Calm, AtWork
    <3> QED BY <3>3, FS_EmptySet DEF Alone
  <2>2. CASE PruneList
    BY <2>2 DEF PruneList, Alone
  <2>3. CASE PruneStore
    BY <2>3 DEF PruneStore, Alone
  <2> QED BY <2>1, <2>2, <2>3 DEF Prune
<1>3. Alone'
  BY <1>1, <1>2, FS_EmptySet DEF Alone
<1>4. \A e \in Edges : Same(e)
  BY <1>2 DEF AllSame
<1>5. \A e \in Edges :
         /\ graph'[e] = graph[e] \/ (graph'[e] = None /\ ~Live(graph[e]))
         /\ store'[e] = store[e] \/ (store'[e] = None /\ ~Live(store[e]))
  <2>1. CASE PruneGraph
    <3>1. store' = store /\ graph' = [e \in Edges |-> IF Live(graph[e]) THEN graph[e] ELSE None]
      BY <2>1 DEF PruneGraph
    <3> QED BY <3>1 DEF Live
  <2>2. CASE PruneList
    BY <2>2 DEF PruneList
  <2>3. CASE PruneStore
    <3>1. PICK d \in sweep.due : store' = [store EXCEPT ![d] = None]
      BY <2>3 DEF PruneStore
    <3>2. ~Live(store[d])
      BY <2>3 DEF PruneStore, DueExpired, Live
    <3>3. graph' = graph /\ d \in Edges
      BY <2>3, <3>1 DEF PruneStore, Typed
    <3>4. \A e \in Edges : store'[e] = IF e = d THEN None ELSE store[e]
      BY <3>1, <3>3 DEF Typed
    <3> HIDE DEF WordInv
    <3> QED BY <3>2, <3>3, <3>4
  <2> QED BY <2>1, <2>2, <2>3 DEF Prune
<1>6. AllSame'
  <2> SUFFICES ASSUME NEW e \in Edges PROVE Same(e)'
    BY DEF AllSame, Same, Live
  <2>1. Same(e)
    BY <1>4
  <2>2. /\ graph'[e] = graph[e] \/ (graph'[e] = None /\ ~Live(graph[e]))
        /\ store'[e] = store[e] \/ (store'[e] = None /\ ~Live(store[e]))
    BY <1>5
  <2> QED BY <1>1, <2>1, <2>2 DEF Same, Live
<1>7. InGraph'
  BY <1>1, <1>2 DEF InGraph, Running
<1>8. DueExpired'
  <2>1. CASE PruneGraph
    BY <2>1 DEF PruneGraph, DueExpired, Typed
  <2>2. CASE PruneList
    BY <2>2 DEF PruneList, DueExpired, Due
  <2>3. CASE PruneStore
    <3>1. PICK d \in sweep.due :
             /\ store' = [store EXCEPT ![d] = None]
             /\ sweep' = [pc |-> IF sweep.due = {d} THEN "idle" ELSE "delete", due |-> sweep.due \ {d}]
      BY <2>3 DEF PruneStore
    <3>2. \A e \in sweep.due \ {d} : store'[e] = store[e] /\ store[e] \in expired
      BY <2>3, <3>1 DEF PruneStore, DueExpired, Typed
    <3> QED BY <1>1, <3>1, <3>2 DEF DueExpired
  <2> QED BY <2>1, <2>2, <2>3 DEF Prune
<1> QED BY <1>3, <1>6, <1>7, <1>8

LEMMA RestartWord ==
    ASSUME WordInv, Reload
    PROVE  Alone' /\ AllSame' /\ InGraph' /\ DueExpired'
<1>1. /\ graph' = store /\ store' = store /\ expired' = expired /\ sweep'.pc = "idle"
      /\ promised' = [e \in Edges |-> IF \E c \in Running : Edge[c] = e THEN store[e] ELSE promised[e]]
  BY DEF Reload
<1>2. \A c \in Decisions : decision'[c] \in {"idle", "ok", "error"}
  BY DEF Reload, Running, WordInv, Typed
<1>3. Running' = {}
  BY <1>2 DEF Running
<1>4. Alone'
  BY <1>3, FS_EmptySet DEF Alone
<1>5. AllSame'
  <2> SUFFICES ASSUME NEW e \in Edges PROVE Same(e)'
    BY DEF AllSame, Same, Live
  <2>1. CASE \E c \in Running : Edge[c] = e
    BY <1>1, <2>1 DEF Same
  <2>2. CASE ~ \E c \in Running : Edge[c] = e
    <3>1. Same(e)
      BY <2>2 DEF WordInv, AllSame
    <3>2. promised'[e] = promised[e]
      BY <1>1, <2>2
    <3> QED BY <1>1, <3>1, <3>2 DEF Same, Live
  <2> QED BY <2>1, <2>2
<1>6. InGraph'
  BY <1>2 DEF InGraph
<1> QED BY <1>1, <1>4, <1>5, <1>6 DEF DueExpired

LEMMA ExpireWord ==
    ASSUME WordInv, NEW d \in Declarations, ExpireEdge(d)
    PROVE  Alone' /\ AllSame' /\ InGraph' /\ DueExpired'
<1>1. /\ graph' = graph /\ store' = store /\ decision' = decision /\ sweep' = sweep /\ promised' = promised
      /\ expired \subseteq expired' /\ Running' = Running
  BY DEF ExpireEdge, Running
<1>2. Alone'
  BY <1>1, AloneStays DEF WordInv
<1>3. AllSame'
  <2> SUFFICES ASSUME NEW e \in Edges PROVE Same(e)' \/ \E c \in Running' : Edge[c] = e
    BY DEF AllSame, Same, Live
  <2>1. Same(e) \/ \E c \in Running' : Edge[c] = e
    BY <1>1 DEF WordInv, AllSame
  <2>2. Same(e) => Same(e)'
    BY <1>1 DEF Same, Live
  <2> QED BY <2>1, <2>2
<1>4. InGraph' /\ DueExpired'
  BY <1>1 DEF WordInv, InGraph, DueExpired
<1> QED BY <1>2, <1>3, <1>4

LEMMA RefuseWord ==
    ASSUME WordInv, NEW c \in Decisions, Refuse(c)
    PROVE  Alone' /\ AllSame' /\ InGraph' /\ DueExpired'
<1>1. /\ graph' = graph /\ store' = store /\ sweep' = sweep /\ promised' = promised /\ expired' = expired
      /\ decision[c] = "idle" /\ decision' = [decision EXCEPT ![c] = "error"]
  BY DEF Refuse, Move
<1>2. Running' = Running
  BY <1>1 DEF Running, WordInv, Typed
<1>3. Alone'
  BY <1>1, <1>2, AloneStays DEF WordInv
<1>4. AllSame'
  BY <1>1, <1>2 DEF WordInv, AllSame, Same, Live
<1>5. InGraph' /\ DueExpired'
  BY <1>1 DEF WordInv, InGraph, DueExpired, Typed
<1> QED BY <1>3, <1>4, <1>5

LEMMA WordStep ==
    ASSUME WordInv, Calm', [TrustNext]_trustVars
    PROVE  WordInv'
<1>1. Typed'
  BY TypedStep DEF WordInv
<1> SUFFICES Alone' /\ AllSame' /\ InGraph' /\ DueExpired'
  BY <1>1 DEF WordInv
<1>2. ASSUME NEW d \in Declarations, Declare(d) \/ SaveEdge(d) \/ Undo(d) \/ ExpireEdge(d)
      PROVE  Alone' /\ AllSame' /\ InGraph' /\ DueExpired'
  <2>1. ~Undo(d)
    BY DEF Undo, WordInv, InGraph, Decisions
  <2> QED BY <1>2, <2>1, DeclareWord, SaveWord, ExpireWord
<1>3. ASSUME NEW r \in Revocations, Revoke(r) \/ RemoveEdge(r) \/ DeleteEdge(r) \/ Restore(r)
      PROVE  Alone' /\ AllSame' /\ InGraph' /\ DueExpired'
  <2>1. ~Restore(r)
    BY DEF Restore, WordInv, InGraph, Decisions
  <2> QED BY <1>3, <2>1, RevokeWord, RemoveWord, DeleteWord
<1>4. ASSUME NEW c \in Decisions, Refuse(c) \/ WriteFails(c)
      PROVE  Alone' /\ AllSame' /\ InGraph' /\ DueExpired'
  <2>1. ~WriteFails(c)
    BY DEF WriteFails, Move, Calm, WordInv, Typed
  <2> QED BY <1>4, <2>1, RefuseWord
<1>5. CASE UNCHANGED trustVars
  BY <1>5 DEF trustVars, WordInv, Alone, Running, AllSame, Same, Live, InGraph, DueExpired
<1> QED BY <1>2, <1>3, <1>4, <1>5, PruneWord, RestartWord DEF TrustNext

LEMMA WordFromInv == ASSUME WordInv PROVE Kept
<1> SUFFICES ASSUME Idle, NEW e \in Edges
             PROVE  Live(promised[e]) = Live(graph[e]) /\ Live(promised[e]) = Live(store[e])
  BY DEF Kept
<1>1. Running = {}
  BY NobodyWorks DEF Idle, WordInv
<1>2. Same(e)
  BY <1>1 DEF WordInv, AllSame
<1> QED BY <1>2 DEF Same, Live

\* As long as there is one handler or sweep at a time and no write fails: at rest, the graph and
\* the store say of every edge what its owner was told, through any number of restarts and
\* expiries (server.go:862-971, 1343-1371, main.go:187-201).
THEOREM OwnerIsHeard == TrustSpec => WordIsKept
BY WordBegins, WordStep, WordFromInv, PTL DEF TrustSpec, WordIsKept
=============================================================================
