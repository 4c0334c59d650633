-------------------------- MODULE MembershipProofs --------------------------
(***************************************************************************)
(* Overlay addresses, for any number of nodes, calls and addresses: the     *)
(* lock of IPAM keeps the allocations apart whatever happens, and as long   *)
(* as no node is removed, every record and every handler about to write one *)
(* carries the address allocated to its node, so that records are apart too.*)
(* And what a client is sent that walks through the list of jobs or nodes.  *)
(***************************************************************************)
EXTENDS Membership, Listing, WellFoundedInduction, FiniteSetTheorems, TLAPS

Invite == [count : Nat, used : BOOLEAN, expired : BOOLEAN, exists : BOOLEAN]
Record == [fp : {"none"} \cup {Fp(c) : c \in Calls}, ip : Addresses \cup {0}]
Local == [pc : Places, id : IDs \cup {0}, ip : Addresses \cup {0}, ic : Invite]

\* The local variables of handler c make sense: it has an ID, and a code if it redeems one.
Sensible(c, l) ==
    /\ l \in Local
    /\ l.pc \notin {"idle", "done", "refused"} => l.id \in IDs
    /\ l.pc \in {"redeem", "count"} => Presented[c] \in Codes

Typed ==
    /\ nodes \in [IDs -> Record]
    /\ alloc \in [IDs -> Addresses \cup {0}]
    /\ invites \in [Codes -> Invite]
    /\ call \in [Calls -> Local]
    /\ \A c \in Calls : Sensible(c, call[c])

\* A handler about to write a record has the address that is allocated to its node.
Ready(l) == l.pc \in {"register", "save"} => l.ip # 0 /\ l.ip = alloc[l.id]

\* Without removals, what is written is what is allocated.
Written ==
    /\ budget \in [Kinds -> Nat] /\ budget.remove = 0
    /\ removal.pc = "idle"
    /\ \A i \in Known : nodes[i].ip # 0 /\ nodes[i].ip = alloc[i]
    /\ \A c \in Calls : Ready(call[c])

IInv ==
    /\ Typed
    /\ AllocationsDiffer
    /\ Budget.remove = 0 => Written

-----------------------------------------------------------------------------
\* A set of natural numbers has a smallest element.
LEMMA Smallest ==
    ASSUME NEW S \in SUBSET Nat, S # {}
    PROVE  \E x \in S : \A y \in S : x <= y
<1> DEFINE R == OpToRel(<, Nat)
<1>1. IsWellFoundedOn(R, Nat)
  BY NatLessThanWellFounded
<1>2. PICK x \in S : \A y \in S : ~ (<<y, x>> \in R)
  <2> HIDE DEF R
  <2> QED BY <1>1, WFMin
<1>3. \A y \in S : ~ (y < x)
  BY <1>2 DEF OpToRel
<1> QED BY <1>3

LEMMA LastFact ==
    ASSUME NEW fp, Matches(fp) # {}
    PROVE  Last(Matches(fp)) \in Matches(fp)
<1>1. Matches(fp) \in SUBSET IDs
  BY DEF Matches, Known
<1>2. \E x \in Matches(fp) : \A y \in Matches(fp) : y <= x
  BY <1>1, MembershipAssumption
<1> QED BY <1>2 DEF Last

-----------------------------------------------------------------------------
\* Steps.

LEMMA InitInv == Init => IInv
<1> SUFFICES ASSUME Init PROVE IInv
  OBVIOUS
<1>1. NoNode \in Record /\ NoInvite \in Invite
  BY DEF NoNode, NoInvite, Record, Invite
<1>2. Typed
  BY <1>1 DEF Init, Typed, Sensible, Local, Places
<1>3. AllocationsDiffer
  BY DEF Init, AllocationsDiffer
<1>4. Budget.remove = 0 => Written
  BY MembershipAssumption DEF Init, Written, Known, Ready
<1> QED BY <1>2, <1>3, <1>4 DEF IInv

LEMMA BudgetFact ==
    ASSUME NEW k \in Kinds, budget \in [Kinds -> Nat], budget.remove = 0, Spend(k)
    PROVE  budget' \in [Kinds -> Nat] /\ budget'.remove = 0 /\ k # "remove"
BY DEF Spend, Kinds

\* A handler moves on; the records, the allocations and the codes stay as they are.
LEMMA MoveInv ==
    ASSUME IInv, NEW c \in Calls, NEW l, Sensible(c, l),
           call' = [call EXCEPT ![c] = l],
           UNCHANGED <<nodes, alloc, invites, removal>>,
           Keep \/ Spend("disk"),
           Budget.remove = 0 => Ready(l)
    PROVE  IInv'
<1>1. Typed'
  BY DEF IInv, Typed, Sensible
<1>2. Budget.remove = 0 => Written'
  <2>1. SUFFICES ASSUME Budget.remove = 0 PROVE Written'
    OBVIOUS
  <2>2. budget' \in [Kinds -> Nat] /\ budget'.remove = 0
    BY <2>1, BudgetFact DEF IInv, Written, Keep, Kinds
  <2>3. \A d \in Calls : Ready(call'[d])
    BY <2>1 DEF IInv, Typed, Written
  <2> QED BY <2>1, <2>2, <2>3 DEF IInv, Written, Known, Ready
<1> QED BY <1>1, <1>2 DEF IInv, AllocationsDiffer

LEMMA BeginInv == ASSUME IInv, NEW c \in Calls, Begin(c) PROVE IInv'
<1>1. call[c] \in Local
  BY DEF IInv, Typed
<1>2. CASE HasRecord(c)
  <2> DEFINE i == Last(Matches(Fp(c)))
             l == [call[c] EXCEPT !.pc = "register", !.id = i, !.ip = nodes[i].ip]
  <2>1. i \in Known /\ i \in IDs
    BY <1>2, LastFact DEF HasRecord, Matches, Known
  <2>2. nodes[i].ip \in Addresses \cup {0}
    BY <2>1 DEF IInv, Typed, Record
  <2>3. call' = [call EXCEPT ![c] = l]
    BY <1>2 DEF Begin
  <2>4. Sensible(c, l)
    <3> HIDE DEF i
    <3> QED BY <1>1, <2>1, <2>2 DEF Sensible, Local, Places
  <2>5. Budget.remove = 0 => Ready(l)
    <3> HIDE DEF i
    <3> QED BY <1>1, <2>1 DEF IInv, Written, Ready, Local
  <2> HIDE DEF l
  <2> QED BY <2>3, <2>4, <2>5, MoveInv DEF Begin
<1>3. CASE ~HasRecord(c)
  <2>1. PICK i \in IDs : call' = [call EXCEPT ![c] = [@ EXCEPT !.pc = "validate", !.id = i]]
    BY <1>3 DEF Begin
  <2> DEFINE l == [call[c] EXCEPT !.pc = "validate", !.id = i]
  <2>2. Sensible(c, l) /\ Ready(l)
    BY <1>1 DEF Sensible, Ready, Local, Places
  <2>3. call' = [call EXCEPT ![c] = l]
    BY <2>1
  <2> HIDE DEF l
  <2> QED BY <2>2, <2>3, MoveInv DEF Begin
<1> QED BY <1>2, <1>3

LEMMA GotoInv ==
    ASSUME IInv, NEW c \in Calls, NEW pc \in Places, Goto(c, pc),
           call[c].id \in IDs, pc \in {"redeem", "count"} => Presented[c] \in Codes,
           pc \notin {"register"},
           pc = "save" => call[c].pc = "register",
           UNCHANGED <<nodes, alloc, invites, removal>>, Keep \/ Spend("disk")
    PROVE  IInv'
<1> DEFINE l == [call[c] EXCEPT !.pc = pc]
<1>1. call[c] \in Local
  BY DEF IInv, Typed
<1>2. Sensible(c, l)
  BY <1>1 DEF Sensible, Local
<1>3. Budget.remove = 0 => Ready(l)
  BY <1>1 DEF IInv, Written, Ready, Local
<1>4. call' = [call EXCEPT ![c] = l]
  BY DEF Goto
<1> HIDE DEF l
<1> QED BY <1>2, <1>3, <1>4, MoveInv

LEMMA WalkInv ==
    ASSUME IInv, NEW c \in Calls, Validate(c) \/ Recheck(c) \/ Register(c) \/ SaveFails(c)
    PROVE  IInv'
<1>1. call[c].id \in IDs
  BY DEF Validate, Recheck, Register, SaveFails, IInv, Typed, Sensible
<1>2. CASE Validate(c)
  <2>1. \/ Goto(c, "allocate") \/ Goto(c, "refused")
        \/ Goto(c, "redeem") /\ Presented[c] \in Codes
    BY <1>2, MembershipAssumption DEF Validate
  <2> QED BY <1>1, <1>2, <2>1, GotoInv DEF Validate, Places
<1>3. CASE Recheck(c)
  <2>1. Goto(c, "refused") \/ Goto(c, "allocate")
    BY <1>3 DEF Recheck
  <2> QED BY <1>1, <1>3, <2>1, GotoInv DEF Recheck, Places
<1>4. CASE Register(c)
  BY <1>1, <1>4, GotoInv DEF Register, Places
<1>5. CASE SaveFails(c)
  BY <1>1, <1>5, GotoInv DEF SaveFails, Places
<1> QED BY <1>2, <1>3, <1>4, <1>5

LEMMA ReadInviteInv == ASSUME IInv, NEW c \in Calls, ReadInvite(c) PROVE IInv'
<1> DEFINE ic == invites[Presented[c]]
           l == IF Redeemable(ic) THEN [call[c] EXCEPT !.pc = "count", !.ic = Redeemed(ic)]
                ELSE [call[c] EXCEPT !.pc = "refused"]
<1>1. call[c] \in Local /\ call[c].id \in IDs /\ Presented[c] \in Codes
  BY DEF ReadInvite, IInv, Typed, Sensible
<1>2. Redeemed(ic) \in Invite
  <2>1. ic \in Invite
    BY <1>1 DEF IInv, Typed
  <2>2. ic.count + 1 \in Nat /\ (ic.count + 1 >= MaxUses) \in BOOLEAN
    BY <2>1 DEF Invite
  <2> HIDE DEF ic
  <2> QED BY <2>1, <2>2 DEF Redeemed, Invite
<1>3. Sensible(c, l) /\ Ready(l)
  <2> HIDE DEF ic
  <2> QED BY <1>1, <1>2 DEF Sensible, Ready, Local, Places
<1>4. call' = [call EXCEPT ![c] = l]
  BY DEF ReadInvite
<1> HIDE DEF l
<1> QED BY <1>3, <1>4, MoveInv DEF ReadInvite

\* Codes have no influence on addresses.
LEMMA CodesInv ==
    ASSUME IInv, invites' \in [Codes -> Invite],
           UNCHANGED <<nodes, alloc, call, removal>>, Keep \/ Spend("expire")
    PROVE  IInv'
<1>1. Typed'
  BY DEF IInv, Typed, Sensible
<1>2. Budget.remove = 0 => Written'
  BY BudgetFact DEF IInv, Written, Keep, Kinds, Known, Ready
<1> QED BY <1>1, <1>2 DEF IInv, AllocationsDiffer

LEMMA SaveInviteInv == ASSUME IInv, NEW c \in Calls, SaveInvite(c) PROVE IInv'
<1> DEFINE l == [call[c] EXCEPT !.pc = "recheck"]
<1>1. call[c] \in Local /\ call[c].id \in IDs
  BY DEF SaveInvite, IInv, Typed, Sensible
<1>2. Sensible(c, l) /\ Ready(l)
  BY <1>1 DEF Sensible, Ready, Local, Places
<1>3. call' = [call EXCEPT ![c] = l]
  BY DEF SaveInvite, Goto
<1>4. invites' \in [Codes -> Invite]
  BY <1>1 DEF SaveInvite, IInv, Typed, Local
<1>5. Typed'
  <2> HIDE DEF l
  <2> QED BY <1>2, <1>3, <1>4 DEF SaveInvite, IInv, Typed, Sensible
<1>6. Budget.remove = 0 => Written'
  <2> HIDE DEF l
  <2> QED BY <1>2, <1>3 DEF SaveInvite, IInv, Typed, Written, Keep, Known, Ready
<1> QED BY <1>5, <1>6 DEF IInv, SaveInvite, AllocationsDiffer

\* The address that Allocate takes is that of the node or nobody's.
LEMMA AllocateInv == ASSUME IInv, NEW c \in Calls, Allocate(c) PROVE IInv'
<1> DEFINE i == call[c].id
           open == Addresses \ Taken
           a == IF alloc[i] # 0 THEN alloc[i]
                ELSE IF open # {} THEN CHOOSE x \in open : \A y \in open : x <= y ELSE 0
           l == [call[c] EXCEPT !.pc = IF HasIPAM /\ a # 0 THEN "register" ELSE "refused", !.ip = a]
<1>1. call[c] \in Local /\ i \in IDs
  BY DEF Allocate, IInv, Typed, Sensible
<1>2. /\ a \in Addresses \cup {0}
      /\ a # 0 => a = alloc[i] \/ \A j \in IDs : alloc[j] # a
  <2>1. CASE alloc[i] # 0
    BY <1>1, <2>1 DEF IInv, Typed
  <2>2. CASE alloc[i] = 0 /\ open # {}
    <3>1. \E x \in open : \A y \in open : x <= y
      <4>1. open \in SUBSET Nat
        BY MembershipAssumption
      <4> HIDE DEF open
      <4> QED BY <2>2, <4>1, Smallest
    <3>2. a \in open
      <4> HIDE DEF open
      <4> QED BY <2>2, <3>1
    <3> QED BY <3>2 DEF Taken
  <2>3. CASE alloc[i] = 0 /\ open = {}
    BY <2>3
  <2> QED BY <2>1, <2>2, <2>3
<1>3. call' = [call EXCEPT ![c] = l] /\ alloc' = (IF HasIPAM THEN [alloc EXCEPT ![i] = a] ELSE alloc)
  BY DEF Allocate
<1>4. call[c].pc = "allocate" /\ UNCHANGED <<nodes, invites, removal, budget>>
  BY DEF Allocate, Keep
<1> HIDE DEF a, i
<1>5. Sensible(c, l)
  <2> DEFINE pc == IF HasIPAM /\ a # 0 THEN "register" ELSE "refused"
  <2>1. pc \in Places /\ pc \notin {"redeem", "count"}
    BY DEF Places
  <2>2. l = [call[c] EXCEPT !.pc = pc, !.ip = a]
    OBVIOUS
  <2>3. call[c].id \in IDs /\ a \in Addresses \cup {0}
    BY <1>1, <1>2 DEF i
  <2> HIDE DEF pc, l
  <2>4. l \in Local /\ l.id \in IDs /\ l.pc = pc
    BY <1>1, <2>1, <2>2, <2>3 DEF Local
  <2> QED BY <2>1, <2>4 DEF Sensible
<1>6. /\ l.pc \in {"register", "save"} => HasIPAM /\ l.ip # 0 /\ l.ip = a /\ l.id = i
      /\ HasIPAM => \A j \in IDs : alloc[j] # 0 => alloc'[j] = alloc[j]
  <2>1. l.pc \in {"register", "save"} => HasIPAM /\ l.ip # 0 /\ l.ip = a /\ l.id = i
    BY <1>1 DEF Local, i
  <2>2. alloc[i] # 0 => a = alloc[i]
    BY DEF a, i
  <2> QED BY <2>1, <2>2, <1>1, <1>3 DEF IInv, Typed
<1> HIDE DEF l
<1>7. Typed'
  BY <1>1, <1>2, <1>3, <1>4, <1>5 DEF IInv, Typed, Sensible
<1>8. AllocationsDiffer'
  BY <1>1, <1>2, <1>3 DEF IInv, Typed, AllocationsDiffer
<1>9. Budget.remove = 0 => Written'
  <2>1. SUFFICES ASSUME Budget.remove = 0 PROVE Written'
    OBVIOUS
  <2>2. \A j \in IDs : alloc[j] # 0 => alloc'[j] = alloc[j]
    BY <1>3, <1>6
  <2>3. \A j \in Known : nodes[j].ip # 0 /\ nodes[j].ip = alloc'[j]
    BY <2>1, <2>2 DEF IInv, Written, Known
  <2>4. ASSUME NEW d \in Calls, call'[d].pc \in {"register", "save"}
        PROVE  call'[d].ip # 0 /\ call'[d].ip = alloc'[call'[d].id]
    <3>1. CASE d = c
      <4>1. call'[d] = l
        BY <3>1, <1>3 DEF IInv, Typed
      <4>2. alloc'[i] = a
        BY <4>1, <2>4, <1>1, <1>3, <1>6 DEF IInv, Typed
      <4> QED BY <4>1, <4>2, <2>4, <1>6
    <3>2. CASE d # c
      <4>1. call'[d] = call[d] /\ call[d].id \in IDs
        BY <3>2, <2>4, <1>3 DEF IInv, Typed, Sensible
      <4> QED BY <4>1, <2>1, <2>2, <2>4 DEF IInv, Written, Ready
    <3> QED BY <3>1, <3>2
  <2> QED BY <2>1, <2>3, <2>4, <1>4 DEF IInv, Written, Known, Ready
<1> QED BY <1>7, <1>8, <1>9 DEF IInv

LEMMA SaveInv == ASSUME IInv, NEW c \in Calls, Save(c) PROVE IInv'
<1> DEFINE l == [call[c] EXCEPT !.pc = "done"]
           n == [fp |-> Fp(c), ip |-> call[c].ip]
<1>1. call[c] \in Local /\ call[c].id \in IDs
  BY DEF Save, IInv, Typed, Sensible
<1>2. Sensible(c, l) /\ Ready(l) /\ n \in Record
  BY <1>1 DEF Sensible, Ready, Local, Places, Record
<1>3. call' = [call EXCEPT ![c] = l] /\ nodes' = [nodes EXCEPT ![call[c].id] = n]
  BY DEF Save, Goto
<1>4. Typed'
  <2> HIDE DEF l, n
  <2> QED BY <1>1, <1>2, <1>3 DEF Save, IInv, Typed, Sensible
<1>5. Budget.remove = 0 => Written'
  <2>1. SUFFICES ASSUME Budget.remove = 0 PROVE Written'
    OBVIOUS
  <2>2. n.ip # 0 /\ n.ip = alloc[call[c].id]
    BY <2>1 DEF Save, IInv, Written, Ready
  <2>3. \A j \in IDs : nodes'[j] = IF j = call[c].id THEN n ELSE nodes[j]
    BY <1>1, <1>3 DEF IInv, Typed
  <2> HIDE DEF l, n
  <2> QED BY <1>2, <1>3, <2>1, <2>2, <2>3 DEF Save, IInv, Typed, Written, Keep, Known, Ready
<1> QED BY <1>4, <1>5 DEF Save, IInv, AllocationsDiffer

\* The three steps of a removal; there is none if the budget for them is 0.
LEMMA RemovalInv == ASSUME IInv, (\E i \in IDs : Unregister(i)) \/ Release \/ Delete PROVE IInv'
<1>1. Budget.remove # 0
  BY BudgetFact DEF IInv, Written, Unregister, Release, Delete, Kinds
<1>2. CASE \E i \in IDs : Unregister(i)
  BY <1>1, <1>2 DEF Unregister, IInv, Typed, Sensible, AllocationsDiffer
<1>3. CASE Release
  BY <1>1, <1>3 DEF Release, IInv, Typed, Sensible, AllocationsDiffer
<1>4. CASE Delete
  BY <1>1, <1>4 DEF Delete, IInv, Typed, Sensible, AllocationsDiffer, NoNode, Record
<1> QED BY <1>2, <1>3, <1>4

LEMMA RestartInv == ASSUME IInv, Restart PROVE IInv'
<1>1. \A c \in Calls : call'[c] = IF c \in Active THEN [call[c] EXCEPT !.pc = "refused"] ELSE call[c]
  BY DEF Restart
<1>2. ASSUME NEW c \in Calls
      PROVE  call'[c] \in Local /\ Sensible(c, call'[c]) /\ (Ready(call[c]) => Ready(call'[c]))
  <2>1. call[c] \in Local /\ Sensible(c, call[c])
    BY DEF IInv, Typed
  <2>2. CASE c \in Active
    <3>1. call'[c] = [call[c] EXCEPT !.pc = "refused"]
      BY <1>1, <2>2
    <3> QED BY <2>1, <3>1 DEF Sensible, Local, Places, Ready
  <2>3. CASE c \notin Active
    BY <1>1, <2>1, <2>3
  <2> QED BY <2>2, <2>3
<1>3. Typed'
  BY <1>2 DEF Restart, IInv, Typed, Sensible
<1>4. Budget.remove = 0 => Written'
  BY <1>2, BudgetFact DEF Restart, IInv, Written, Kinds, Known, Ready
<1> QED BY <1>3, <1>4 DEF Restart, IInv, AllocationsDiffer

LEMMA StepInv == ASSUME IInv, [Next]_vars PROVE IInv'
<1>1. CASE UNCHANGED vars
  BY <1>1 DEF vars, IInv, Typed, Sensible, AllocationsDiffer, Written, Known, Ready
<1>2. ASSUME NEW c \in Calls, RegisterNode(c) PROVE IInv'
  BY <1>2, BeginInv, WalkInv, ReadInviteInv, SaveInviteInv, AllocateInv, SaveInv DEF RegisterNode
<1>3. ASSUME (\E i \in IDs : Unregister(i)) \/ Release \/ Delete PROVE IInv'
  BY <1>3, RemovalInv
<1>4. CASE Restart
  BY <1>4, RestartInv
<1>5. ASSUME NEW k \in Codes, CreateInvite(k) \/ Expire(k) PROVE IInv'
  <2>1. invites' \in [Codes -> Invite]
    BY <1>5 DEF CreateInvite, Expire, IInv, Typed, Invite
  <2> QED BY <1>5, <2>1, CodesInv DEF CreateInvite, Expire
<1> QED BY <1>1, <1>2, <1>3, <1>4, <1>5 DEF Next

\* The lock of IPAM is enough to keep allocations apart: whichever calls and removals
\* overlap, however often the scheduler restarts, no address is allocated twice.
THEOREM AllocationsStayApart == Spec => []AllocationsDiffer
<1>1. IInv /\ [Next]_vars => IInv'
  BY StepInv
<1>2. IInv => AllocationsDiffer
  BY DEF IInv
<1> QED BY InitInv, <1>1, <1>2, PTL DEF Spec

\* As long as no node is removed, the records of two nodes never carry one address.
THEOREM AddressesStayApart == ASSUME Budget.remove = 0 PROVE Spec => []AddressesDiffer
<1>1. IInv /\ [Next]_vars => IInv'
  BY StepInv
<1>2. IInv => AddressesDiffer
  BY DEF IInv, Written, AddressesDiffer, AllocationsDiffer, Known
<1> QED BY InitInv, <1>1, <1>2, PTL DEF Spec

-----------------------------------------------------------------------------
\* The address book that the node records make up.
Book == [i \in IDs |-> nodes[i].ip]

\* A record that is saved gives a new member an address that no other member has, or
\* leaves a member the address it had.
LEMMA SaveKeepsBook ==
    ASSUME IInv, Budget.remove = 0, NEW c \in Calls, Save(c)
    PROVE  UNCHANGED Book \/ Promised!Next
<1> DEFINE i == call[c].id
           a == call[c].ip
<1>1. i \in IDs /\ a \in Addresses /\ a = alloc[i]
  <2>1. call[c] \in Local /\ i \in IDs /\ call[c].pc = "save"
    BY DEF Save, IInv, Typed, Sensible
  <2>2. a # 0 /\ a = alloc[i]
    BY <2>1 DEF IInv, Written, Ready
  <2> QED BY <2>1, <2>2 DEF Local
<1>2. \A j \in IDs : nodes'[j] = IF j = i THEN [fp |-> Fp(c), ip |-> a] ELSE nodes[j]
  BY <1>1 DEF Save, IInv, Typed
<1>3. \A j \in IDs : Book'[j] = IF j = i THEN a ELSE Book[j]
  BY <1>2 DEF Book
<1>4. \A j \in IDs : Book[j] = IF j \in Known THEN alloc[j] ELSE 0
  BY DEF Book, Known, NoNode, IInv, Written
<1>5. \A j \in IDs \ {i} : alloc[j] # a
  BY <1>1, MembershipAssumption DEF IInv, AllocationsDiffer
<1>6. a # 0
  BY <1>1, MembershipAssumption
<1> HIDE DEF i, a
<1>7. Book' = [Book EXCEPT ![i] = a]
  BY <1>1, <1>3 DEF Book
<1>8. CASE i \in Known
  BY <1>1, <1>4, <1>7, <1>8 DEF Book
<1>9. CASE i \notin Known
  <2>1. Book[i] = 0 /\ \A j \in IDs : Book[j] # a
    BY <1>1, <1>4, <1>5, <1>6, <1>9
  <2> QED BY <1>1, <1>7, <2>1 DEF Promised!Next, Promised!Join, Book
<1> QED BY <1>8, <1>9

LEMMA StepKeepsBook ==
    ASSUME IInv, Budget.remove = 0, [Next]_vars
    PROVE  UNCHANGED Book \/ Promised!Next
<1>1. CASE \E c \in Calls : Save(c)
  BY <1>1, SaveKeepsBook
<1>2. CASE UNCHANGED nodes
  BY <1>2 DEF Book
<1>3. ASSUME NEW c \in Calls, RegisterNode(c), ~ Save(c) PROVE UNCHANGED nodes
  BY <1>3 DEF RegisterNode, Begin, Validate, ReadInvite, SaveInvite, Recheck, Allocate, Register, SaveFails
<1>4. ~ Delete
  BY DEF Delete, IInv, Written
<1>5. ASSUME (\E i \in IDs : Unregister(i)) \/ Release \/ Restart \/ (\E k \in Codes : CreateInvite(k) \/ Expire(k))
      PROVE  UNCHANGED nodes
  BY <1>5 DEF Unregister, Release, Restart, CreateInvite, Expire
<1> QED BY <1>1, <1>2, <1>3, <1>4, <1>5 DEF Next, vars

\* As long as no node is removed, registration implements the address book: whatever calls
\* overlap, fail or are cut by a restart, members get addresses of their own and keep them.
THEOREM RegistrationImplementsBook == ASSUME Budget.remove = 0 PROVE Spec => KeepsAddressBook
<1>1. IInv /\ [Next]_vars => IInv'
  BY StepInv
<1>2. Init => Promised!Init
  BY DEF Init, Promised!Init, NoNode
<1>3. IInv /\ [Next]_vars => [Promised!Next]_Book
  BY StepKeepsBook
<1>4. IInv /\ [Next]_vars => [Promised!Next]_[i \in IDs |-> nodes[i].ip]
  BY <1>3 DEF Book
<1> QED BY InitInv, <1>1, <1>2, <1>4, PTL DEF Spec, KeepsAddressBook, Promised!Spec

-----------------------------------------------------------------------------
\* One record per machine.

\* No two calls of one fingerprint are being served.  The handler looks the fingerprint up
\* and saves the record much later, so this is what it takes.
OneAtATime == \A c, d \in Active : c # d /\ Fp(c) = Fp(d) => Fp(c) = NoFingerprint

\* A handler that is going to save a record knows of the one its machine has.
Aware(c) == \A j \in Known : nodes[j].fp = Fp(c) /\ Fp(c) # NoFingerprint => j = call[c].id

SoleInv ==
    /\ Typed
    /\ OneNodePerMachine
    /\ \A c \in Active : Aware(c)

LEMMA SoleStep ==
    ASSUME SoleInv, OneAtATime, Typed', [Next]_vars
    PROVE  SoleInv'
<1>t. /\ nodes \in [IDs -> Record] /\ call \in [Calls -> Local] /\ call' \in [Calls -> Local]
      /\ \A c \in Active : call[c].id \in IDs
  BY DEF SoleInv, Typed, Sensible, Active
\* A handler that keeps its ID and its place among the calls, while no record is new.
<1>k. ASSUME \A i \in IDs : nodes'[i] = nodes[i] \/ nodes'[i] = NoNode,
             \A c \in Calls : c \in Active' => c \in Active /\ call'[c].id = call[c].id
      PROVE  SoleInv'
  BY <1>k DEF SoleInv, OneNodePerMachine, Known, Aware, Active
<1>1. CASE UNCHANGED vars
  BY <1>1, <1>k DEF vars, Active
<1>2. ASSUME NEW c \in Calls, Begin(c) PROVE SoleInv'
  <2>1. /\ UNCHANGED nodes /\ \A d \in Calls \ {c} : call'[d] = call[d]
    BY <1>t, <1>2 DEF Begin
  <2>2. \A j \in Known : nodes[j].fp = Fp(c) /\ Fp(c) # NoFingerprint => j = call'[c].id
    <3>1. CASE ~HasRecord(c)
      BY <3>1 DEF HasRecord, Matches
    <3>2. CASE HasRecord(c)
      <4>a. call' = [call EXCEPT ![c] = [@ EXCEPT !.pc = "register", !.id = Last(Matches(Fp(c))),
                                                    !.ip = nodes[Last(Matches(Fp(c)))].ip]]
        BY <1>2, <3>2 DEF Begin
      <4>1. call'[c].id = Last(Matches(Fp(c)))
        BY <1>t, <4>a DEF Local
      <4>2. Last(Matches(Fp(c))) \in Matches(Fp(c)) /\ Fp(c) # NoFingerprint
        BY <3>2, LastFact DEF HasRecord
      <4>3. PICK k \in Known : call'[c].id = k /\ nodes[k].fp = Fp(c)
        BY <4>1, <4>2 DEF Matches
      <4> QED BY <4>3 DEF SoleInv, OneNodePerMachine
    <3> QED BY <3>1, <3>2
  <2>3. \A d \in Active' : d # c => d \in Active /\ call'[d].id = call[d].id
    BY <2>1 DEF Active
  <2>4. ASSUME NEW d \in Active' PROVE Aware(d)'
    <3>1. Known' = Known
      BY <2>1 DEF Known
    <3>2. CASE d = c
      BY <2>1, <2>2, <3>1, <3>2 DEF Aware
    <3>3. CASE d # c
      <4>1. Aware(d) /\ call'[d].id = call[d].id
        BY <2>3, <3>3, <2>4 DEF SoleInv
      <4> QED BY <2>1, <3>1, <4>1 DEF Aware
    <3> QED BY <3>2, <3>3
  <2> QED BY <2>1, <2>4 DEF SoleInv, OneNodePerMachine, Known
<1>3. ASSUME NEW c \in Calls,
             \/ Validate(c) \/ ReadInvite(c) \/ SaveInvite(c) \/ Recheck(c) \/ Register(c) \/ SaveFails(c)
      PROVE  SoleInv'
  <2>1. c \in Active /\ UNCHANGED nodes
    BY <1>3 DEF Validate, ReadInvite, SaveInvite, Recheck, Register, SaveFails, Active
  <2>2. \/ \E pc : Goto(c, pc)
        \/ \E ic : call' = [call EXCEPT ![c] = [@ EXCEPT !.pc = "count", !.ic = ic]]
        \/ call' = [call EXCEPT ![c] = [@ EXCEPT !.pc = "refused"]]
    BY <1>3 DEF Validate, ReadInvite, SaveInvite, Recheck, Register, SaveFails
  <2>3. call'[c].id = call[c].id /\ \A d \in Calls \ {c} : call'[d] = call[d]
    BY <1>t, <2>2 DEF Goto, Local
  <2> QED BY <1>k, <2>1, <2>3 DEF Active
<1>4. ASSUME NEW c \in Calls, Allocate(c) PROVE SoleInv'
  <2>1. c \in Active /\ UNCHANGED nodes
    BY <1>4 DEF Allocate, Active
  <2>2. \E pc, a : call' = [call EXCEPT ![c] = [@ EXCEPT !.pc = pc, !.ip = a]]
    BY <1>4 DEF Allocate
  <2>3. call'[c].id = call[c].id /\ \A d \in Calls \ {c} : call'[d] = call[d]
    BY <1>t, <2>2 DEF Local
  <2> QED BY <1>k, <2>1, <2>3 DEF Active
<1>5. ASSUME NEW c \in Calls, Save(c) PROVE SoleInv'
  <2>1. c \in Active /\ call[c].id \in IDs
    BY <1>t, <1>5 DEF Save, Active
  <2>2. \A d \in Calls \ {c} : call'[d] = call[d]
    BY <1>t, <1>5 DEF Save, Goto
  <2>3. \A d \in Active' : d \in Active /\ d # c /\ call'[d].id = call[d].id
    BY <1>t, <1>5, <2>2 DEF Save, Goto, Active, Local
  <2>4. \A j \in IDs : nodes'[j] = IF j = call[c].id THEN [fp |-> Fp(c), ip |-> call[c].ip] ELSE nodes[j]
    BY <1>t, <1>5, <2>1 DEF Save
  <2>5. \A j \in Known' : \/ j = call[c].id /\ nodes'[j].fp = Fp(c)
                          \/ j # call[c].id /\ j \in Known /\ nodes'[j] = nodes[j]
    BY <2>4 DEF Known
  <2>6. Aware(c) /\ \A d \in Active : Aware(d)
    BY <2>1 DEF SoleInv
  <2>7. OneNodePerMachine'
    <3> SUFFICES ASSUME NEW i \in Known', NEW j \in Known', i # j, nodes'[i].fp = nodes'[j].fp
                 PROVE  nodes'[i].fp = NoFingerprint
      BY DEF OneNodePerMachine
    <3>1. CASE i = call[c].id \/ j = call[c].id
      BY <2>5, <2>6, <3>1 DEF Aware
    <3>2. CASE i # call[c].id /\ j # call[c].id
      BY <2>5, <3>2 DEF SoleInv, OneNodePerMachine
    <3> QED BY <3>1, <3>2
  <2>8. ASSUME NEW d \in Active' PROVE Aware(d)'
    <3>1. d \in Active /\ (Fp(d) = Fp(c) => Fp(c) = NoFingerprint) /\ call'[d].id = call[d].id /\ Aware(d)
      BY <2>1, <2>3, <2>6 DEF OneAtATime
    <3> QED BY <2>5, <3>1 DEF Aware
  <2> QED BY <2>7, <2>8 DEF SoleInv
<1>6. ASSUME \/ (\E i \in IDs : Unregister(i)) \/ Release \/ Delete
             \/ \E k \in Codes : CreateInvite(k) \/ Expire(k)
      PROVE  SoleInv'
  <2>1. UNCHANGED call
    BY <1>6 DEF Unregister, Release, Delete, CreateInvite, Expire
  <2>2. \A i \in IDs : nodes'[i] = nodes[i] \/ nodes'[i] = NoNode
    BY <1>t, <1>6 DEF Unregister, Release, Delete, CreateInvite, Expire
  <2> QED BY <1>k, <2>1, <2>2 DEF Active
<1>7. CASE Restart
  <2>1. UNCHANGED nodes /\ \A c \in Calls : call'[c].pc \in {"idle", "done", "refused"}
    BY <1>t, <1>7 DEF Restart, Active, Local
  <2> QED BY <1>k, <2>1 DEF Active
<1> QED BY <1>1, <1>2, <1>3, <1>4, <1>5, <1>6, <1>7 DEF Next, RegisterNode

\* A machine that sends a fingerprint has one node record, however often its agent registers,
\* however many others register or are removed meanwhile, fingerprint or none: provided two
\* of its own calls never overlap.
THEOREM OneRecordEach == Spec /\ []OneAtATime => []OneNodePerMachine
<1>1. Init => SoleInv
  BY InitInv DEF IInv, Init, SoleInv, OneNodePerMachine, Known, Active
<1>2. IInv /\ [Next]_vars => IInv'
  BY StepInv
<1>3. IInv => Typed
  BY DEF IInv
<1>4. SoleInv /\ OneAtATime /\ IInv' /\ [Next]_vars => SoleInv'
  BY SoleStep, <1>3 DEF IInv
<1>5. SoleInv => OneNodePerMachine
  BY DEF SoleInv
<1> QED BY InitInv, <1>1, <1>2, <1>4, <1>5, PTL DEF Spec

-----------------------------------------------------------------------------
\* Who is let in.

\* The nodes that passed as the first of the cluster.
Firsts == {call[c].id : c \in free}

\* The count of a code is never below the number of calls it let in, and not above its limit;
\* a handler that is going to save a code has counted on from what is stored.
CodesCount ==
    /\ admitted \in [Codes -> SUBSET Calls]
    /\ \A k \in Codes :
         /\ IsFiniteSet(admitted[k]) /\ Cardinality(admitted[k]) <= invites[k].count
         /\ Cardinality(admitted[k]) <= MaxUses
    /\ \A c \in Calls : call[c].pc = "count" =>
         call[c].ic.count = invites[Presented[c]].count + 1 /\ call[c].ic.count <= MaxUses

\* Each call that passed as the first has a node of its own, and no two of these have a
\* record; while such a call is served there is none at all, and while the agent of such a
\* node registers again there is at most the one of that node.
FirstsApart ==
    /\ free \subseteq Calls
    /\ Firsts \subseteq named
    /\ \A c, d \in free : c # d => call[c].id # call[d].id
    /\ \A c \in Calls : call[c].pc = "idle" => c \notin free
    /\ \A c \in Calls : call[c].pc = "validate" => call[c].id \in named \ Firsts
    /\ \A i, j \in Firsts \cap Known : i = j
    /\ \A c \in Active \cap free : Known = {}
    /\ \A c \in Active \ free : call[c].id \in Firsts => Firsts \cap Known \subseteq {call[c].id}

AdmitInv == CodesCount /\ FirstsApart

LEMMA CodesStep ==
    ASSUME Typed, CodesCount, OneCall, [Next]_vars
    PROVE  CodesCount'
<1>t. /\ call \in [Calls -> Local] /\ invites \in [Codes -> Invite]
      /\ \A c \in Calls : call[c].pc \in {"redeem", "count"} => Presented[c] \in Codes
  BY DEF Typed, Sensible
\* A step that neither takes a code nor saves one.
<1>k. ASSUME UNCHANGED admitted, \A k \in Codes : invites'[k].count = invites[k].count,
             \A c \in Calls : call'[c].pc = "count" => call'[c] = call[c]
      PROVE  CodesCount'
  <2>1. ASSUME NEW c \in Calls, call'[c].pc = "count"
        PROVE  call'[c].ic.count = invites'[Presented[c]].count + 1 /\ call'[c].ic.count <= MaxUses
    <3>1. call'[c] = call[c] /\ call[c].pc = "count" /\ Presented[c] \in Codes
      BY <1>k, <1>t, <2>1
    <3> QED BY <1>k, <3>1 DEF CodesCount
  <2> QED BY <1>k, <2>1 DEF CodesCount
<1>1. CASE UNCHANGED vars
  BY <1>1, <1>k DEF vars
<1>2. ASSUME NEW c \in Calls, Validate(c) \/ Recheck(c) \/ Register(c) \/ Save(c) \/ SaveFails(c)
      PROVE  CodesCount'
  <2>1. UNCHANGED <<admitted, invites>>
    BY <1>2 DEF Validate, Recheck, Register, Save, SaveFails
  <2>2. PICK pc : Goto(c, pc) /\ pc # "count"
    BY <1>2 DEF Validate, Recheck, Register, Save, SaveFails
  <2>3. \A d \in Calls : call'[d].pc = "count" => call'[d] = call[d]
    BY <1>t, <2>2 DEF Goto, Local
  <2> QED BY <1>k, <2>1, <2>3
<1>3. ASSUME NEW c \in Calls, Begin(c) \/ Allocate(c) PROVE CodesCount'
  <2>1. UNCHANGED <<admitted, invites>>
    BY <1>3 DEF Begin, Allocate
  <2>2. \A d \in Calls : d # c => call'[d] = call[d]
    BY <1>t, <1>3 DEF Begin, Allocate
  <2>3. call'[c].pc # "count"
    <3>1. CASE Begin(c)
      <4>1. \/ \E i, a : call' = [call EXCEPT ![c] = [@ EXCEPT !.pc = "register", !.id = i, !.ip = a]]
            \/ \E i : call' = [call EXCEPT ![c] = [@ EXCEPT !.pc = "validate", !.id = i]]
        BY <3>1 DEF Begin
      <4> QED BY <1>t, <4>1 DEF Local
    <3>2. CASE Allocate(c)
      <4>1. \E pc, a : pc # "count" /\ call' = [call EXCEPT ![c] = [@ EXCEPT !.pc = pc, !.ip = a]]
        BY <3>2 DEF Allocate
      <4> QED BY <1>t, <4>1 DEF Local
    <3> QED BY <1>3, <3>1, <3>2
  <2> QED BY <1>k, <2>1, <2>2, <2>3
<1>4. ASSUME NEW c \in Calls, ReadInvite(c) PROVE CodesCount'
  <2> DEFINE k == Presented[c]
  <2>1. k \in Codes /\ UNCHANGED <<admitted, invites>> /\ \A d \in Calls : d # c => call'[d] = call[d]
    BY <1>t, <1>4 DEF ReadInvite
  <2>2. invites[k] \in Invite
    BY <1>t, <2>1
  <2>3. call'[c].pc = "count" => Redeemable(invites[k]) /\ call'[c].ic = Redeemed(invites[k])
    BY <1>t, <1>4 DEF ReadInvite, Local
  <2>4. Redeemed(invites[k]).count = invites[k].count + 1
    BY <2>2 DEF Redeemed, Invite
  <2>5. Redeemable(invites[k]) => invites[k].count + 1 <= MaxUses
    BY <2>2, MembershipAssumption DEF Redeemable, Invite
  <2>6. ASSUME NEW d \in Calls, call'[d].pc = "count"
        PROVE  call'[d].ic.count = invites'[Presented[d]].count + 1 /\ call'[d].ic.count <= MaxUses
    <3>1. CASE d = c
      BY <2>1, <2>3, <2>4, <2>5, <2>6, <3>1
    <3>2. CASE d # c
      BY <2>1, <2>6, <3>2 DEF CodesCount
    <3> QED BY <3>1, <3>2
  <2> QED BY <2>1, <2>6 DEF CodesCount
<1>5. ASSUME NEW c \in Calls, SaveInvite(c) PROVE CodesCount'
  <2> DEFINE k == Presented[c]
             n == invites[k].count
  <2>1. /\ k \in Codes /\ call[c].pc = "count" /\ call[c].ic \in Invite
        /\ call[c].ic.count = n + 1 /\ n + 1 <= MaxUses
    BY <1>t, <1>5 DEF SaveInvite, CodesCount, Local
  <2>2. /\ \A j \in Codes : invites'[j] = IF j = k THEN call[c].ic ELSE invites[j]
        /\ admitted' \in [Codes -> SUBSET Calls]
        /\ \A j \in Codes : admitted'[j] = IF j = k THEN admitted[k] \cup {c} ELSE admitted[j]
    BY <1>t, <1>5, <2>1 DEF SaveInvite, CodesCount
  <2>3. \A d \in Calls : call'[d].pc # "count"
    <3>1. call'[c].pc = "recheck" /\ \A d \in Calls : d # c => call'[d] = call[d]
      BY <1>t, <1>5 DEF SaveInvite, Goto, Local
    <3>2. \A d \in Calls : d # c => call[d].pc # "count"
      BY <2>1 DEF OneCall, Active
    <3> QED BY <3>1, <3>2
  <2>4. /\ n \in Nat /\ MaxUses \in Nat
        /\ IsFiniteSet(admitted[k]) /\ Cardinality(admitted[k]) <= n
    BY <1>t, <2>1, MembershipAssumption DEF CodesCount, Invite
  <2>5. /\ IsFiniteSet(admitted[k] \cup {c})
        /\ Cardinality(admitted[k]) \in Nat
        /\ \/ Cardinality(admitted[k] \cup {c}) = Cardinality(admitted[k])
           \/ Cardinality(admitted[k] \cup {c}) = Cardinality(admitted[k]) + 1
    BY <2>4, FS_AddElement, FS_CardinalityType
  <2>6. Cardinality(admitted[k] \cup {c}) <= n + 1 /\ Cardinality(admitted[k] \cup {c}) <= MaxUses
    BY <2>1, <2>4, <2>5
  <2>7. ASSUME NEW j \in Codes
        PROVE  /\ IsFiniteSet(admitted'[j]) /\ Cardinality(admitted'[j]) <= invites'[j].count
               /\ Cardinality(admitted'[j]) <= MaxUses
    <3>1. CASE j = k
      BY <2>1, <2>2, <2>5, <2>6, <3>1
    <3>2. CASE j # k
      BY <2>2, <3>2 DEF CodesCount
    <3> QED BY <3>1, <3>2
  <2> QED BY <2>2, <2>3, <2>7 DEF CodesCount
<1>6. ASSUME \/ (\E i \in IDs : Unregister(i)) \/ Release \/ Delete
             \/ \E k \in Codes : CreateInvite(k) \/ Expire(k)
      PROVE  CodesCount'
  <2>1. UNCHANGED <<admitted, call>>
    BY <1>6 DEF Unregister, Release, Delete, CreateInvite, Expire
  <2>2. \A k \in Codes : invites'[k].count = invites[k].count
    BY <1>t, <1>6 DEF Unregister, Release, Delete, CreateInvite, Expire, Invite
  <2> QED BY <1>k, <2>1, <2>2
<1>7. CASE Restart
  <2>1. UNCHANGED <<admitted, invites>> /\ \A c \in Calls : call'[c].pc # "count"
    BY <1>t, <1>7 DEF Restart, Active, Local
  <2> QED BY <1>k, <2>1
<1> QED BY <1>1, <1>2, <1>3, <1>4, <1>5, <1>6, <1>7 DEF Next, RegisterNode

LEMMA FirstsStep ==
    ASSUME Typed, FirstsApart, OneCall, OneCall', [Next]_vars
    PROVE  FirstsApart'
<1>t. /\ nodes \in [IDs -> Record] /\ call \in [Calls -> Local]
      /\ \A c \in Active : call[c].id \in IDs
  BY DEF Typed, Sensible, Active
\* A step with which no call begins or passes as the first, and no record is saved.
<1>k. ASSUME UNCHANGED <<free, named>>, Known' \subseteq Known,
             \A c \in Calls : /\ call'[c].id = call[c].id
                              /\ call'[c].pc = call[c].pc \/ call'[c].pc \notin {"idle", "validate"}
                              /\ c \in Active' => c \in Active
      PROVE  FirstsApart'
  <2>1. Firsts' = Firsts
    BY <1>k DEF Firsts, FirstsApart
  <2> QED BY <1>k, <2>1 DEF FirstsApart, Active
<1>1. CASE UNCHANGED vars
  BY <1>1, <1>k DEF vars, Active, Known
<1>2. ASSUME NEW c \in Calls, Begin(c) PROVE FirstsApart'
  <2>1. /\ call[c].pc = "idle" /\ c \notin free /\ UNCHANGED <<free, nodes>> /\ named \subseteq named'
        /\ \A d \in Calls : d # c => call'[d] = call[d]
    BY <1>t, <1>2 DEF Begin, FirstsApart
  <2>2. Firsts' = Firsts /\ Known' = Known
    BY <2>1 DEF Firsts, FirstsApart, Known
  <2>3. /\ \/ call'[c].pc = "register" /\ call'[c].id \in Known
           \/ call'[c].pc = "validate" /\ call'[c].id \in named' \ named
    <3>1. CASE HasRecord(c)
      <4>a. call' = [call EXCEPT ![c] = [@ EXCEPT !.pc = "register", !.id = Last(Matches(Fp(c))),
                                                    !.ip = nodes[Last(Matches(Fp(c)))].ip]]
        BY <1>2, <3>1 DEF Begin
      <4>1. call'[c].pc = "register" /\ call'[c].id = Last(Matches(Fp(c)))
        BY <1>t, <4>a DEF Local
      <4>2. Last(Matches(Fp(c))) \in Matches(Fp(c))
        BY <3>1, LastFact DEF HasRecord
      <4> QED BY <4>1, <4>2 DEF Matches
    <3>2. CASE ~HasRecord(c)
      <4>1. PICK i \in IDs \ named : /\ call' = [call EXCEPT ![c] = [@ EXCEPT !.pc = "validate", !.id = i]]
                                     /\ named' = named \cup {i}
        BY <1>2, <3>2 DEF Begin
      <4>2. call'[c].pc = "validate" /\ call'[c].id = i
        BY <1>t, <4>1 DEF Local
      <4> QED BY <4>1, <4>2
    <3> QED BY <3>1, <3>2
  <2>4. Active' = {c}
    BY <2>1, <2>3 DEF OneCall, Active
  <2>5. \A d \in Calls : call'[d].pc = "idle" => d \notin free'
    BY <2>1, <2>3 DEF FirstsApart
  <2>6. \A d \in Calls : call'[d].pc = "validate" => call'[d].id \in named' \ Firsts'
    BY <2>1, <2>2, <2>3 DEF FirstsApart
  <2>7. \A d, e \in free' : d # e => call'[d].id # call'[e].id
    BY <2>1 DEF FirstsApart
  <2>8. call'[c].id \in Firsts' => Firsts' \cap Known' \subseteq {call'[c].id}
    BY <2>2, <2>3 DEF FirstsApart
  <2> QED BY <2>1, <2>2, <2>4, <2>5, <2>6, <2>7, <2>8 DEF FirstsApart
<1>3. ASSUME NEW c \in Calls, Validate(c) PROVE FirstsApart'
  <2>1. /\ call[c].pc = "validate" /\ c \in Active /\ UNCHANGED <<nodes, named>>
        /\ free' = free \/ (free' = free \cup {c} /\ Known = {})
    BY <1>3 DEF Validate, Active, ColdStart
  <2>2. PICK pc : Goto(c, pc) /\ pc \notin {"idle", "validate"}
    BY <1>3 DEF Validate
  <2>3. \A d \in Calls : /\ call'[d].id = call[d].id
                         /\ d # c => call'[d] = call[d]
                         /\ call'[d].pc = call[d].pc \/ call'[d].pc \notin {"idle", "validate"}
    BY <1>t, <2>2 DEF Goto, Local
  <2>4. Known' = Known /\ \A d \in Active' : d = c
    <3>1. \A d \in Active' : d \in Active
      BY <2>1, <2>3 DEF Active
    <3> QED BY <2>1, <3>1 DEF Known, OneCall
  <2>5. CASE free' = free
    <3>1. \A d \in Calls : d \in Active' => d \in Active
      BY <2>1, <2>4
    <3> QED BY <1>k, <2>1, <2>3, <2>4, <2>5, <3>1
  <2>6. CASE free' = free \cup {c} /\ Known = {}
    <3>1. Firsts' = Firsts \cup {call[c].id}
      BY <2>3, <2>6 DEF Firsts, FirstsApart
    <3>2. call[c].id \in named \ Firsts
      BY <2>1 DEF FirstsApart
    <3>3. \A d, e \in free' : d # e => call'[d].id # call'[e].id
      BY <2>3, <2>6, <3>2 DEF FirstsApart, Firsts
    <3>4. \A d \in Calls : call'[d].pc # "validate"
      <4>1. call'[c].pc # "validate"
        BY <1>t, <2>2 DEF Goto, Local
      <4> QED BY <2>4, <4>1 DEF Active
    <3>5. \A d \in Calls : call'[d].pc = "idle" => d \notin free'
      <4>1. call'[c].pc # "idle"
        BY <1>t, <2>2 DEF Goto, Local
      <4> QED BY <2>3, <2>6, <4>1 DEF FirstsApart
    <3> QED BY <2>1, <2>4, <2>6, <3>1, <3>2, <3>3, <3>4, <3>5 DEF FirstsApart
  <2> QED BY <2>1, <2>5, <2>6
<1>4. ASSUME NEW c \in Calls,
             ReadInvite(c) \/ SaveInvite(c) \/ Recheck(c) \/ Allocate(c) \/ Register(c) \/ SaveFails(c)
      PROVE  FirstsApart'
  <2>1. c \in Active /\ UNCHANGED <<nodes, named, free>>
    BY <1>4 DEF ReadInvite, SaveInvite, Recheck, Allocate, Register, SaveFails, Active
  <2>2. \/ \E pc : Goto(c, pc)
        \/ \E ic : call' = [call EXCEPT ![c] = [@ EXCEPT !.pc = "count", !.ic = ic]]
        \/ call' = [call EXCEPT ![c] = [@ EXCEPT !.pc = "refused"]]
        \/ \E pc, a : call' = [call EXCEPT ![c] = [@ EXCEPT !.pc = pc, !.ip = a]]
    BY <1>4 DEF ReadInvite, SaveInvite, Recheck, Allocate, Register, SaveFails
  <2>3. call'[c].id = call[c].id /\ \A d \in Calls \ {c} : call'[d] = call[d]
    BY <1>t, <2>2 DEF Goto, Local
  <2>4. call'[c].pc \notin {"idle", "validate"}
    <3>1. CASE Allocate(c)
      BY <1>t, <3>1 DEF Allocate, Local
    <3>2. CASE ReadInvite(c) /\ Redeemable(invites[Presented[c]])
      BY <1>t, <3>2 DEF ReadInvite, Local
    <3>3. CASE ReadInvite(c) /\ ~ Redeemable(invites[Presented[c]])
      BY <1>t, <3>3 DEF ReadInvite, Local
    <3>4. CASE SaveInvite(c) \/ Recheck(c) \/ Register(c) \/ SaveFails(c)
      BY <1>t, <3>4 DEF SaveInvite, Recheck, Register, SaveFails, Goto, Local
    <3> QED BY <1>4, <3>1, <3>2, <3>3, <3>4
  <2> QED BY <1>k, <2>1, <2>3, <2>4 DEF Active, Known
<1>5. ASSUME NEW c \in Calls, Save(c) PROVE FirstsApart'
  <2> DEFINE i == call[c].id
  <2>1. /\ c \in Active /\ i \in IDs /\ UNCHANGED <<named, free>>
        /\ \A d \in Calls : /\ call'[d].id = call[d].id
                            /\ call'[d].pc = IF d = c THEN "done" ELSE call[d].pc
    BY <1>t, <1>5 DEF Save, Active, Goto, Local
  <2>2. Known' \subseteq Known \cup {i}
    BY <1>t, <1>5 DEF Save, Known
  <2>3. Active' = {}
    BY <2>1 DEF OneCall, Active
  <2>4. Firsts' = Firsts
    BY <2>1 DEF Firsts, FirstsApart
  <2>5. \A j, k \in Firsts \cap (Known \cup {i}) : j = k
    <3>1. CASE c \in free
      BY <2>1, <3>1 DEF FirstsApart
    <3>2. CASE c \notin free /\ i \in Firsts
      BY <2>1, <3>2 DEF FirstsApart
    <3>3. CASE i \notin Firsts
      BY <3>3 DEF FirstsApart
    <3> QED BY <3>1, <3>2, <3>3
  <2>6. \A j, k \in Firsts' \cap Known' : j = k
    BY <2>2, <2>4, <2>5
  <2> HIDE DEF i
  <2> QED BY <2>1, <2>3, <2>4, <2>6 DEF FirstsApart
<1>6. ASSUME \/ (\E i \in IDs : Unregister(i)) \/ Release \/ Delete
             \/ \E k \in Codes : CreateInvite(k) \/ Expire(k)
      PROVE  FirstsApart'
  <2>1. UNCHANGED <<free, named, call>>
    BY <1>6 DEF Unregister, Release, Delete, CreateInvite, Expire
  <2>2. Known' \subseteq Known
    BY <1>t, <1>6 DEF Unregister, Release, Delete, CreateInvite, Expire, Known
  <2> QED BY <1>k, <2>1, <2>2 DEF Active
<1>7. CASE Restart
  <2>1. /\ UNCHANGED <<free, named, nodes>>
        /\ \A c \in Calls : /\ call'[c].id = call[c].id /\ c \notin Active'
                            /\ call'[c].pc = call[c].pc \/ call'[c].pc = "refused"
    BY <1>t, <1>7 DEF Restart, Active, Local
  <2> QED BY <1>k, <2>1 DEF Known
<1> QED BY <1>1, <1>2, <1>3, <1>4, <1>5, <1>6, <1>7 DEF Next, RegisterNode

\* An invite code lets in no more calls than it was made for, and at most one node that is
\* there got in as the first of the cluster: whatever is removed, fails, expires or is
\* restarted in between, provided that no two calls overlap.
THEOREM AdmittedAsInvited == Spec => AdmittedInTurn
<1>1. Init => AdmitInv
  <2> SUFFICES ASSUME Init PROVE AdmitInv
    OBVIOUS
  <2>1. CodesCount
    BY FS_EmptySet, MembershipAssumption DEF Init, CodesCount, NoInvite
  <2>2. Firsts = {} /\ Active = {} /\ Known = {}
    BY DEF Init, Firsts, Active, Known
  <2> QED BY <2>1, <2>2 DEF Init, AdmitInv, FirstsApart
<1>2. IInv /\ [Next]_vars => IInv'
  BY StepInv
<1>3. IInv /\ AdmitInv /\ OneCall /\ OneCall' /\ [Next]_vars => AdmitInv'
  BY CodesStep, FirstsStep DEF IInv, AdmitInv
<1>4. AdmitInv => AdmittedByRight
  <2> SUFFICES ASSUME AdmitInv PROVE AdmittedByRight
    OBVIOUS
  <2> DEFINE In == {c \in free : call[c].pc = "done" /\ call[c].id \in Known}
  <2>1. \A c, d \in In : c = d
    BY DEF AdmitInv, FirstsApart, Firsts
  <2> HIDE DEF In
  <2>2. Cardinality(In) <= 1
    <3>1. CASE In = {}
      BY <3>1, FS_EmptySet
    <3>2. CASE In # {}
      <4>1. PICK c \in In : In = {c}
        BY <2>1, <3>2
      <4>2. Cardinality({c}) = 1
        BY FS_Singleton
      <4> QED BY <4>1, <4>2
    <3> QED BY <3>1, <3>2
  <2> QED BY <2>2 DEF In, AdmitInv, CodesCount, AdmittedByRight, CodesAreSpent
<1> QED BY InitInv, <1>1, <1>2, <1>3, <1>4, PTL DEF Spec, AdmittedInTurn

-----------------------------------------------------------------------------
\* Walks through a list: types.
Requests == [of : {"jobs", "nodes"}, size : Sizes]

\* How many items of the list come before item x, in the order of keys.
Rank(x) == Cardinality({y \in matching : y < x})

WalkTyped ==
    /\ request \in Requests
    /\ known \in SUBSET Items /\ matching \in SUBSET known /\ steady \in SUBSET matching
    /\ offset \in Nat

\* Of the jobs, those before the token have been sent.
JobsSent ==
    request.of = "jobs" /\ matching = known =>
        \A x \in steady : over \/ Rank(x) < offset => x \in got

\* Of nodes that fit on a page, all that have been sent at all.
NodesSent ==
    request.of = "nodes" /\ matching = known /\ Cardinality(known) <= PageSize =>
        (offset = 0 /\ ~over) \/ steady \subseteq got

ListInv == WalkTyped /\ JobsSent /\ NodesSent

LEMMA SizeNat ==
    ASSUME WalkTyped
    PROVE  /\ IsFiniteSet(Items) /\ IsFiniteSet(known) /\ IsFiniteSet(matching)
           /\ Cardinality(known) \in Nat /\ Total \in Nat
           /\ PageSize \in Nat \ {0}
<1>1. IsFiniteSet(Items) /\ IsFiniteSet(known) /\ IsFiniteSet(matching)
  BY ListingAssumption, FS_Subset DEF WalkTyped
<1>2. Cardinality(known) \in Nat /\ Total \in Nat
  BY <1>1, FS_CardinalityType DEF Total
<1>3. request.size \in Nat
  BY ListingAssumption DEF WalkTyped, Requests
<1>4. PageSize \in Nat \ {0}
  BY <1>3, ListingAssumption DEF PageSize, Smaller
<1> QED BY <1>1, <1>2, <1>4

\* In a list of jobs the rank of an item is its place, less one.
LEMMA RankIsPlace ==
    ASSUME WalkTyped, request.of = "jobs",
           NEW list \in Lists, NEW k \in 1..Total
    PROVE  Rank(list[k]) = k - 1
<1> DEFINE Before == {y \in matching : y < list[k]}
           first == [j \in 1 .. k - 1 |-> list[j]]
<1>1. Total \in Nat /\ IsFiniteSet(matching) /\ matching \in SUBSET Nat
  BY SizeNat, ListingAssumption DEF WalkTyped
<1>2. /\ list \in [1..Total -> matching]
      /\ \A i, j \in 1..Total : list[i] = list[j] => i = j
      /\ \A y \in matching : \E j \in 1..Total : list[j] = y
  BY DEF Lists, Bijection, Injection, Surjection, IsInjective
<1>3. \A i, j \in 1..Total : i < j => list[i] < list[j]
  BY DEF Lists
<1>4. \A j \in 1..Total : list[j] \in Nat
  BY <1>1, <1>2
<1>5. \A j \in 1..Total : list[j] < list[k] <=> j < k
  <2> TAKE j \in 1..Total
  <2> j \in Nat /\ k \in Nat
    BY <1>1
  <2> CASE j < k BY <1>3
  <2> CASE j = k BY <1>4
  <2> CASE j > k
    <3>1. list[k] < list[j] BY <1>3
    <3> QED BY <3>1, <1>4
  <2> QED OBVIOUS
<1>6. first \in Bijection(1 .. k - 1, Before)
  <2>1. \A j \in 1 .. k - 1 : j \in 1..Total /\ j < k
    BY <1>1
  <2>2. first \in [1 .. k - 1 -> Before]
    BY <1>2, <1>5, <2>1
  <2>3. \A i, j \in 1 .. k - 1 : first[i] = first[j] => i = j
    BY <1>2, <2>1
  <2>4. \A y \in Before : \E j \in 1 .. k - 1 : first[j] = y
    <3> TAKE y \in Before
    <3>1. PICK j \in 1..Total : list[j] = y BY <1>2
    <3>2. j < k BY <3>1, <1>5
    <3>3. j \in 1 .. k - 1 BY <3>2, <1>1
    <3> QED BY <3>1, <3>3
  <2> HIDE DEF first, Before
  <2> QED BY <2>2, <2>3, <2>4 DEF Bijection, Injection, Surjection, IsInjective
<1>7. Cardinality(1 .. k - 1) = k - 1 /\ IsFiniteSet(1 .. k - 1)
  <2>1. k - 1 \in Nat BY <1>1
  <2>2. 1 \in Int /\ k - 1 \in Int BY <2>1
  <2>3. IsFiniteSet(1 .. k - 1) BY <2>2, FS_Interval
  <2>4. Cardinality(1 .. k - 1) = IF 1 > k - 1 THEN 0 ELSE k - 1 - 1 + 1 BY <2>2, FS_Interval
  <2> QED BY <2>1, <2>3, <2>4
<1>8. Cardinality(Before) = k - 1
  <2> HIDE DEF first, Before
  <2> QED BY <1>6, <1>7, FS_Bijection, Zenon DEF ExistsBijection
<1> QED BY <1>8 DEF Rank

\* An item that appears moves no other one forward.
LEMMA RanksGrow ==
    ASSUME WalkTyped, NEW i \in Items, Appear(i), NEW x
    PROVE  Rank(x) <= Rank(x)' /\ Rank(x) \in Nat /\ Rank(x)' \in Nat
<1> DEFINE Early == {y \in matching : y < x}
           Later == {y \in matching' : y < x}
<1>1. Early \subseteq Later
  BY DEF Appear
<1>2. IsFiniteSet(Later)
  <2>1. Later \in SUBSET Items
    BY DEF Appear, WalkTyped
  <2> HIDE DEF Later
  <2> QED BY <2>1, ListingAssumption, FS_Subset
<1>3. Cardinality(Early) <= Cardinality(Later) /\ Cardinality(Early) \in Nat /\ Cardinality(Later) \in Nat
  <2> HIDE DEF Early, Later
  <2> QED BY <1>1, <1>2, FS_Subset, FS_CardinalityType
<1>4. Rank(x) = Cardinality(Early) /\ Rank(x)' = Cardinality(Later)
  BY DEF Rank
<1> QED BY <1>3, <1>4

-----------------------------------------------------------------------------
LEMMA WalkStarts == WalkInit => ListInv
<1> SUFFICES ASSUME WalkInit PROVE ListInv
  OBVIOUS
<1> USE DEF WalkInit
<1>1. WalkTyped
  BY DEF WalkTyped, Requests
<1>2. JobsSent
  <2>1. \A x : Rank(x) \in Nat
    <3> TAKE x
    <3>1. {y \in matching : y < x} \in SUBSET Items
      OBVIOUS
    <3>2. IsFiniteSet({y \in matching : y < x})
      BY <3>1, ListingAssumption, FS_Subset
    <3> QED BY <3>2, FS_CardinalityType DEF Rank
  <2>2. \A x : ~ (Rank(x) < offset)
    BY <2>1
  <2> QED BY <2>2 DEF JobsSent
<1>3. NodesSent
  BY DEF NodesSent
<1> QED BY <1>1, <1>2, <1>3 DEF ListInv

\* A page carries the list on from where the token stands to where the next one will.
LEMMA PageSends ==
    ASSUME ListInv, NextPage
    PROVE  JobsSent' /\ NodesSent'
<1> USE DEF NextPage, ListInv
<1>1. PICK list \in Lists : got' = got \cup {list[k] : k \in Start + 1 .. End}
  OBVIOUS
<1>2. /\ Total \in Nat /\ PageSize \in Nat \ {0} /\ offset \in Nat
      /\ IsFiniteSet(matching) /\ Cardinality(known) \in Nat
  BY SizeNat DEF WalkTyped
<1>3. Start \in Nat /\ Start <= offset /\ End \in Nat /\ End <= Total /\ Start <= Total
  BY <1>2 DEF Start, End, Smaller
<1>4. \A x \in matching : \E j \in 1..Total : list[j] = x
  BY DEF Lists, Bijection, Surjection
<1>5. \A j \in 1..Total : Start < j /\ j <= End => list[j] \in got'
  <2> TAKE j \in 1..Total
  <2> HAVE Start < j /\ j <= End
  <2>1. j \in Start + 1 .. End BY <1>3
  <2> QED BY <1>1, <2>1
<1>6. got \subseteq got' BY <1>1
<1>7. steady \subseteq matching BY DEF WalkTyped
<1>8. JobsSent'
  <2> SUFFICES ASSUME request.of = "jobs", matching = known,
                      NEW x \in steady, over' \/ Rank(x)' < offset'
               PROVE  x \in got'
    BY DEF JobsSent
  <2>1. PICK j \in 1..Total : list[j] = x BY <1>4, <1>7
  <2>2. Rank(x) = j - 1 BY <2>1, RankIsPlace
  <2>3. Rank(x)' = Rank(x) BY DEF Rank
  <2>4. j <= End
    <3>1. CASE over'
      <4>1. ~More BY <3>1
      <4> QED BY <4>1, <1>2, <1>3 DEF More
    <3>2. CASE Rank(x)' < offset' BY <3>2, <2>2, <2>3, <1>2, <1>3
    <3> QED BY <3>1, <3>2
  <2>5. CASE Start < j
    BY <2>1, <2>4, <2>5, <1>5
  <2>6. CASE ~ (Start < j)
    <3>1. Rank(x) < offset BY <2>2, <2>6, <1>2, <1>3
    <3>2. x \in got BY <3>1 DEF JobsSent
    <3> QED BY <3>2, <1>6
  <2> QED BY <2>5, <2>6
<1>9. NodesSent'
  <2> SUFFICES ASSUME request.of = "nodes", matching = known, Cardinality(known) <= PageSize
               PROVE  steady \subseteq got'
    BY DEF NodesSent, PageSize, Smaller
  <2>1. CASE offset = 0
    <3>1. Start = 0 /\ End = Total
      BY <2>1, <1>2 DEF Start, End, Smaller, Total
    <3>2. \A j \in 1..Total : list[j] \in got'
      BY <3>1, <1>5, <1>2
    <3> QED BY <3>2, <1>4, <1>7
  <2>2. CASE offset # 0
    BY <2>2, <1>6 DEF NodesSent
  <2> QED BY <2>1, <2>2
<1> QED BY <1>8, <1>9

LEMMA AppearSends ==
    ASSUME ListInv, NEW i \in Items, Appear(i)
    PROVE  JobsSent' /\ NodesSent'
<1> USE DEF Appear, Change, ListInv
<1>1. matching' = known' => matching = known
  BY DEF WalkTyped
<1>2. JobsSent'
  <2> SUFFICES ASSUME request.of = "jobs", matching' = known',
                      NEW x \in steady, over \/ Rank(x)' < offset
               PROVE  x \in got
    BY DEF JobsSent
  <2>1. Rank(x) <= Rank(x)' /\ Rank(x) \in Nat /\ Rank(x)' \in Nat
    BY RanksGrow
  <2>2. over \/ Rank(x) < offset
    BY <2>1 DEF WalkTyped
  <2> QED BY <1>1, <2>2 DEF JobsSent
<1>3. NodesSent'
  <2>1. Cardinality(known) <= Cardinality(known') /\ Cardinality(known) \in Nat /\ Cardinality(known') \in Nat
    <3>1. known' \in SUBSET Items BY DEF WalkTyped
    <3>2. IsFiniteSet(known') BY <3>1, ListingAssumption, FS_Subset
    <3>3. known \subseteq known' OBVIOUS
    <3> QED BY <3>2, <3>3, FS_Subset, FS_CardinalityType
  <2>2. PageSize' = PageSize /\ PageSize \in Nat
    BY SizeNat DEF PageSize, Smaller
  <2> SUFFICES ASSUME request.of = "nodes", matching' = known', Cardinality(known') <= PageSize
               PROVE  (offset = 0 /\ ~over) \/ steady \subseteq got
    BY <2>2 DEF NodesSent
  <2>3. Cardinality(known) <= PageSize BY <2>1, <2>2
  <2> QED BY <1>1, <2>3 DEF NodesSent
<1> QED BY <1>2, <1>3

LEMMA WalkGoesOn == ListInv /\ [WalkNext]_listVars => ListInv'
<1> SUFFICES ASSUME ListInv, [WalkNext]_listVars PROVE ListInv'
  OBVIOUS
<1>1. CASE NextPage
  <2>1. WalkTyped'
    <3>1. offset' \in Nat
      BY <1>1, SizeNat DEF NextPage, End, Smaller, WalkTyped, ListInv
    <3> QED BY <1>1, <3>1 DEF NextPage, WalkTyped, ListInv
  <2> QED BY <1>1, <2>1, PageSends DEF ListInv
<1>2. ASSUME NEW i \in Items, Appear(i) PROVE ListInv'
  <2>1. WalkTyped'
    BY <1>2 DEF Appear, Change, WalkTyped, ListInv
  <2> QED BY <1>2, <2>1, AppearSends DEF ListInv
<1>3. ASSUME NEW i \in Items, DropOut(i) PROVE ListInv'
  <2> USE <1>3 DEF DropOut, Change, ListInv
  <2>1. WalkTyped'
    BY DEF WalkTyped
  <2>2. matching' # known'
    BY DEF WalkTyped
  <2> QED BY <2>1, <2>2 DEF JobsSent, NodesSent
<1>4. CASE UNCHANGED listVars
  BY <1>4 DEF listVars, ListInv, WalkTyped, JobsSent, NodesSent, Rank, PageSize
<1> QED BY <1>1, <1>2, <1>3, <1>4 DEF WalkNext

LEMMA WholeList == ListInv => NothingMissed
<1> SUFFICES ASSUME ListInv, over, matching = known,
                    request.of = "jobs" \/ Cardinality(known) <= PageSize
             PROVE  steady \subseteq got
  BY DEF NothingMissed
<1>1. CASE request.of = "jobs"
  BY <1>1 DEF ListInv, JobsSent
<1>2. CASE request.of # "jobs"
  <2>1. request.of = "nodes" BY <1>2 DEF ListInv, WalkTyped, Requests
  <2> QED BY <1>2, <2>1 DEF ListInv, NodesSent
<1> QED BY <1>1, <1>2

\* A client that pages through a list of any size, whatever pages it asks for, is sent every job
\* that was there all the time, wherever others are inserted, and every node when one page holds
\* them (ListJobs, ListNodes).
THEOREM ReadsWholeList == WalkSpec => []NothingMissed
<1>1. WalkSpec => []ListInv
  BY WalkStarts, WalkGoesOn, PTL DEF WalkSpec
<1> QED BY <1>1, WholeList, PTL
=============================================================================
