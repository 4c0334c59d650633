----------------------------- MODULE Membership -----------------------------
(***************************************************************************)
(* Registration and removal of nodes: the RPC handlers RegisterNode,        *)
(* reRegisterNode, RedeemInviteCode, CreateInviteCode and UnregisterNode    *)
(* (scheduler/internal/server), the overlay addresses they hand out         *)
(* (scheduler/internal/ipam) and the records they keep (store).             *)
(*                                                                         *)
(* gRPC runs every call in a goroutine of its own.  A call is a sequence of *)
(* steps, one per access to the store or to the registry; only Allocate and *)
(* Release hold a lock (IPAM.mu), and each is one step.                     *)
(***************************************************************************)
EXTENDS Naturals, FiniteSets

CONSTANTS
    Calls,       \* calls of RegisterNode
    Machine,     \* per call, the machine whose agent makes it
    Fingerprint, \* per machine, the hardware fingerprint its agent sends: its host name,
    NoFingerprint, \* or the empty string when it cannot be read
    Presented,   \* per call, what it sends as invite code: a code, AdminKey or Blank
    Codes, AdminKey, Blank,
    MaxUses,     \* invitation.max_uses_per_code
    IDs,         \* node IDs, in the order of the keys of the node bucket
    Addresses,   \* overlay addresses behind the gateway's, in their order
    HasIPAM,     \* the address range could be set up at start
    AtOnce,      \* so many calls are served at a time
    Budget       \* how often each kind of event may happen

Kinds == {"remove", "restart", "expire", "disk"}

ASSUME MembershipAssumption ==
    /\ IDs \subseteq Nat
    /\ \A S \in SUBSET IDs : S # {} => \E i \in S : \A j \in S : j <= i
    /\ Addresses \subseteq Nat \ {0}
    /\ Presented \in [Calls -> Codes \cup {AdminKey, Blank}]
    /\ AdminKey \notin Codes /\ Blank \notin Codes /\ AdminKey # Blank
    /\ MaxUses \in Nat /\ AtOnce \in Nat
    /\ Budget \in [Kinds -> Nat]

VARIABLES
    nodes,    \* node bucket: per ID a record, or NoNode
    alloc,    \* IPAM bucket: per ID an address, or 0
    invites,  \* invite bucket
    registry, \* the IDs that the registry has in memory
    call,     \* per call: where its handler is, and the local variables
    removal,  \* the handler of UnregisterNode
    named,    \* node IDs that were given out
    free,     \* calls that passed as the first of the cluster
    admitted, \* per code, the calls it let in
    died,     \* the process ended in a panic
    budget

vars == <<nodes, alloc, invites, registry, call, removal, named, free, admitted, died, budget>>

NoNode == [fp |-> "none", ip |-> 0]
NoInvite == [count |-> 0, used |-> FALSE, expired |-> FALSE, exists |-> FALSE]

Spend(kind) == budget[kind] > 0 /\ budget' = [budget EXCEPT ![kind] = @ - 1]
Keep == UNCHANGED budget

Known == {i \in IDs : nodes[i] # NoNode}
Fp(c) == Fingerprint[Machine[c]]

\* GetNodeByFingerprint goes through the bucket in the order of the keys; the last match counts.
Matches_mutRegistry(fp) == {i \in Known : nodes[i].fp = fp /\ i \notin registry}

Matches(fp) == {i \in Known : nodes[i].fp = fp}

\* The empty fingerprint is not looked up.
HasRecord(c) == Fp(c) # NoFingerprint /\ Matches(Fp(c)) # {}

Last(S) == CHOOSE i \in S : \A j \in S : j <= i

Active == {c \in Calls : call[c].pc \notin {"idle", "done", "refused"}}

\* The calls that are being served, UnregisterNode among them.
Served == Cardinality(Active) + (IF removal.pc = "idle" THEN 0 ELSE 1)

Goto(c, pc) == call' = [call EXCEPT ![c].pc = pc]

-----------------------------------------------------------------------------
\* RegisterNode.  A machine whose fingerprint is known gets its old ID and address; others,
\* and a machine without a fingerprint each time, get a new ID.  (The code makes it of the
\* time modulo 100 s and the name, so that an ID can come again; here it does not.)
Begin(c) ==
    /\ ~died
    /\ call[c].pc = "idle"
    /\ Served < AtOnce
    /\ IF HasRecord(c)
       THEN LET i == Last(Matches(Fp(c)))
            IN  /\ call' = [call EXCEPT ![c] = [@ EXCEPT !.pc = "register", !.id = i, !.ip = nodes[i].ip]]
                /\ UNCHANGED named
       ELSE \E i \in IDs \ named :
                /\ call' = [call EXCEPT ![c] = [@ EXCEPT !.pc = "validate", !.id = i]]
                /\ named' = named \cup {i}
    /\ UNCHANGED <<nodes, alloc, invites, registry, removal, free, admitted, died>> /\ Keep

\* The cluster has no node yet.
ColdStart == Known = {}

\* validateRegistration up to the invite code: the administrator's key, the first node of
\* the cluster, no code.
Validate(c) ==
    /\ ~died
    /\ call[c].pc = "validate"
    /\ LET first == Presented[c] # AdminKey /\ ColdStart
       IN  /\ free' = IF first THEN free \cup {c} ELSE free
           /\ Goto(c, CASE Presented[c] = AdminKey \/ first -> "allocate"
                        [] Presented[c] = Blank /\ ~first -> "refused"
                        [] OTHER -> "redeem")
    /\ UNCHANGED <<nodes, alloc, invites, registry, removal, named, admitted, died>> /\ Keep

Redeemed_mutForgetsUsed(ic) == [ic EXCEPT !.count = @ + 1]

\* The record after one more use.
Redeemed(ic) == [ic EXCEPT !.count = @ + 1, !.used = ic.count + 1 >= MaxUses]

Redeemable_mutOneMore(ic) == ic.exists /\ ~ic.expired /\ ic.count <= MaxUses

\* The checks of RedeemInviteCode.
Redeemable(ic) == ic.exists /\ ~ic.expired /\ ~ic.used /\ ic.count < MaxUses

\* RedeemInviteCode: read, check, change ...
ReadInvite(c) ==
    LET ic == invites[Presented[c]]
    IN  /\ ~died
        /\ call[c].pc = "redeem"
        /\ call' = [call EXCEPT ![c] = IF Redeemable(ic) THEN [@ EXCEPT !.pc = "count", !.ic = Redeemed(ic)]
                                       ELSE [@ EXCEPT !.pc = "refused"]]
        /\ UNCHANGED <<nodes, alloc, invites, registry, removal, named, free, admitted, died>> /\ Keep

\* ... and save the copy.
SaveInvite(c) ==
    /\ ~died
    /\ call[c].pc = "count"
    /\ invites' = [invites EXCEPT ![Presented[c]] = call[c].ic]
    /\ admitted' = [admitted EXCEPT ![Presented[c]] = @ \cup {c}]
    /\ Goto(c, "recheck")
    /\ UNCHANGED <<nodes, alloc, registry, removal, named, free, died>> /\ Keep

\* The end of validateRegistration: the fingerprint once more.
Recheck(c) ==
    /\ ~died
    /\ call[c].pc = "recheck"
    /\ Goto(c, IF HasRecord(c) THEN "refused" ELSE "allocate")
    /\ UNCHANGED <<nodes, alloc, invites, registry, removal, named, free, admitted, died>> /\ Keep

Taken_mutSkipsFirst == {alloc[j] : j \in {k \in IDs : \E m \in IDs : m < k}}

\* Addresses that are allocated, to whichever node.
Taken == {alloc[j] : j \in IDs}

\* IPAM.Allocate: the address the ID has, or the first one that is free.  Without IPAM the
\* handler calls a method of a nil pointer.
Allocate(c) ==
    LET i == call[c].id
        open == Addresses \ Taken
        a == IF alloc[i] # 0 THEN alloc[i]
             ELSE IF open # {} THEN CHOOSE x \in open : \A y \in open : x <= y ELSE 0
    IN  /\ ~died
        /\ call[c].pc = "allocate"
        /\ died' = ~HasIPAM
        /\ alloc' = IF HasIPAM THEN [alloc EXCEPT ![i] = a] ELSE alloc
        /\ call' = [call EXCEPT ![c] = [@ EXCEPT !.pc = IF HasIPAM /\ a # 0 THEN "register" ELSE "refused", !.ip = a]]
        /\ UNCHANGED <<nodes, invites, registry, removal, named, free, admitted>> /\ Keep

\* registry.Register, for a new node and one that registers again.
Register(c) ==
    /\ ~died
    /\ call[c].pc = "register"
    /\ registry' = registry \cup {call[c].id}
    /\ Goto(c, "save")
    /\ UNCHANGED <<nodes, alloc, invites, removal, named, free, admitted, died>> /\ Keep

\* store.SaveNode.
Save(c) ==
    /\ ~died
    /\ call[c].pc = "save"
    /\ nodes' = [nodes EXCEPT ![call[c].id] = [fp |-> Fp(c), ip |-> call[c].ip]]
    /\ Goto(c, "done")
    /\ UNCHANGED <<alloc, invites, registry, removal, named, free, admitted, died>> /\ Keep

\* SaveNode fails: the caller gets an error, and what was done before stays done.
SaveFails(c) ==
    /\ ~died
    /\ call[c].pc = "save"
    /\ Spend("disk")
    /\ Goto(c, "refused")
    /\ UNCHANGED <<nodes, alloc, invites, registry, removal, named, free, admitted, died>>

RegisterNode(c) ==
    \/ Begin(c) \/ Validate(c) \/ ReadInvite(c) \/ SaveInvite(c) \/ Recheck(c)
    \/ Allocate(c) \/ Register(c) \/ Save(c) \/ SaveFails(c)

-----------------------------------------------------------------------------
\* The registry without node i.
Forgotten(i) == registry \ {i}

\* UnregisterNode, after it has reclaimed the node's units: out of the registry ...
Unregister(i) ==
    /\ ~died
    /\ removal.pc = "idle" /\ Served < AtOnce
    /\ i \in Known
    /\ Spend("remove")
    /\ registry' = Forgotten(i)
    /\ removal' = [pc |-> "release", id |-> i]
    /\ UNCHANGED <<nodes, alloc, invites, call, named, free, admitted, died>>

\* ... the address back to the range (without IPAM there is none) ...
Release ==
    /\ ~died
    /\ removal.pc = "release"
    /\ alloc' = [alloc EXCEPT ![removal.id] = 0]
    /\ removal' = [removal EXCEPT !.pc = "delete"]
    /\ UNCHANGED <<nodes, invites, registry, call, named, free, admitted, died>> /\ Keep

\* ... and the record out of the store.
Delete ==
    /\ ~died
    /\ removal.pc = "delete"
    /\ nodes' = [nodes EXCEPT ![removal.id] = NoNode]
    /\ removal' = [removal EXCEPT !.pc = "idle"]
    /\ UNCHANGED <<alloc, invites, registry, call, named, free, admitted, died>> /\ Keep

\* CreateInviteCode.
CreateInvite(code) ==
    /\ ~died
    /\ ~invites[code].exists
    /\ invites' = [invites EXCEPT ![code].exists = TRUE]
    /\ UNCHANGED <<nodes, alloc, registry, call, removal, named, free, admitted, died>> /\ Keep

Expire(code) ==
    /\ invites[code].exists /\ ~invites[code].expired
    /\ Spend("expire")
    /\ invites' = [invites EXCEPT ![code].expired = TRUE]
    /\ UNCHANGED <<nodes, alloc, registry, call, removal, named, free, admitted, died>>

\* The scheduler stops at any moment and starts again: handlers are gone, LoadNodes.
Restart ==
    /\ Spend("restart")
    /\ registry' = Known
    /\ call' = [c \in Calls |-> IF c \in Active THEN [call[c] EXCEPT !.pc = "refused"] ELSE call[c]]
    /\ removal' = [removal EXCEPT !.pc = "idle"]
    /\ died' = FALSE
    /\ UNCHANGED <<nodes, alloc, invites, named, free, admitted>>

Init ==
    /\ nodes = [i \in IDs |-> NoNode]
    /\ alloc = [i \in IDs |-> 0]
    /\ invites = [k \in Codes |-> NoInvite]
    /\ registry = {}
    /\ call = [c \in Calls |-> [pc |-> "idle", id |-> 0, ip |-> 0, ic |-> NoInvite]]
    /\ removal = [pc |-> "idle", id |-> 0]
    /\ named = {} /\ free = {}
    /\ admitted = [k \in Codes |-> {}]
    /\ died = FALSE
    /\ budget = Budget

Next ==
    \/ \E c \in Calls : RegisterNode(c)
    \/ \E i \in IDs : Unregister(i)
    \/ Release \/ Delete \/ Restart
    \/ \E k \in Codes : CreateInvite(k) \/ Expire(k)

Spec == Init /\ [][Next]_vars

-----------------------------------------------------------------------------
\* Properties.

Invites == [count : Nat, used : BOOLEAN, expired : BOOLEAN, exists : BOOLEAN]
Places == {"idle", "validate", "redeem", "count", "recheck", "allocate", "register", "save", "done", "refused"}

\* The variables have their types; a code that is used up is marked so; a handler that is
\* going to register has an address.
TypeOK ==
    /\ \A i \in IDs : nodes[i].ip \in Addresses \cup {0} /\ (nodes[i].ip = 0 <=> nodes[i] = NoNode)
    /\ alloc \in [IDs -> Addresses \cup {0}]
    /\ \A k \in Codes : invites[k] \in Invites /\ (invites[k].used <=> invites[k].count >= MaxUses /\ invites[k].count > 0)
    /\ registry \subseteq named /\ named \subseteq IDs
    /\ \A c \in Calls : /\ call[c].pc \in Places
                        /\ call[c].pc \in {"register", "save"} => call[c].ip # 0 /\ call[c].id \in named
    /\ removal.pc \in {"idle", "release", "delete"}

\* No address is allocated to two nodes (the lock of IPAM).
AllocationsDiffer ==
    \A i, j \in IDs : i # j /\ alloc[i] # 0 => alloc[i] # alloc[j]

\* No two node records carry one overlay address.
AddressesDiffer ==
    \A i, j \in Known : i # j => nodes[i].ip # nodes[j].ip

\* A code lets in no more nodes than it was made for (RedeemInviteCode).
CodesAreSpent == \A k \in Codes : Cardinality(admitted[k]) <= MaxUses

\* Codes are spent, and only one of the nodes of a cluster got in as its first, without one.
AdmittedByRight ==
    /\ CodesAreSpent
    /\ Cardinality({c \in free : call[c].pc = "done" /\ call[c].id \in Known}) <= 1

\* RegisterNode serves one call at a time.  Nothing in the code makes it so.
OneCall == \A c, d \in Active : c = d

\* As long as calls come one by one, whoever is let in is let in by right.
AdmittedInTurn == []OneCall => []AdmittedByRight

\* A machine that sends a fingerprint has one node record, however often its agent registers.
OneNodePerMachine ==
    \A i, j \in Known : i # j /\ nodes[i].fp = nodes[j].fp => nodes[i].fp = NoFingerprint

\* The steps of overlapping handlers add up to an address book.
Promised == INSTANCE AddressBook WITH Nobody <- 0, book <- [i \in IDs |-> nodes[i].ip]

KeepsAddressBook == Promised!Spec
=============================================================================
