----------------------------- MODULE MCMembers ------------------------------
(***************************************************************************)
(* Small instances of Membership, TrustPath, Trust and Listing for TLC.     *)
(* They have no variable in common, so a behaviour is one of a single       *)
(* instance, which part names, and the other modules stand still.           *)
(***************************************************************************)
EXTENDS Membership, TrustPath, Trust, Listing, TLC

CONSTANTS c1, c2, c3, k1, k2

VARIABLE part

Times(remove, restart, expire, disk) ==
    [k \in Kinds |-> CASE k = "remove" -> remove [] k = "restart" -> restart
                        [] k = "expire" -> expire [] k = "disk" -> disk]

\* Three machines register at the same time, with a code each except for the first; two of
\* them have no fingerprint.
OwnMachines == (c1 :> "m1") @@ (c2 :> "m2") @@ (c3 :> "m3")
OwnFingerprint == [m \in {"m1", "m2", "m3"} |-> IF m = "m1" THEN m ELSE NoFingerprint]
CodeEach == (c1 :> Blank) @@ (c2 :> k1) @@ (c3 :> k2)
OneCode == (c1 :> Blank) @@ (c2 :> k1) @@ (c3 :> k1)
Faults == Times(0, 1, 1, 1)

\* One call or removal at a time; one machine registers twice, and the others share a code.
InTurn == INSTANCE Membership WITH
    Machine <- (c1 :> "m1") @@ (c2 :> "m2") @@ (c3 :> "m1"),
    Presented <- OneCode,
    AtOnce <- 1, Budget <- Times(2, 0, 1, 0)

\* Two declarations of one edge, a declaration of another edge that carries a wrong signature,
\* and a revocation of each.
Declared == {"d1", "d2", "d3"}
Revoked == {"r1", "r2"}
ThisEdge == <<"n", "m">>
OtherEdge == <<"m", "n">>
TrustEdges == {ThisEdge, OtherEdge}
EdgeOf == [c \in Declared \cup Revoked |-> IF c \in {"d3", "r2"} THEN OtherEdge ELSE ThisEdge]
SignatureOf ==
    [c \in Declared \cup Revoked |-> IF c = "d3" THEN "bad" ELSE IF c = "d1" THEN "good" ELSE "none"]

ASSUME InTurn!MembershipAssumption

all == <<part, vars, searchVars, trustVars, listVars>>

\* The graphs and lists to begin with only vary where they are searched or read.
NoSearch == trusts = [n \in Node |-> {}] /\ sources = {} /\ SearchInit
NoWalk == known = {} /\ request = [of |-> "jobs", size |-> 0] /\ WalkInit

MembersInit ==
    \/ part = "at_once" /\ Init /\ NoSearch /\ TrustInit /\ NoWalk
    \/ part = "in_turn" /\ InTurn!Init /\ NoSearch /\ TrustInit /\ NoWalk
    \/ part = "search" /\ Init /\ SearchInit /\ TrustInit /\ NoWalk
    \/ part = "trust" /\ Init /\ NoSearch /\ TrustInit /\ NoWalk
    \/ part = "walk" /\ Init /\ NoSearch /\ TrustInit /\ WalkInit

MembersNext ==
    \/ part = "at_once" /\ Next /\ UNCHANGED <<part, searchVars, trustVars, listVars>>
    \/ part = "in_turn" /\ InTurn!Next /\ UNCHANGED <<part, searchVars, trustVars, listVars>>
    \/ part = "search" /\ Search /\ UNCHANGED <<part, vars, trustVars, listVars>>
    \/ part = "trust" /\ TrustNext /\ UNCHANGED <<part, vars, searchVars, listVars>>
    \/ part = "walk" /\ WalkNext /\ UNCHANGED <<part, vars, searchVars, trustVars>>

\* What TrustFairness asks for.
MembersFairness ==
    LET OfTrust(A) == part = "trust" /\ A /\ UNCHANGED <<part, vars, searchVars, listVars>>
    IN  /\ WF_all(OfTrust(PruneGraph))
        /\ WF_all(OfTrust(PruneList))
        /\ WF_all(OfTrust(PruneStore))

MembersSpec == MembersInit /\ [][MembersNext]_all /\ MembersFairness

-----------------------------------------------------------------------------
\* The variables of the modules have their types.
TypesOK == TypeOK /\ SearchTypeOK /\ TrustTypeOK
=============================================================================
