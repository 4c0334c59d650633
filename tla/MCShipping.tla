----------------------------- MODULE MCShipping -----------------------------
(***************************************************************************)
(* What a primary tells others, for TLC: its log to a standby (Replication, *)
(* and WalCodec for what is read from a file of it), or the events of a job *)
(* to the clients that watch it (Watch).  They have no variable in common,  *)
(* so a behaviour is one of a single instance, which part names, and the    *)
(* other modules stand still.                                               *)
(***************************************************************************)
EXTENDS Replication, Watch, WalCodec, TLC

CONSTANTS k1, k2, w1, w2

VARIABLE part

\* One record has one writer, the job both.
MixedKeys == (w1 :> {k1, k2}) @@ (w2 :> {k2})

\* So many writes, and each of these faults once.
Events(writes, faults) ==
    [k \in Kinds |-> IF k = "write" THEN writes ELSE IF k \in faults THEN 1 ELSE 0]

BrokenStreams == Events(3, {"drop", "cut", "checkpoint"})

all == <<part, vars, watchVars, codecVars>>

OnBus(A) == part = "watch" /\ A /\ UNCHANGED <<part, vars, codecVars>>

ShippingInit == part \in {"log", "watch", "codec"} /\ Init /\ WatchInit /\ CodecInit

ShippingNext ==
    \/ part = "log" /\ Next /\ UNCHANGED <<part, watchVars, codecVars>>
    \/ OnBus(WatchNext)
    \/ part = "codec" /\ CodecNext /\ UNCHANGED <<part, vars, watchVars>>

\* What WatchLiveSpec asks for.
ShippingFairness ==
    /\ \A p \in Publishers : WF_all(OnBus(Writing(p)))
    /\ \A w \in Watchers : WF_all(OnBus(Watching(w)))

ShippingSpec == ShippingInit /\ [][ShippingNext]_all /\ ShippingFairness
=============================================================================
