-------------------------- MODULE ReplicationProofs --------------------------
(***************************************************************************)
(* A standby replays the primary's log without a gap and ends with its      *)
(* store, whatever is cut, cleaned up, broken off or restarted on the way,  *)
(* as long as the primary keeps running.  And the event bus sends on open   *)
(* channels only, and a reader gets the entries of a file that are whole.   *)
(***************************************************************************)
EXTENDS Replication, Watch, WalCodec, TLAPS

USE ReplicationAssumption

-----------------------------------------------------------------------------
\* Types.

\* A standby that has not taken over can still fail a check.
Sensible(r) == /\ r \in Standby
               /\ r.pc = "replay" <=> r.inbox # {}
               /\ r.role = "standby" => r.fails < MaxFailures

Typed == /\ TypeOK
         /\ check = [pc |-> check.pc, ack |-> check.ack, ranges |-> check.ranges]
         /\ check.ack \in Nat
         /\ up \/ check = NoCheck
         /\ \A s \in Standbys : Sensible(sb[s])

\* The part of it that is about the primary.
PrimaryTyped ==
    /\ Log!WalTypeOK
    /\ up \in BOOLEAN
    /\ db \in [Keys -> Values \cup {Absent}]
    /\ pend \in [Writers -> Ops \cup {NoOp}]
    /\ ack \in Nat
    /\ check.pc \in {"idle", "ranges", "remove"}
    /\ DOMAIN check.ranges \subseteq {e.file : e \in files}
    /\ check = [pc |-> check.pc, ack |-> check.ack, ranges |-> check.ranges]
    /\ check.ack \in Nat
    /\ up \/ check = NoCheck
    /\ journal \in Seq(Ops)

OthersTyped ==
    /\ link \subseteq Standbys
    /\ sb \in [Standbys -> Standby]
    /\ \A s \in Standbys : Sensible(sb[s])
    /\ budget \in [Kinds -> Nat]

LEMMA TypedParts == Typed <=> PrimaryTyped /\ OthersTyped
  BY DEF Typed, TypeOK, PrimaryTyped, OthersTyped, Sensible

LEMMA TypedPartsNext == Typed' <=> PrimaryTyped' /\ OthersTyped'
  BY DEF Typed, TypeOK, PrimaryTyped, OthersTyped, Sensible

LEMMA OpFacts ==
    /\ NoOp \notin Ops
    /\ \A op \in Ops : op.key \in Keys /\ op.value \in Values \cup {Absent}
  BY DEF Ops, NoOp

LEMMA SpendFact == ASSUME budget \in [Kinds -> Nat], NEW k \in Kinds, Spend(k)
                   PROVE  /\ budget' \in [Kinds -> Nat]
                          /\ \A j \in Kinds : budget[j] = 0 => j # k /\ budget'[j] = 0
  BY DEF Spend

\* A store stays one.
LEMMA AfterType == ASSUME NEW store \in [Keys -> Values \cup {Absent}], NEW op \in Ops
                   PROVE  After(store, op) \in [Keys -> Values \cup {Absent}]
  BY OpFacts DEF After

\* Write adds one entry, the next, to the file it is writing or to one it opens.
LEMMA WriteFact ==
    ASSUME Log!WalTypeOK, NEW op \in Ops, Log!Write(op)
    PROVE  \E f \in {writer.file, writer.file + 1}, kept \in SUBSET files :
             /\ writer' = [file |-> f, seq |-> writer.seq + 1]
             /\ files' = kept \cup {[file |-> f, seq |-> writer.seq + 1, op |-> op]}
             /\ \A e \in files \ kept : e.file = writer.file + 1 /\ f = writer.file + 1
<1> DEFINE new(f) == [file |-> f, seq |-> writer.seq + 1, op |-> op]
<1>1. \/ /\ writer' = [file |-> writer.file, seq |-> writer.seq + 1]
         /\ files' = files \cup {new(writer.file)}
      \/ /\ writer' = [file |-> writer.file + 1, seq |-> writer.seq + 1]
         /\ files' = (files \ Log!In(writer.file + 1)) \cup {new(writer.file + 1)}
  BY DEF Log!Write
<1>2. \A e \in files \ (files \ Log!In(writer.file + 1)) : e.file = writer.file + 1
  BY DEF Log!In
<1> QED BY <1>1, <1>2

-----------------------------------------------------------------------------
\* What a step does to a standby: it replaces its record.
Becomes(s, r) == sb' = [sb EXCEPT ![s] = r]

SameStore(s, r) == r.db = sb[s].db /\ r.last = sb[s].last /\ r.seen = sb[s].seen

\* It goes on with what it has,
Going(s, r) == /\ SameStore(s, r)
               /\ r.inbox \in Log!Prefixes(sb[s].inbox) \cup {{}}
               /\ r.pc = "fetch" => \/ sb[s].pc = "fetch"
                                    \/ sb[s].last > 0 => sb[s].last < writer.seq

\* or has fetched the rest of the log,
Fetched(s, r) == /\ SameStore(s, r)
                 /\ sb[s].pc = "fetch" /\ r.pc # "fetch"
                 /\ r.inbox = Log!ReadFrom(sb[s].last + 1)

\* or has replayed the first entry of what it has.
Applied(s, r, e) == /\ Log!First(e, sb[s].inbox)
                    /\ r.db = After(sb[s].db, e.op)
                    /\ r.last = IF e.seq > sb[s].last THEN e.seq ELSE sb[s].last
                    /\ r.seen = sb[s].seen \cup {e.seq}
                    /\ r.inbox = sb[s].inbox \ {e}
                    /\ r.pc # "fetch"

LEMMA PrefixFact ==
    ASSUME NEW S, NEW P \in Log!Prefixes(S) \cup {{}}
    PROVE  P \subseteq S
  BY DEF Log!Prefixes

LEMMA InboxFact ==
    ASSUME NEW r, Sensible(r), NEW P \in SUBSET Log!Entry
    PROVE  /\ Sensible(WithInbox(r, P))
           /\ WithInbox(r, P).db = r.db /\ WithInbox(r, P).last = r.last
           /\ WithInbox(r, P).seen = r.seen /\ WithInbox(r, P).inbox = P
           /\ WithInbox(r, P).pc # "fetch" /\ WithInbox(r, P).role = r.role
  BY DEF WithInbox, Sensible, Standby

LEMMA ConnectMoves == ASSUME Typed, NEW s \in Standbys, Connect(s)
                      PROVE  \E r : Becomes(s, r) /\ Sensible(r) /\ Going(s, r)
<1>1. PICK l \in {"running", "dead"} : Becomes(s, [sb[s] EXCEPT !.loop = l])
  BY DEF Connect, Becomes
<1>2. Sensible([sb[s] EXCEPT !.loop = l]) /\ Going(s, [sb[s] EXCEPT !.loop = l])
  BY DEF Typed, Sensible, Standby, Going, SameStore, Log!Prefixes
<1> QED BY <1>1, <1>2

LEMMA PollMoves == ASSUME Typed, NEW s \in Standbys, Poll(s)
                   PROVE  \E r : Becomes(s, r) /\ Sensible(r) /\ Going(s, r)
<1>1. Becomes(s, [sb[s] EXCEPT !.pc = "fetch"])
  BY DEF Poll, Becomes
<1>2. Sensible([sb[s] EXCEPT !.pc = "fetch"]) /\ Going(s, [sb[s] EXCEPT !.pc = "fetch"])
  BY DEF Typed, Poll, Sensible, Standby, Going, SameStore, Log!Prefixes
<1> QED BY <1>1, <1>2

LEMMA FetchMoves ==
    ASSUME Typed, NEW s \in Standbys, Fetch(s)
    PROVE  /\ UNCHANGED <<files, writer, up, db, pend, check, journal, link, budget>>
           /\ \E r : /\ Becomes(s, r) /\ Sensible(r)
                     /\ \/ Going(s, r) /\ ack' = ack
                        \/ Fetched(s, r) /\ ack' = IF sb[s].last > 0 THEN sb[s].last ELSE ack
<1>s. Sensible(sb[s]) /\ sb[s] \in Standby
  BY DEF Typed, Sensible
<1>1. CASE sb' = [sb EXCEPT ![s].loop = "panicked", ![s].pc = "idle"] /\ UNCHANGED ack
  <2> DEFINE r == [sb[s] EXCEPT !.loop = "panicked", !.pc = "idle"]
  <2>1. Becomes(s, r)
    BY <1>1 DEF Becomes, Typed, TypeOK
  <2>2. Sensible(r) /\ Going(s, r)
    BY <1>s DEF Fetch, Sensible, Standby, Going, SameStore, Log!Prefixes
  <2> QED BY <1>1, <2>1, <2>2 DEF Fetch
<1>2. CASE sb' = [sb EXCEPT ![s].pc = "idle"] /\ UNCHANGED ack
  <2> DEFINE r == [sb[s] EXCEPT !.pc = "idle"]
  <2>1. Becomes(s, r)
    BY <1>2 DEF Becomes
  <2>2. Sensible(r) /\ Going(s, r)
    BY <1>s DEF Fetch, Sensible, Standby, Going, SameStore, Log!Prefixes
  <2> QED BY <1>2, <2>1, <2>2 DEF Fetch
<1>3. CASE /\ sb' = [sb EXCEPT ![s] = WithInbox(@, Log!ReadFrom(@.last + 1))]
           /\ ack' = IF sb[s].last > 0 THEN sb[s].last ELSE ack
  <2> DEFINE r == WithInbox(sb[s], Log!ReadFrom(sb[s].last + 1))
  <2>1. Becomes(s, r)
    BY <1>3 DEF Becomes
  <2>2. Log!ReadFrom(sb[s].last + 1) \in SUBSET Log!Entry
    BY DEF Typed, TypeOK, Log!WalTypeOK, Log!ReadFrom
  <2>3. Sensible(r) /\ Fetched(s, r)
    BY <1>s, <2>2, InboxFact DEF Fetch, Fetched, SameStore
  <2> QED BY <1>3, <2>1, <2>3 DEF Fetch
<1> QED BY <1>1, <1>2, <1>3 DEF Fetch

LEMMA ReplayMoves ==
    ASSUME Typed, NEW s \in Standbys, Replay(s)
    PROVE  \E r : /\ Becomes(s, r) /\ Sensible(r)
                  /\ Going(s, r) \/ \E e \in sb[s].inbox : Applied(s, r, e)
<1>s. Sensible(sb[s]) /\ sb[s] \in Standby /\ sb[s].inbox \subseteq Log!Entry
  BY DEF Typed, Sensible, Standby
<1>1. PICK e \in sb[s].inbox : /\ Log!First(e, sb[s].inbox)
                               /\ Becomes(s, Replayed(sb[s], e))
  BY DEF Replay, Becomes
<1>2. CASE ~ Applicable(sb[s].db, e.op)
  <2>1. Replayed(sb[s], e) = WithInbox(sb[s], {})
    BY <1>2 DEF Replayed
  <2>2. Sensible(WithInbox(sb[s], {})) /\ Going(s, WithInbox(sb[s], {}))
    BY <1>s, InboxFact DEF Going, SameStore
  <2> QED BY <1>1, <2>1, <2>2
<1>3. CASE Applicable(sb[s].db, e.op)
  <2> DEFINE r == [sb[s] EXCEPT !.db = After(@, e.op), !.last = IF e.seq > @ THEN e.seq ELSE @,
                                !.seen = @ \cup {e.seq}]
  <2>1. Replayed(sb[s], e) = WithInbox(r, sb[s].inbox \ {e})
    BY <1>3 DEF Replayed
  <2>2. e.op \in Ops /\ e.seq \in Nat \ {0}
    BY <1>s DEF Log!Entry
  <2>3. After(sb[s].db, e.op) \in [Keys -> Values \cup {Absent}]
    BY <1>s, <2>2, AfterType DEF Standby
  <2>4. Sensible(r)
    BY <1>s, <2>2, <2>3 DEF Sensible, Standby
  <2>5. /\ r.db = After(sb[s].db, e.op) /\ r.seen = sb[s].seen \cup {e.seq}
        /\ r.last = IF e.seq > sb[s].last THEN e.seq ELSE sb[s].last
    BY <1>s DEF Standby
  <2> HIDE DEF r
  <2>6. Sensible(WithInbox(r, sb[s].inbox \ {e})) /\ Applied(s, WithInbox(r, sb[s].inbox \ {e}), e)
    BY <1>s, <1>1, <2>4, <2>5, InboxFact DEF Applied
  <2> QED BY <1>1, <2>1, <2>6
<1> QED BY <1>2, <1>3

LEMMA DropMoves == ASSUME Typed, NEW s \in Standbys, Drop(s)
                   PROVE  \E r : Becomes(s, r) /\ Sensible(r) /\ Going(s, r)
<1>s. Sensible(sb[s]) /\ sb[s].inbox \subseteq Log!Entry
  BY DEF Typed, Sensible, Standby
<1>1. PICK P \in Log!Prefixes(sb[s].inbox) : Becomes(s, WithInbox(sb[s], P))
  BY DEF Drop, Becomes
<1>2. Sensible(WithInbox(sb[s], P)) /\ Going(s, WithInbox(sb[s], P))
  BY <1>s, InboxFact, PrefixFact DEF Going, SameStore
<1> QED BY <1>1, <1>2

LEMMA HealthMoves == ASSUME Typed, NEW s \in Standbys, HealthNext(s)
                     PROVE  \E r : Becomes(s, r) /\ Sensible(r) /\ Going(s, r)
<1>s. Sensible(sb[s]) /\ sb[s] \in Standby /\ sb[s].inbox \subseteq Log!Entry
  BY DEF Typed, Sensible, Standby
<1>1. CASE Healthy(s)
  <2>1. Becomes(s, [sb[s] EXCEPT !.fails = 0])
    BY <1>1 DEF Healthy, Becomes
  <2>2. Sensible([sb[s] EXCEPT !.fails = 0]) /\ Going(s, [sb[s] EXCEPT !.fails = 0])
    BY <1>s DEF Sensible, Standby, Going, SameStore, Log!Prefixes
  <2> QED BY <2>1, <2>2
<1>2. CASE Unhealthy(s)
  <2>1. PICK P \in Log!Prefixes(sb[s].inbox) : Becomes(s, FailedCheck(sb[s], P))
    BY <1>2 DEF Unhealthy, Becomes
  <2>2. P \subseteq Log!Entry
    BY <1>s, PrefixFact
  <2>3. sb[s].fails \in Nat /\ sb[s].fails < MaxFailures /\ sb[s].inbox \in Log!Prefixes(sb[s].inbox)
    BY <1>s, <1>2 DEF Unhealthy, Sensible, Standby, Log!Prefixes
  <2> DEFINE counted == [sb[s] EXCEPT !.fails = @ + 1]
             promoted == [sb[s] EXCEPT !.fails = @ + 1, !.role = "active"]
  <2>4. CASE sb[s].fails + 1 < MaxFailures
    <3>1. FailedCheck(sb[s], P) = counted
      BY <2>4 DEF FailedCheck
    <3>2. Sensible(counted) /\ Going(s, counted)
      BY <1>s, <2>3, <2>4 DEF Sensible, Standby, Going, SameStore
    <3> QED BY <2>1, <3>1, <3>2
  <2>5. CASE ~ (sb[s].fails + 1 < MaxFailures)
    <3>s. promoted.fails \in 0..MaxFailures /\ promoted.role = "active"
      BY <1>s, <2>3, <2>5 DEF Standby
    <3>t. promoted \in Standby
      BY <1>s, <3>s DEF Standby
    <3>1. Sensible(promoted) /\ Going(s, promoted)
      BY <1>s, <2>3, <3>s, <3>t DEF Sensible, Standby, Going, SameStore
    <3>2. FailedCheck(sb[s], P) = IF sb[s].pc = "replay" THEN WithInbox(promoted, P) ELSE promoted
      BY <2>5 DEF FailedCheck
    <3> HIDE DEF promoted
    <3>3. Sensible(WithInbox(promoted, P)) /\ Going(s, WithInbox(promoted, P))
      BY <2>2, <3>1, InboxFact DEF Going, SameStore
    <3> QED BY <2>1, <3>1, <3>2, <3>3
  <2> QED BY <2>4, <2>5
<1> QED BY <1>1, <1>2 DEF HealthNext

LEMMA FreshFact == ASSUME Typed, NEW store \in [Keys -> Values \cup {Absent}], NEW S \in SUBSET (Nat \ {0})
                   PROVE  Sensible(Fresh(store, S))
  BY DEF Fresh, Sensible, Standby

\* The steps of the standbys, ...
StandbyMoves(s) ==
    \E r : /\ Becomes(s, r) /\ Sensible(r)
           /\ \/ Going(s, r) /\ UNCHANGED primaryVars
              \/ /\ Fetched(s, r)
                 /\ ack' = IF sb[s].last > 0 THEN sb[s].last ELSE ack
                 /\ UNCHANGED <<files, writer, up, db, pend, check, journal>>
              \/ /\ \E e \in sb[s].inbox : Applied(s, r, e)
                 /\ UNCHANGED primaryVars
              \/ Spend("reboot") /\ r = Fresh(sb[s].db, sb[s].seen) /\ UNCHANGED primaryVars
              \/ Spend("rebuild") /\ r = Fresh(NoStore, {}) /\ UNCHANGED primaryVars

\* ... of the primary, ...
PrimaryMoves ==
    \/ \E w \in Writers : LogEntry(w) \/ \E op \in Ops : Commit(w, op)
    \/ Crash \/ Restart \/ CheckpointAck \/ CheckpointNext

\* ... and the rest.
NobodyMoves == UNCHANGED <<primaryVars, sb>>

LEMMA StepCases ==
    ASSUME Typed, [Next]_vars
    PROVE  PrimaryMoves \/ NobodyMoves \/ \E s \in Standbys : StandbyMoves(s)
<1>t. ASSUME NEW s \in Standbys PROVE sb[s] \in Standby /\ NoStore \in [Keys -> Values \cup {Absent}]
  BY DEF Typed, TypeOK, NoStore
<1>1. ASSUME NEW s \in Standbys, Connect(s) PROVE StandbyMoves(s)
  BY <1>1, ConnectMoves DEF StandbyMoves, Connect
<1>2. ASSUME NEW s \in Standbys, Poll(s) PROVE StandbyMoves(s)
  BY <1>2, PollMoves DEF StandbyMoves, Poll
<1>3. ASSUME NEW s \in Standbys, Fetch(s) PROVE StandbyMoves(s)
  BY <1>3, FetchMoves DEF StandbyMoves, primaryVars
<1>4. ASSUME NEW s \in Standbys, Replay(s) PROVE StandbyMoves(s)
  BY <1>4, ReplayMoves DEF StandbyMoves, Replay
<1>5. ASSUME NEW s \in Standbys, Drop(s) PROVE StandbyMoves(s)
  BY <1>5, DropMoves DEF StandbyMoves, Drop
<1>6. ASSUME NEW s \in Standbys, HealthNext(s) PROVE StandbyMoves(s)
  BY <1>6, HealthMoves DEF StandbyMoves, HealthNext, Healthy, Unhealthy
<1>7. ASSUME NEW s \in Standbys, Reboot(s) PROVE StandbyMoves(s)
  BY <1>t, <1>7, FreshFact DEF StandbyMoves, Reboot, Becomes, Standby
<1>8. ASSUME NEW s \in Standbys, Rebuild(s) PROVE StandbyMoves(s)
  BY <1>t, <1>8, FreshFact DEF StandbyMoves, Rebuild, Becomes, Standby
<1>9. ASSUME NEW s \in Standbys, Cut(s) \/ Mend(s) PROVE NobodyMoves
  BY <1>9 DEF NobodyMoves, Cut, Mend
<1>10. CASE UNCHANGED vars
  BY <1>10 DEF NobodyMoves, vars
<1> QED BY <1>1, <1>2, <1>3, <1>4, <1>5, <1>6, <1>7, <1>8, <1>9, <1>10 DEF Next, SyncNext, PrimaryMoves

\* Events that are not in the budget do not happen.
LEMMA BudgetStep ==
    ASSUME Typed, [Next]_vars
    PROVE  /\ budget' \in [Kinds -> Nat] /\ link' \subseteq Standbys
           /\ \A k \in Kinds : budget[k] = 0 => budget'[k] = 0
           /\ budget["crash"] = 0 => ~ Crash
           /\ budget["checkpoint"] = 0 => ~ CheckpointAck
<1>b. budget \in [Kinds -> Nat] /\ link \subseteq Standbys
  BY DEF Typed, TypeOK
<1>k. \A k \in {"write", "crash", "reboot", "rebuild", "drop", "cut", "checkpoint"} : k \in Kinds
  BY DEF Kinds
<1>1. \/ UNCHANGED budget
      \/ \E k \in Kinds : Spend(k)
  BY <1>k DEF Next, vars, Commit, LogEntry, Crash, Restart, CheckpointAck, CheckpointNext, CheckpointRanges,
         CheckpointRemove, Connect, SyncNext, Poll, Fetch, Replay, HealthNext, Healthy, Unhealthy, Drop,
         Reboot, Rebuild, Cut, Mend
<1>2. UNCHANGED link \/ \E s \in Standbys : link' = link \ {s} \/ link' = link \cup {s}
  BY DEF Next, vars, Commit, LogEntry, Crash, Restart, CheckpointAck, CheckpointNext, CheckpointRanges,
         CheckpointRemove, Connect, SyncNext, Poll, Fetch, Replay, HealthNext, Healthy, Unhealthy, Drop,
         Reboot, Rebuild, Cut, Mend
<1>3. ~ (budget["crash"] = 0 /\ Crash) /\ ~ (budget["checkpoint"] = 0 /\ CheckpointAck)
  BY DEF Crash, CheckpointAck, Spend
<1>4. budget' \in [Kinds -> Nat] /\ \A k \in Kinds : budget[k] = 0 => budget'[k] = 0
  BY <1>b, <1>1, SpendFact
<1> QED BY <1>b, <1>2, <1>3, <1>4

LEMMA CommitTypes == ASSUME PrimaryTyped, NEW w \in Writers, NEW op \in Ops, Commit(w, op)
                     PROVE  PrimaryTyped'
<1>1. db' \in [Keys -> Values \cup {Absent}]
  BY AfterType DEF PrimaryTyped, Commit
<1>2. pend' \in [Writers -> Ops \cup {NoOp}]
  BY DEF PrimaryTyped, Commit
<1> QED BY <1>1, <1>2 DEF PrimaryTyped, Commit, Log!WalTypeOK

LEMMA LogEntryTypes == ASSUME PrimaryTyped, NEW w \in Writers, LogEntry(w)
                       PROVE  PrimaryTyped'
<1>1. pend[w] \in Ops
  BY DEF PrimaryTyped, LogEntry
<1>2. PICK f \in {writer.file, writer.file + 1}, kept \in SUBSET files :
        /\ writer' = [file |-> f, seq |-> writer.seq + 1]
        /\ files' = kept \cup {[file |-> f, seq |-> writer.seq + 1, op |-> pend[w]]}
        /\ \A e \in files \ kept : e.file = writer.file + 1 /\ f = writer.file + 1
  BY <1>1, WriteFact DEF PrimaryTyped, LogEntry
<1>3. Log!WalTypeOK'
  BY <1>1, <1>2 DEF PrimaryTyped, Log!WalTypeOK, Log!Entry
<1>4. {e.file : e \in files} \subseteq {e.file : e \in files'}
  <2> SUFFICES ASSUME NEW e \in files PROVE \E d \in files' : d.file = e.file
    OBVIOUS
  <2> DEFINE new == [file |-> f, seq |-> writer.seq + 1, op |-> pend[w]]
  <2>1. new \in files' /\ new.file = f
    BY <1>2
  <2>2. e \in files' \/ e.file = f
    BY <1>2
  <2> QED BY <2>1, <2>2
<1>5. pend' \in [Writers -> Ops \cup {NoOp}] /\ journal' \in Seq(Ops)
  BY <1>1 DEF PrimaryTyped, LogEntry
<1> QED BY <1>3, <1>4, <1>5 DEF PrimaryTyped, LogEntry

LEMMA PrimaryTypes == ASSUME Typed, PrimaryMoves PROVE PrimaryTyped'
<1>t. PrimaryTyped
  BY TypedParts
<1>n. /\ NoCheck = [pc |-> NoCheck.pc, ack |-> NoCheck.ack, ranges |-> NoCheck.ranges]
      /\ NoCheck.pc = "idle" /\ NoCheck.ack = 0 /\ DOMAIN NoCheck.ranges = {}
  BY DEF NoCheck
<1>1. CASE Crash
  <2>1. /\ check' = [pc |-> check'.pc, ack |-> check'.ack, ranges |-> check'.ranges]
        /\ check'.pc = "idle" /\ check'.ack = 0 /\ DOMAIN check'.ranges = {} /\ check' = NoCheck
    BY <1>n, <1>1 DEF Crash
  <2>2. pend' \in [Writers -> Ops \cup {NoOp}] /\ ack' = 0 /\ up' = FALSE
    BY <1>1 DEF Crash
  <2>3. Log!WalTypeOK' /\ UNCHANGED <<db, journal, files>>
    BY <1>t, <1>1 DEF PrimaryTyped, Crash, Log!WalTypeOK
  <2>4. (up \in BOOLEAN)' /\ (ack \in Nat)' /\ (journal \in Seq(Ops))' /\ (up \/ check = NoCheck)'
    BY <1>t, <2>1, <2>2, <2>3 DEF PrimaryTyped
  <2>5. /\ (check.pc \in {"idle", "ranges", "remove"})' /\ (check.ack \in Nat)'
        /\ (DOMAIN check.ranges \subseteq {e.file : e \in files})'
    BY <2>1
  <2>6. (db \in [Keys -> Values \cup {Absent}])'
    BY <1>t, <2>3 DEF PrimaryTyped
  <2> QED BY <2>1, <2>2, <2>3, <2>4, <2>5, <2>6 DEF PrimaryTyped
<1>2. CASE Restart
  <2>1. Log!WalTypeOK'
    BY <1>t, <1>2 DEF PrimaryTyped, Restart, Log!NewWriter, Log!WalTypeOK
  <2>2. check' = NoCheck /\ DOMAIN check'.ranges \subseteq {e.file : e \in files'}
    BY <1>t, <1>n, <1>2 DEF PrimaryTyped, Restart
  <2>3. /\ check' = check /\ check'.pc = check.pc /\ check'.ack = check.ack
        /\ UNCHANGED <<db, pend, ack, journal>> /\ up' = TRUE
    BY <1>2 DEF Restart
  <2> QED BY <1>t, <2>1, <2>2, <2>3 DEF PrimaryTyped
<1>3. CASE CheckpointAck
  <2>1. /\ check' = [pc |-> check'.pc, ack |-> check'.ack, ranges |-> check'.ranges]
        /\ check'.pc \in {"idle", "ranges"} /\ check'.ack \in Nat /\ DOMAIN check'.ranges = {}
    BY <1>t, <1>n, <1>3 DEF PrimaryTyped, CheckpointAck
  <2> QED BY <1>t, <1>3, <2>1 DEF PrimaryTyped, CheckpointAck, Log!WalTypeOK
<1>4. CASE CheckpointRanges
  <2>1. /\ check' = [pc |-> check'.pc, ack |-> check'.ack, ranges |-> check'.ranges]
        /\ check'.pc = "remove" /\ check'.ack = check.ack /\ check'.ranges = Log!FileRanges
    BY <1>t, <1>4 DEF PrimaryTyped, CheckpointRanges
  <2>2. DOMAIN check'.ranges = {e.file : e \in files}
    BY <2>1 DEF Log!FileRanges
  <2> QED BY <1>t, <1>4, <2>1, <2>2 DEF PrimaryTyped, CheckpointRanges, Log!WalTypeOK
<1>5. CASE CheckpointRemove
  <2>1. Log!WalTypeOK'
    BY <1>t, <1>5 DEF PrimaryTyped, CheckpointRemove, Log!WalTypeOK
  <2> QED BY <1>t, <1>n, <1>5, <2>1 DEF PrimaryTyped, CheckpointRemove
<1> QED BY <1>t, <1>1, <1>2, <1>3, <1>4, <1>5, CommitTypes, LogEntryTypes DEF PrimaryMoves, CheckpointNext

LEMMA StandbyTypes == ASSUME Typed, NEW s \in Standbys, StandbyMoves(s)
                      PROVE  /\ PrimaryTyped' /\ sb' \in [Standbys -> Standby]
                             /\ \A t \in Standbys : Sensible(sb'[t])
<1>t. /\ PrimaryTyped /\ sb \in [Standbys -> Standby]
      /\ \A t \in Standbys : Sensible(sb[t]) /\ sb[t].last \in Nat
  BY TypedParts DEF Typed, TypeOK, Standby
<1>1. PICK r : Becomes(s, r) /\ Sensible(r)
  BY DEF StandbyMoves
<1>2. sb' \in [Standbys -> Standby] /\ \A t \in Standbys : Sensible(sb'[t])
  BY <1>t, <1>1 DEF Becomes, Sensible
<1>3. ack' \in Nat /\ UNCHANGED <<files, writer, up, db, pend, check, journal>>
  BY <1>t DEF StandbyMoves, primaryVars, PrimaryTyped
<1>4. PrimaryTyped'
  BY <1>t, <1>3 DEF PrimaryTyped, Log!WalTypeOK
<1> QED BY <1>2, <1>4

LEMMA InitTyped == Init => Typed
<1> SUFFICES ASSUME Init PROVE Typed
  OBVIOUS
<1>1. Log!WalTypeOK
  BY DEF Init, Log!WalInit, Log!WalTypeOK
<1>2. /\ NoCheck = [pc |-> NoCheck.pc, ack |-> NoCheck.ack, ranges |-> NoCheck.ranges]
      /\ NoCheck.pc = "idle" /\ NoCheck.ack = 0 /\ DOMAIN NoCheck.ranges = {}
  BY DEF NoCheck
<1>3. Sensible(Fresh(NoStore, {})) /\ db \in [Keys -> Values \cup {Absent}]
  BY DEF Init, Fresh, Sensible, Standby, NoStore
<1>4. sb \in [Standbys -> Standby] /\ \A s \in Standbys : Sensible(sb[s])
  BY <1>3 DEF Init, Sensible
<1>5. check = NoCheck /\ up = TRUE /\ journal = <<>> /\ ack = 0 /\ link = Standbys /\ budget = Budget
  BY DEF Init
<1>6. pend \in [Writers -> Ops \cup {NoOp}] /\ journal \in Seq(Ops)
  BY <1>5 DEF Init
<1>7. check = [pc |-> check.pc, ack |-> check.ack, ranges |-> check.ranges] /\ check.ack \in Nat
  BY <1>2, <1>5
<1>8. check.pc \in {"idle", "ranges", "remove"} /\ DOMAIN check.ranges \subseteq {e.file : e \in files}
  BY <1>2, <1>5
<1> QED BY <1>1, <1>3, <1>4, <1>5, <1>6, <1>7, <1>8, TypedParts DEF PrimaryTyped, OthersTyped

LEMMA StepTyped == Typed /\ [Next]_vars => Typed'
<1> SUFFICES ASSUME Typed, [Next]_vars PROVE Typed'
  OBVIOUS
<1>t. PrimaryTyped /\ OthersTyped
  BY TypedParts
<1>1. CASE PrimaryMoves
  <2>1. sb' = sb
    BY <1>1 DEF PrimaryMoves, LogEntry, Commit, Crash, Restart, CheckpointAck, CheckpointNext,
                CheckpointRanges, CheckpointRemove
  <2> QED BY <1>t, <1>1, <2>1, PrimaryTypes, BudgetStep, TypedPartsNext DEF OthersTyped
<1>2. CASE NobodyMoves
  <2>1. PrimaryTyped'
    BY <1>t, <1>2 DEF PrimaryTyped, NobodyMoves, primaryVars, Log!WalTypeOK
  <2> QED BY <1>t, <1>2, <2>1, BudgetStep, TypedPartsNext DEF OthersTyped, NobodyMoves
<1>3. ASSUME NEW s \in Standbys, StandbyMoves(s) PROVE Typed'
  BY <1>3, StandbyTypes, BudgetStep, TypedPartsNext DEF OthersTyped
<1> QED BY <1>1, <1>2, <1>3, StepCases

\* Every variable has its type, and a standby in a replay has something to replay,
\* whatever crashes, restarts, breaks or is cut.
THEOREM Types == Spec => []TypeOK
<1>1. Typed => TypeOK
  BY DEF Typed
<1> QED BY InitTyped, StepTyped, <1>1, PTL DEF Spec

-----------------------------------------------------------------------------
\* The log under a primary that keeps running.

\* The primary never crashes, no standby is given an empty database, and where there are
\* checkpoints there is one standby: they all acknowledge under one name.
Reliable == /\ Budget["crash"] = 0 /\ Budget["rebuild"] = 0
            /\ Budget["checkpoint"] = 0 \/ \A s, t \in Standbys : s = t

\* What is not in the budget has not happened and will not.
Intact == /\ up /\ budget["crash"] = 0 /\ budget["rebuild"] = 0
          /\ Budget["checkpoint"] = 0 => budget["checkpoint"] = 0 /\ check.pc = "idle"

\* Entries lie in the files in the order of their numbers and say what was logged.
InOrder(S, log) == /\ \A d, e \in S : d.seq <= e.seq => d.file <= e.file
                   /\ \A e \in S : e.seq <= Len(log) /\ e.op = log[e.seq]

LogSound == /\ writer.seq = Len(journal)
            /\ InOrder(files, journal)
            /\ \A e \in files : e.file <= writer.file
            /\ writer.seq > 0 => \E e \in Log!In(writer.file) : e.seq = writer.seq
            /\ \A e \in files : \E d \in Log!In(e.file) : \A c \in Log!In(e.file) : c.seq <= d.seq

\* An acknowledged number is not the last: a standby asks for more only if there is more.
\* So a file whose entries are all acknowledged is behind the writer and grows no more,
\* and a checkpoint may go by what it has read of it.
AckSound ==
    /\ ack > 0 => ack < writer.seq
    /\ check.pc # "idle" => check.ack < writer.seq
    /\ check.pc = "remove" =>
         \A f \in DOMAIN check.ranges : check.ranges[f] <= check.ack =>
            f < writer.file /\ \A e \in Log!In(f) : e.seq <= check.ack

PlacesSound ==
    \A s \in Standbys :
       /\ sb[s].last <= writer.seq
       /\ sb[s].pc = "fetch" /\ sb[s].last > 0 => sb[s].last < writer.seq
       /\ InOrder(sb[s].inbox, journal)

LogInv == Typed /\ Intact /\ LogSound /\ AckSound /\ PlacesSound

\* What the journal says does not change as it grows.
LEMMA Grows ==
    ASSUME NEW log \in Seq(Ops), NEW op \in Ops
    PROVE  /\ Append(log, op) \in Seq(Ops)
           /\ Len(Append(log, op)) = Len(log) + 1 /\ Len(log) \in Nat
           /\ \A i \in 1..Len(log) : Append(log, op)[i] = log[i] /\ log[i] \in Ops
           /\ Append(log, op)[Len(log) + 1] = op
  OBVIOUS

LEMMA InOrderGrows ==
    ASSUME NEW log \in Seq(Ops), NEW op \in Ops, NEW S \in SUBSET Log!Entry, InOrder(S, log)
    PROVE  InOrder(S, Append(log, op))
<1>1. \A e \in S : e.seq \in 1..Len(log)
  BY Grows DEF InOrder, Log!Entry
<1> QED BY <1>1, Grows DEF InOrder

LEMMA InOrderSubset == ASSUME NEW log, NEW S, NEW P \in SUBSET S, InOrder(S, log)
                       PROVE  InOrder(P, log)
  BY DEF InOrder

\* The next entry opens a file or goes to the one being written, and takes nothing away.
LEMMA LogEntryFact ==
    ASSUME LogInv, NEW w \in Writers, LogEntry(w)
    PROVE  /\ pend[w] \in Ops
           /\ \E f \in {writer.file, writer.file + 1} :
                /\ writer' = [file |-> f, seq |-> writer.seq + 1]
                /\ files' = files \cup {[file |-> f, seq |-> writer.seq + 1, op |-> pend[w]]}
<1>1. pend[w] \in Ops /\ Log!WalTypeOK
  BY DEF LogInv, Typed, TypeOK, LogEntry
<1>2. PICK f \in {writer.file, writer.file + 1}, kept \in SUBSET files :
        /\ writer' = [file |-> f, seq |-> writer.seq + 1]
        /\ files' = kept \cup {[file |-> f, seq |-> writer.seq + 1, op |-> pend[w]]}
        /\ \A e \in files \ kept : e.file = writer.file + 1 /\ f = writer.file + 1
  BY <1>1, WriteFact DEF LogEntry
<1>3. \A e \in files : e.file # writer.file + 1
  BY <1>1 DEF LogInv, LogSound, Log!WalTypeOK, Log!Entry
<1>4. kept = files
  BY <1>2, <1>3
<1> QED BY <1>1, <1>2, <1>4

LEMMA LogEntryKeepsLog ==
    ASSUME LogInv, NEW w \in Writers, LogEntry(w)
    PROVE  LogSound' /\ AckSound' /\ PlacesSound'
<1>t. /\ files \subseteq Log!Entry /\ writer \in [file : Nat \ {0}, seq : Nat]
      /\ journal \in Seq(Ops) /\ ack \in Nat /\ check.ack \in Nat
      /\ sb \in [Standbys -> Standby]
  BY DEF LogInv, Typed, TypeOK, Log!WalTypeOK
<1>w. PICK n \in Nat, g \in Nat \ {0} : writer.seq = n /\ writer.file = g
  BY <1>t
<1>1. PICK f \in {g, g + 1} :
        /\ writer' = [file |-> f, seq |-> n + 1]
        /\ files' = files \cup {[file |-> f, seq |-> n + 1, op |-> pend[w]]}
  BY <1>w, LogEntryFact
<1> DEFINE new == [file |-> f, seq |-> n + 1, op |-> pend[w]]
<1>2. /\ pend[w] \in Ops /\ journal' = Append(journal, pend[w])
      /\ UNCHANGED <<ack, check, sb>>
  BY LogEntryFact DEF LogEntry
<1>3. /\ new.file = f /\ new.seq = n + 1 /\ new.op = pend[w]
      /\ files' = files \cup {new} /\ writer'.file = f /\ writer'.seq = n + 1
      /\ f \in Nat /\ g <= f
  BY <1>1
<1> HIDE DEF new
<1>4. /\ n = Len(journal) /\ Len(journal') = n + 1 /\ journal'[n + 1] = pend[w]
      /\ \A e \in files : e.seq \in 1..n /\ e.file \in Nat /\ e.file <= g
  <2>1. n = Len(journal) /\ \A e \in files : e.file <= g /\ e.seq <= Len(journal)
    BY <1>w DEF LogInv, LogSound, InOrder
  <2>2. \A e \in files : e.seq \in Nat \ {0} /\ e.file \in Nat
    BY <1>t DEF Log!Entry
  <2>3. Len(journal') = n + 1 /\ journal'[n + 1] = pend[w]
    BY <1>t, <1>2, <2>1, Grows
  <2> QED BY <1>w, <2>1, <2>2, <2>3
<1>5. InOrder(files, journal')
  BY <1>t, <1>2, InOrderGrows DEF LogInv, LogSound
<1>6. InOrder(files', journal')
  BY <1>3, <1>4, <1>5 DEF InOrder
<1>7. \A e \in files' : e.file <= f
  BY <1>3, <1>4
<1>8. \E e \in Log!In(writer.file)' : e.seq = writer'.seq
  BY <1>3 DEF Log!In
<1>9. ASSUME NEW e \in files' PROVE \E d \in Log!In(e.file)' : \A c \in Log!In(e.file)' : c.seq <= d.seq
  <2>1. CASE e.file = f
    <3>1. new \in Log!In(e.file)' /\ \A c \in Log!In(e.file)' : c.seq <= new.seq
      BY <1>3, <1>4, <2>1 DEF Log!In
    <3> QED BY <3>1
  <2>2. CASE e.file # f
    <3>1. Log!In(e.file)' = Log!In(e.file) /\ e \in files
      BY <1>3, <2>2 DEF Log!In
    <3> QED BY <3>1 DEF LogInv, LogSound
  <2> QED BY <2>1, <2>2
<1>10. LogSound'
  BY <1>3, <1>4, <1>6, <1>7, <1>8, <1>9 DEF LogSound
<1>11. AckSound'
  <2>1. (check.pc # "idle" => check.ack < writer.seq)' /\ (ack > 0 => ack < writer.seq)'
    BY <1>t, <1>w, <1>2, <1>3 DEF LogInv, AckSound
  <2>2. ASSUME check.pc = "remove", NEW h \in DOMAIN check.ranges, check.ranges[h] <= check.ack
        PROVE  h < f /\ \A e \in Log!In(h)' : e.seq <= check.ack
    <3>1. h < g /\ \A e \in Log!In(h) : e.seq <= check.ack
      BY <1>w, <2>2 DEF LogInv, AckSound
    <3>2. h \in Nat
      BY <1>t, <2>2 DEF LogInv, Typed, TypeOK, Log!Entry
    <3>3. Log!In(h)' = Log!In(h)
      BY <1>3, <3>1, <3>2 DEF Log!In
    <3> QED BY <1>3, <3>1, <3>2, <3>3
  <2> QED BY <1>2, <1>3, <2>1, <2>2 DEF AckSound
<1>12. PlacesSound'
  <2> SUFFICES ASSUME NEW s \in Standbys
               PROVE  /\ sb[s].last <= n + 1
                      /\ sb[s].pc = "fetch" /\ sb[s].last > 0 => sb[s].last < n + 1
                      /\ InOrder(sb[s].inbox, journal')
    BY <1>2, <1>3, <1>t DEF PlacesSound, Standby
  <2>1. sb[s].last \in Nat /\ sb[s].last <= n /\ sb[s].inbox \in SUBSET Log!Entry
    BY <1>t, <1>w DEF LogInv, PlacesSound, Standby
  <2>2. InOrder(sb[s].inbox, journal')
    BY <1>t, <1>2, <2>1, InOrderGrows DEF LogInv, PlacesSound
  <2> QED BY <2>1, <2>2
<1> QED BY <1>10, <1>11, <1>12

\* The number noted for a file bounds those of its entries, and is the number of one.
LEMMA RangeFact ==
    ASSUME LogInv, NEW f \in {e.file : e \in files}
    PROVE  \E d \in Log!In(f) : Log!FileRanges[f] = d.seq /\ \A c \in Log!In(f) : c.seq <= d.seq
<1> DEFINE S == {e.seq : e \in Log!In(f)}
<1>1. Log!FileRanges[f] = Log!Max(S)
  BY DEF Log!FileRanges
<1>2. PICK d \in Log!In(f) : \A c \in Log!In(f) : c.seq <= d.seq
  <2>1. PICK e \in files : e.file = f
    OBVIOUS
  <2> QED BY <2>1 DEF LogInv, LogSound
<1>3. \A c \in Log!In(f) : c.seq \in Nat
  BY DEF LogInv, Typed, TypeOK, Log!WalTypeOK, Log!In, Log!Entry
<1>4. d.seq \in S /\ \A y \in S : d.seq >= y
  BY <1>2, <1>3
<1>5. \E x \in S : \A y \in S : x >= y
  BY <1>4
<1> HIDE DEF S
<1>6. Log!Max(S) \in S /\ \A y \in S : Log!Max(S) >= y
  BY <1>5 DEF Log!Max
<1>7. PICK c \in Log!In(f) : Log!Max(S) = c.seq
  BY <1>6 DEF S
<1>8. c.seq >= d.seq
  BY <1>4, <1>6, <1>7
<1>9. \A b \in Log!In(f) : b.seq <= c.seq
  BY <1>2, <1>3, <1>8
<1> QED BY <1>1, <1>7, <1>9

LEMMA CheckpointKeepsLog ==
    ASSUME LogInv, CheckpointAck \/ CheckpointNext
    PROVE  LogSound' /\ AckSound' /\ PlacesSound'
<1>t. /\ files \subseteq Log!Entry /\ writer \in [file : Nat \ {0}, seq : Nat]
      /\ ack \in Nat /\ check.ack \in Nat
      /\ check = [pc |-> check.pc, ack |-> check.ack, ranges |-> check.ranges]
  BY DEF LogInv, Typed, TypeOK, Log!WalTypeOK
<1>p. PlacesSound' /\ UNCHANGED <<writer, journal, ack, sb>>
  BY DEF LogInv, PlacesSound, CheckpointAck, CheckpointNext, CheckpointRanges, CheckpointRemove
<1>n. NoCheck.pc = "idle" /\ NoCheck.ack = 0
  BY DEF NoCheck
<1>1. CASE CheckpointAck
  <2>1. LogSound'
    BY <1>1 DEF LogInv, LogSound, CheckpointAck, Log!In
  <2>2. check'.pc # "remove" /\ (check'.pc # "idle" => check'.ack = ack /\ ack # 0)
    BY <1>n, <1>1 DEF CheckpointAck, NoCheck
  <2>3. AckSound'
    BY <1>t, <1>p, <2>2 DEF LogInv, AckSound
  <2> QED BY <1>p, <2>1, <2>3
<1>2. CASE CheckpointRanges
  <2>1. LogSound'
    BY <1>2 DEF LogInv, LogSound, CheckpointRanges, Log!In
  <2>2. check'.pc = "remove" /\ check'.ack = check.ack /\ check'.ranges = Log!FileRanges
    BY <1>t, <1>2 DEF CheckpointRanges
  <2>3. check.ack < writer.seq /\ (ack > 0 => ack < writer.seq)
    BY <1>2 DEF LogInv, AckSound, CheckpointRanges
  <2>4. ASSUME NEW f \in DOMAIN Log!FileRanges, Log!FileRanges[f] <= check.ack
        PROVE  f < writer.file /\ \A e \in Log!In(f) : e.seq <= check.ack
    <3>1. f \in {e.file : e \in files}
      BY <2>4 DEF Log!FileRanges
    <3>2. PICK d \in Log!In(f) : Log!FileRanges[f] = d.seq /\ \A c \in Log!In(f) : c.seq <= d.seq
      BY <3>1, RangeFact
    <3>3. \A e \in Log!In(f) : e.seq \in Nat /\ e \in files /\ e.file = f
      BY <1>t DEF Log!In, Log!Entry
    <3>4. \A e \in Log!In(f) : e.seq <= check.ack
      BY <1>t, <2>4, <3>2, <3>3
    <3>5. f # writer.file
      BY <1>t, <2>3, <3>3, <3>4 DEF LogInv, LogSound
    <3>6. f \in Nat /\ f <= writer.file
      BY <1>t, <3>2, <3>3 DEF LogInv, LogSound, Log!Entry
    <3> QED BY <1>t, <3>4, <3>5, <3>6
  <2>5. UNCHANGED files
    BY <1>2 DEF CheckpointRanges
  <2>6. AckSound'
    BY <1>p, <2>2, <2>3, <2>4, <2>5 DEF AckSound, Log!In
  <2> QED BY <1>p, <2>1, <2>6
<1>3. CASE CheckpointRemove
  <2> DEFINE Gone(f) == f \in DOMAIN check.ranges /\ Obsolete(f)
  <2>1. files' = {e \in files : ~ Gone(e.file)} /\ check' = NoCheck
    BY <1>3 DEF CheckpointRemove
  <2>2. ~ Gone(writer.file)
    BY DEF Obsolete
  <2> HIDE DEF Gone
  <2>3. \A f : Log!In(f)' = IF Gone(f) THEN {} ELSE Log!In(f)
    BY <2>1 DEF Log!In
  <2>4. ASSUME NEW e \in files' PROVE \E d \in Log!In(e.file)' : \A c \in Log!In(e.file)' : c.seq <= d.seq
    <3>1. e \in files /\ Log!In(e.file)' = Log!In(e.file)
      BY <2>1, <2>3
    <3> QED BY <3>1 DEF LogInv, LogSound
  <2>5. InOrder(files', journal)
    BY <2>1, InOrderSubset DEF LogInv, LogSound
  <2>6. LogSound'
    BY <1>p, <2>1, <2>2, <2>3, <2>4, <2>5 DEF LogInv, LogSound
  <2>7. AckSound'
    BY <1>p, <1>n, <2>1 DEF LogInv, AckSound
  <2> QED BY <1>p, <2>6, <2>7
<1> QED BY <1>1, <1>2, <1>3 DEF CheckpointNext

LEMMA StandbyKeepsLog ==
    ASSUME LogInv, NEW s \in Standbys, StandbyMoves(s)
    PROVE  LogSound' /\ AckSound' /\ PlacesSound'
<1>t. /\ files \subseteq Log!Entry /\ writer \in [file : Nat \ {0}, seq : Nat]
      /\ ack \in Nat /\ sb \in [Standbys -> Standby] /\ InOrder(files, journal)
      /\ sb[s].last \in Nat /\ sb[s].inbox \subseteq Log!Entry
  BY DEF LogInv, LogSound, Typed, TypeOK, Log!WalTypeOK, Standby
<1>i. InOrder(sb[s].inbox, journal) /\ sb[s].last <= writer.seq
  BY DEF LogInv, PlacesSound
<1>1. PICK r :
        /\ Becomes(s, r) /\ Sensible(r)
        /\ \/ Going(s, r) /\ UNCHANGED primaryVars
           \/ /\ Fetched(s, r)
              /\ ack' = IF sb[s].last > 0 THEN sb[s].last ELSE ack
              /\ UNCHANGED <<files, writer, up, db, pend, check, journal>>
           \/ /\ \E e \in sb[s].inbox : Applied(s, r, e)
              /\ UNCHANGED primaryVars
           \/ Spend("reboot") /\ r = Fresh(sb[s].db, sb[s].seen) /\ UNCHANGED primaryVars
           \/ Spend("rebuild") /\ r = Fresh(NoStore, {}) /\ UNCHANGED primaryVars
  BY DEF StandbyMoves
<1>2. UNCHANGED <<files, writer, journal, check>>
  BY <1>1 DEF primaryVars
<1>3. LogSound'
  BY <1>2 DEF LogInv, LogSound, Log!In
<1>4. AckSound'
  <2>1. ack' = ack \/ (ack' = sb[s].last /\ sb[s].last > 0 /\ sb[s].pc = "fetch")
    BY <1>1 DEF primaryVars, Fetched
  <2>2. ack' > 0 => ack' < writer.seq
    BY <2>1 DEF LogInv, AckSound, PlacesSound
  <2> QED BY <1>2, <2>2 DEF LogInv, AckSound, Log!In
<1>5. /\ r.last <= writer.seq
      /\ r.pc = "fetch" /\ r.last > 0 => r.last < writer.seq
      /\ InOrder(r.inbox, journal)
  <2>1. CASE Going(s, r)
    <3>1. r.inbox \subseteq sb[s].inbox
      BY <2>1, PrefixFact DEF Going
    <3> QED BY <1>i, <2>1, <3>1, InOrderSubset DEF Going, SameStore, LogInv, PlacesSound
  <2>2. CASE Fetched(s, r)
    <3>1. r.inbox \subseteq files
      BY <2>2 DEF Fetched, Log!ReadFrom
    <3> QED BY <1>t, <1>i, <2>2, <3>1, InOrderSubset DEF Fetched, SameStore
  <2>3. ASSUME NEW e \in sb[s].inbox, Applied(s, r, e)
        PROVE  r.last <= writer.seq /\ r.pc # "fetch" /\ InOrder(r.inbox, journal)
    <3>1. e.seq <= writer.seq
      BY <1>i DEF LogInv, LogSound, InOrder
    <3> QED BY <1>i, <2>3, <3>1, InOrderSubset DEF Applied
  <2>4. ASSUME NEW store, NEW S, r = Fresh(store, S)
        PROVE  r.last <= writer.seq /\ r.pc # "fetch" /\ InOrder(r.inbox, journal)
    <3>1. r.last = 0 /\ r.pc = "idle" /\ r.inbox = {}
      BY <2>4 DEF Fresh
    <3> QED BY <1>t, <3>1 DEF InOrder
  <2>5. CASE r = Fresh(sb[s].db, sb[s].seen) \/ r = Fresh(NoStore, {})
    BY <2>4, <2>5
  <2> QED BY <1>1, <2>1, <2>2, <2>3, <2>5
<1>6. \A t \in Standbys : sb'[t] = IF t = s THEN r ELSE sb[t]
  BY <1>1, <1>t DEF Becomes
<1>7. PlacesSound'
  BY <1>2, <1>5, <1>6 DEF LogInv, PlacesSound
<1> QED BY <1>3, <1>4, <1>7

LEMMA InitLog == ASSUME Reliable PROVE Init => LogInv
<1> SUFFICES ASSUME Init PROVE LogInv
  OBVIOUS
<1>1. files = {} /\ writer.seq = 0 /\ writer.file = 1 /\ journal = <<>> /\ Len(journal) = 0
  BY DEF Init, Log!WalInit
<1>2. check.pc = "idle" /\ ack = 0 /\ up /\ budget = Budget
  BY DEF Init, NoCheck
<1>3. \A s \in Standbys : sb[s].last = 0 /\ sb[s].inbox = {}
  BY DEF Init, Fresh
<1>4. LogSound
  BY <1>1 DEF LogSound, InOrder
<1>5. AckSound /\ PlacesSound
  BY <1>1, <1>2, <1>3 DEF AckSound, PlacesSound, InOrder
<1>6. Intact
  BY <1>2 DEF Intact, Reliable
<1> QED BY <1>4, <1>5, <1>6, InitTyped DEF LogInv

LEMMA StepLog == LogInv /\ [Next]_vars => LogInv'
<1> SUFFICES ASSUME LogInv, [Next]_vars PROVE LogInv'
  OBVIOUS
<1>t. Typed /\ Typed'
  BY StepTyped DEF LogInv
<1>c. ~ Crash /\ ~ Restart
  BY <1>t, BudgetStep DEF LogInv, Intact, Restart
<1>1. ASSUME PrimaryMoves PROVE LogSound' /\ AckSound' /\ PlacesSound'
  <2>1. ASSUME NEW w \in Writers, NEW op \in Ops, Commit(w, op) PROVE LogSound' /\ AckSound' /\ PlacesSound'
    <3>1. UNCHANGED <<files, writer, journal, ack, check, sb>>
      BY <2>1 DEF Commit
    <3> QED BY <3>1 DEF LogInv, LogSound, AckSound, PlacesSound, Log!In
  <2> QED BY <1>1, <1>c, <2>1, LogEntryKeepsLog, CheckpointKeepsLog DEF PrimaryMoves
<1>2. ASSUME NobodyMoves PROVE LogSound' /\ AckSound' /\ PlacesSound'
  BY <1>2 DEF NobodyMoves, primaryVars, LogInv, LogSound, AckSound, PlacesSound, Log!In
<1>3. LogSound' /\ AckSound' /\ PlacesSound'
  BY <1>t, <1>1, <1>2, StepCases, StandbyKeepsLog
<1>4. Intact'
  <2>1. \A k \in Kinds : budget[k] = 0 => budget'[k] = 0
    BY <1>t, BudgetStep
  <2>2. "crash" \in Kinds /\ "rebuild" \in Kinds /\ "checkpoint" \in Kinds
    BY DEF Kinds
  <2>3. up'
    BY <1>c DEF LogInv, Intact, Next, vars, primaryVars, Commit, LogEntry, CheckpointAck, CheckpointNext,
           CheckpointRanges, CheckpointRemove, Connect, SyncNext, Poll, Fetch, Replay, HealthNext, Healthy,
           Unhealthy, Drop, Reboot, Rebuild, Cut, Mend
  <2>4. budget["checkpoint"] = 0 /\ check.pc = "idle" => check'.pc = "idle"
    <3>1. budget["checkpoint"] = 0 => ~ CheckpointAck
      BY <1>t, BudgetStep
    <3> QED BY <1>c, <3>1 DEF Next, vars, primaryVars, Commit, LogEntry, CheckpointNext, CheckpointRanges,
               CheckpointRemove, Connect, SyncNext, Poll, Fetch, Replay, HealthNext, Healthy, Unhealthy,
               Drop, Reboot, Rebuild, Cut, Mend
  <2> QED BY <2>1, <2>2, <2>3, <2>4 DEF LogInv, Intact
<1> QED BY <1>t, <1>3, <1>4 DEF LogInv

\* Entries in order: the first one read has the smallest number, ...
LEMMA FirstFact ==
    ASSUME NEW S \in SUBSET Log!Entry, NEW log, InOrder(S, log), NEW e \in S, Log!First(e, S),
           NEW d \in S, d # e
    PROVE  d.seq > e.seq
  BY DEF InOrder, Log!First, Log!Before, Log!Entry

\* ... and a reading that breaks off has everything up to where it got.
LEMMA PrefixClosed ==
    ASSUME NEW S \in SUBSET Log!Entry, NEW log, InOrder(S, log), NEW P \in Log!Prefixes(S) \cup {{}},
           NEW e \in P, NEW d \in S, d.seq <= e.seq
    PROVE  d \in P
<1>1. CASE P = S
  BY <1>1
<1>2. ASSUME NEW c \in S, P = {b \in S : Log!Before(b, c)} PROVE d \in P
  <2>1. e \in S /\ Log!Before(e, c) /\ d.file <= e.file
    BY <1>2 DEF InOrder
  <2>2. Log!Before(d, c)
    BY <2>1 DEF Log!Before, Log!Entry
  <2> QED BY <1>2, <2>2
<1> QED BY <1>1, <1>2 DEF Log!Prefixes

\* What can happen to a standby that is never given an empty database.
LEMMA MoveFact ==
    ASSUME LogInv, NEW s \in Standbys, StandbyMoves(s)
    PROVE  /\ UNCHANGED <<files, writer, db, pend, check, journal>>
           /\ \E r : /\ \A t \in Standbys : sb'[t] = IF t = s THEN r ELSE sb[t]
                     /\ \/ Going(s, r) /\ ack' = ack
                        \/ Fetched(s, r) /\ ack' = IF sb[s].last > 0 THEN sb[s].last ELSE ack
                        \/ (\E e \in sb[s].inbox : Applied(s, r, e)) /\ ack' = ack
                        \/ /\ budget["reboot"] > 0 /\ r = Fresh(sb[s].db, sb[s].seen)
                           /\ ack' = ack
<1>1. PICK r :
        /\ Becomes(s, r)
        /\ \/ Going(s, r) /\ UNCHANGED primaryVars
           \/ /\ Fetched(s, r)
              /\ ack' = IF sb[s].last > 0 THEN sb[s].last ELSE ack
              /\ UNCHANGED <<files, writer, up, db, pend, check, journal>>
           \/ /\ \E e \in sb[s].inbox : Applied(s, r, e)
              /\ UNCHANGED primaryVars
           \/ Spend("reboot") /\ r = Fresh(sb[s].db, sb[s].seen) /\ UNCHANGED primaryVars
           \/ Spend("rebuild") /\ r = Fresh(NoStore, {}) /\ UNCHANGED primaryVars
  BY DEF StandbyMoves
<1>2. ~ Spend("rebuild") /\ (Spend("reboot") => budget["reboot"] > 0)
  BY DEF LogInv, Intact, Spend
<1>3. sb \in [Standbys -> Standby]
  BY DEF LogInv, Typed, TypeOK
<1>4. \A t \in Standbys : sb'[t] = IF t = s THEN r ELSE sb[t]
  BY <1>1, <1>3 DEF Becomes
<1>5. UNCHANGED <<files, writer, db, pend, check, journal>>
  BY <1>1 DEF primaryVars
<1>6. UNCHANGED primaryVars => ack' = ack
  BY DEF primaryVars
<1> QED BY <1>1, <1>2, <1>4, <1>5, <1>6

-----------------------------------------------------------------------------
\* What a standby has ever replayed.

Upto(n, S) == \A m \in 1..n : m \in S

SeenInv ==
    /\ LogInv
    /\ NothingSkipped
    /\ \A s \in Standbys :
         /\ \A n \in 1..writer.seq : n \in sb[s].seen \/ \E e \in files : e.seq = n
         /\ \A e \in sb[s].inbox : \A n \in 1..e.seq : n \in sb[s].seen \/ \E d \in sb[s].inbox : d.seq = n
         /\ Budget["checkpoint"] > 0 => Upto(ack, sb[s].seen) /\ Upto(check.ack, sb[s].seen)

LEMMA SeenStandbyStep ==
    ASSUME Reliable, SeenInv, LogInv', NEW s \in Standbys, StandbyMoves(s)
    PROVE  SeenInv'
<1>t. /\ writer.seq \in Nat /\ sb[s].last \in Nat /\ sb[s].inbox \subseteq Log!Entry
      /\ files \subseteq Log!Entry /\ InOrder(sb[s].inbox, journal) /\ InOrder(files, journal)
      /\ LogInv /\ writer.seq = Len(journal)
  BY DEF SeenInv, LogInv, LogSound, PlacesSound, Typed, TypeOK, Log!WalTypeOK, Standby
<1>u. UNCHANGED <<files, writer, check>>
  BY <1>t, MoveFact
<1>1. PICK r :
        /\ \A t \in Standbys : sb'[t] = IF t = s THEN r ELSE sb[t]
        /\ \/ Going(s, r) /\ ack' = ack
           \/ Fetched(s, r) /\ ack' = IF sb[s].last > 0 THEN sb[s].last ELSE ack
           \/ (\E e \in sb[s].inbox : Applied(s, r, e)) /\ ack' = ack
           \/ /\ budget["reboot"] > 0 /\ r = Fresh(sb[s].db, sb[s].seen)
              /\ ack' = ack
  BY <1>t, MoveFact
<1> DEFINE Good == /\ sb[s].seen \subseteq r.seen
                   /\ \A n \in 1..r.last : n \in r.seen
                   /\ \A e \in r.inbox : \A n \in 1..e.seq : n \in r.seen \/ \E d \in r.inbox : d.seq = n
                   /\ ack' = ack \/ ack' = sb[s].last
<1>s. /\ \A n \in 1..sb[s].last : n \in sb[s].seen
      /\ \A n \in 1..writer.seq : n \in sb[s].seen \/ \E e \in files : e.seq = n
      /\ \A e \in sb[s].inbox : \A n \in 1..e.seq : n \in sb[s].seen \/ \E d \in sb[s].inbox : d.seq = n
  BY DEF SeenInv, NothingSkipped
<1>2. ASSUME Going(s, r), ack' = ack PROVE Good
  <2>1. r.inbox \in Log!Prefixes(sb[s].inbox) \cup {{}} /\ r.inbox \subseteq sb[s].inbox
    BY <1>2, PrefixFact DEF Going
  <2>2. ASSUME NEW e \in r.inbox, NEW n \in 1..e.seq PROVE n \in r.seen \/ \E d \in r.inbox : d.seq = n
    <3>1. n \in sb[s].seen \/ \E d \in sb[s].inbox : d.seq = n
      BY <1>s, <2>1, <2>2
    <3>2. ASSUME NEW d \in sb[s].inbox, d.seq = n PROVE d \in r.inbox
      BY <1>t, <2>1, <2>2, <3>2, PrefixClosed
    <3> QED BY <1>2, <3>1, <3>2 DEF Going, SameStore
  <2> QED BY <1>2, <1>s, <2>2 DEF Going, SameStore
<1>3. ASSUME Fetched(s, r), ack' = IF sb[s].last > 0 THEN sb[s].last ELSE ack PROVE Good
  <2>1. \A d : d \in r.inbox <=> d \in files /\ d.seq >= sb[s].last + 1
    BY <1>3 DEF Fetched, Log!ReadFrom
  <2>2. ASSUME NEW e \in r.inbox, NEW n \in 1..e.seq PROVE n \in r.seen \/ \E d \in r.inbox : d.seq = n
    <3>1. e.seq \in Nat /\ e.seq <= writer.seq
      BY <1>t, <2>1 DEF InOrder, Log!Entry
    <3>2. CASE n <= sb[s].last
      BY <1>3, <1>s, <1>t, <3>2 DEF Fetched, SameStore
    <3>3. CASE n > sb[s].last
      <4>1. n \in sb[s].seen \/ \E d \in files : d.seq = n
        BY <1>s, <1>t, <3>1
      <4> QED BY <1>3, <1>t, <2>1, <3>1, <3>3, <4>1 DEF Fetched, SameStore
    <3> QED BY <1>t, <3>2, <3>3
  <2> QED BY <1>3, <1>s, <2>2 DEF Fetched, SameStore
<1>4. ASSUME NEW e \in sb[s].inbox, Applied(s, r, e), ack' = ack PROVE Good
  <2>1. /\ r.seen = sb[s].seen \cup {e.seq} /\ r.inbox = sb[s].inbox \ {e} /\ Log!First(e, sb[s].inbox)
        /\ r.last = IF e.seq > sb[s].last THEN e.seq ELSE sb[s].last
    BY <1>4 DEF Applied
  <2>2. \A d \in sb[s].inbox : d # e => d.seq > e.seq
    BY <1>t, <2>1, FirstFact
  <2>3. e.seq \in Nat /\ \A d \in sb[s].inbox : d.seq \in Nat
    BY <1>t DEF Log!Entry
  <2>4. \A n \in 1..e.seq : n \in r.seen
    BY <1>s, <2>1, <2>2, <2>3
  <2>5. \A n \in 1..r.last : n \in r.seen
    BY <1>s, <2>1, <2>4
  <2>6. \A c \in r.inbox : \A n \in 1..c.seq : n \in r.seen \/ \E d \in r.inbox : d.seq = n
    BY <1>s, <2>1
  <2> QED BY <1>4, <2>1, <2>5, <2>6
<1>5. ASSUME r = Fresh(sb[s].db, sb[s].seen), ack' = ack PROVE Good
  <2>1. r.last = 0 /\ r.inbox = {} /\ r.seen = sb[s].seen
    BY <1>5 DEF Fresh
  <2> QED BY <1>5, <2>1
<1>6. Good
  BY <1>1, <1>2, <1>3, <1>4, <1>5
<1>7. NothingSkipped'
  BY <1>1, <1>6 DEF NothingSkipped, SeenInv
<1>8. ASSUME NEW t \in Standbys
      PROVE  /\ \A n \in 1..writer.seq : n \in sb'[t].seen \/ \E e \in files : e.seq = n
             /\ \A e \in sb'[t].inbox : \A n \in 1..e.seq :
                  n \in sb'[t].seen \/ \E d \in sb'[t].inbox : d.seq = n
  <2>1. CASE t = s
    BY <1>1, <1>6, <1>s, <2>1
  <2>2. CASE t # s
    BY <1>1, <2>2 DEF SeenInv
  <2> QED BY <2>1, <2>2
<1>9. ASSUME Budget["checkpoint"] > 0, NEW t \in Standbys
      PROVE  Upto(ack', sb'[t].seen) /\ Upto(check.ack, sb'[t].seen)
  <2>1. t = s
    BY <1>9 DEF Reliable
  <2>2. Upto(ack, sb[s].seen) /\ Upto(check.ack, sb[s].seen) /\ Upto(sb[s].last, sb[s].seen)
    BY <1>9, <1>s DEF SeenInv, Upto
  <2> QED BY <1>1, <1>6, <2>1, <2>2 DEF Upto
<1> QED BY <1>u, <1>7, <1>8, <1>9 DEF SeenInv

LEMMA StepSeen == ASSUME Reliable PROVE SeenInv /\ [Next]_vars => SeenInv'
<1> SUFFICES ASSUME SeenInv, [Next]_vars PROVE SeenInv'
  OBVIOUS
<1>l. LogInv /\ LogInv' /\ Typed
  BY StepLog DEF SeenInv, LogInv
<1>c. ~ Crash /\ ~ Restart
  BY <1>l, BudgetStep DEF LogInv, Intact, Restart
<1>1. ASSUME UNCHANGED <<files, writer, sb, ack>>, check'.ack \in {0, ack, check.ack} PROVE SeenInv'
  BY <1>1, <1>l DEF SeenInv, NothingSkipped, Upto
<1>2. CASE NobodyMoves
  BY <1>1, <1>2 DEF NobodyMoves, primaryVars
<1>3. ASSUME NEW w \in Writers, NEW op \in Ops, Commit(w, op) PROVE SeenInv'
  BY <1>1, <1>3 DEF Commit
<1>4. CASE CheckpointAck
  BY <1>1, <1>4 DEF CheckpointAck, NoCheck
<1>5. CASE CheckpointRanges
  BY <1>1, <1>5, <1>l DEF CheckpointRanges, LogInv, Typed
<1>6. ASSUME NEW w \in Writers, LogEntry(w) PROVE SeenInv'
  <2>1. /\ UNCHANGED <<sb, ack, check>> /\ files \subseteq files'
        /\ writer'.seq = writer.seq + 1 /\ \E e \in files' : e.seq = writer.seq + 1
    <3>1. PICK f \in {writer.file, writer.file + 1} :
            /\ writer' = [file |-> f, seq |-> writer.seq + 1]
            /\ files' = files \cup {[file |-> f, seq |-> writer.seq + 1, op |-> pend[w]]}
      BY <1>6, <1>l, LogEntryFact
    <3>2. [file |-> f, seq |-> writer.seq + 1, op |-> pend[w]] \in files'
      BY <3>1
    <3> QED BY <1>6, <3>1, <3>2 DEF LogEntry
  <2>2. writer.seq \in Nat
    BY <1>l DEF Typed, TypeOK, Log!WalTypeOK
  <2>3. \A s \in Standbys, n \in 1..writer.seq + 1 : n \in sb[s].seen \/ \E e \in files' : e.seq = n
    BY <2>1, <2>2 DEF SeenInv
  <2> QED BY <1>l, <2>1, <2>3 DEF SeenInv, NothingSkipped, Upto
<1>7. CASE CheckpointRemove
  <2>1. UNCHANGED <<writer, sb, ack>> /\ check'.ack = 0
    BY <1>7 DEF CheckpointRemove, NoCheck
  <2>2. Budget["checkpoint"] > 0
    <3>1. Budget["checkpoint"] \in Nat /\ check.pc = "remove"
      BY <1>7 DEF CheckpointRemove, Kinds
    <3> QED BY <1>l, <3>1 DEF LogInv, Intact
  <2>3. ASSUME NEW e \in files, e \notin files' PROVE e.seq <= check.ack
    <3>1. check.pc = "remove" /\ e.file \in DOMAIN check.ranges /\ check.ranges[e.file] <= check.ack
      BY <1>7, <2>3 DEF CheckpointRemove, Obsolete
    <3> QED BY <1>l, <3>1 DEF LogInv, AckSound, Log!In
  <2>4. ASSUME NEW s \in Standbys, NEW n \in 1..writer.seq
        PROVE  n \in sb[s].seen \/ \E e \in files' : e.seq = n
    <3>1. \A m \in 1..check.ack : m \in sb[s].seen
      BY <2>2 DEF SeenInv, Upto
    <3>2. n \in sb[s].seen \/ \E e \in files : e.seq = n
      BY DEF SeenInv
    <3> QED BY <1>l, <2>3, <3>1, <3>2 DEF Typed
  <2> QED BY <1>l, <2>1, <2>4 DEF SeenInv, NothingSkipped, Upto
<1>8. CASE PrimaryMoves
  BY <1>3, <1>4, <1>5, <1>6, <1>7, <1>8, <1>c DEF PrimaryMoves, CheckpointNext
<1> QED BY <1>l, <1>2, <1>8, StepCases, SeenStandbyStep

LEMMA InitSeen == ASSUME Reliable PROVE Init => SeenInv
<1> SUFFICES ASSUME Init PROVE SeenInv
  OBVIOUS
<1>1. writer.seq = 0 /\ ack = 0 /\ check.ack = 0
  BY DEF Init, Log!WalInit, NoCheck
<1>2. \A s \in Standbys : sb[s].last = 0 /\ sb[s].inbox = {}
  BY DEF Init, Fresh
<1> QED BY <1>1, <1>2, InitLog DEF SeenInv, NothingSkipped, Upto

\* lastSyncSeq is a promise that broken streams, cuts, rotation, clean-up and restarts of
\* the standby keep, with one standby or without checkpoints, as long as the primary runs:
\* a standby that says it has replayed up to n has replayed every entry up to n.
THEOREM ReplaysEverything == ASSUME Reliable PROVE Spec => []NothingSkipped
<1>1. SeenInv => NothingSkipped
  BY DEF SeenInv
<1> QED BY InitSeen, StepSeen, <1>1, PTL DEF Spec

-----------------------------------------------------------------------------
\* Where a standby stands.

KeepsPlace == Budget["reboot"] = 0 \/ Budget["checkpoint"] = 0

PlaceInv ==
    /\ LogInv
    /\ Budget["reboot"] = 0 => budget["reboot"] = 0
    /\ Budget["checkpoint"] = 0 => \A n \in 1..writer.seq : \E e \in files : e.seq = n
    /\ \A s \in Standbys :
         /\ \A n \in sb[s].last + 1..writer.seq : \E e \in files : e.seq = n
         /\ \A e \in sb[s].inbox : \A n \in sb[s].last + 1..e.seq : \E d \in sb[s].inbox : d.seq = n
         /\ \A e \in sb[s].inbox : e.seq > sb[s].last
         /\ Budget["checkpoint"] > 0 => ack <= sb[s].last /\ check.ack <= sb[s].last

\* The entry that is replayed is the next one of the log.
LEMMA NextIsNext ==
    ASSUME PlaceInv, NEW s \in Standbys, NEW e \in sb[s].inbox, Log!First(e, sb[s].inbox)
    PROVE  /\ e.seq = sb[s].last + 1 /\ sb[s].last \in Nat /\ e.seq \in 1..Len(journal)
           /\ e.op = journal[sb[s].last + 1] /\ e.op \in Ops
           /\ \A d \in sb[s].inbox \ {e} : d.seq > e.seq
<1>t. /\ sb[s].last \in Nat /\ sb[s].inbox \subseteq Log!Entry /\ InOrder(sb[s].inbox, journal)
      /\ Len(journal) \in Nat
  BY DEF PlaceInv, LogInv, PlacesSound, Typed, TypeOK, Standby
<1>1. e.seq > sb[s].last /\ e.seq \in Nat /\ e.seq <= Len(journal) /\ e.op = journal[e.seq] /\ e.op \in Ops
  BY <1>t DEF PlaceInv, InOrder, Log!Entry
<1>2. \A d \in sb[s].inbox : d # e => d.seq > e.seq
  BY <1>t, FirstFact
<1>3. PICK d \in sb[s].inbox : d.seq = sb[s].last + 1
  BY <1>t, <1>1 DEF PlaceInv
<1> QED BY <1>t, <1>1, <1>2, <1>3

LEMMA PlaceStandbyStep ==
    ASSUME Reliable, KeepsPlace, PlaceInv, LogInv', NEW s \in Standbys, StandbyMoves(s),
           Budget["reboot"] = 0 => budget'["reboot"] = 0
    PROVE  PlaceInv'
<1>t. /\ writer.seq \in Nat /\ sb[s].last \in Nat /\ sb[s].inbox \subseteq Log!Entry
      /\ files \subseteq Log!Entry /\ InOrder(sb[s].inbox, journal) /\ InOrder(files, journal)
      /\ LogInv /\ writer.seq = Len(journal) /\ Budget["checkpoint"] \in Nat /\ Budget["reboot"] \in Nat
  BY DEF PlaceInv, LogInv, LogSound, PlacesSound, Typed, TypeOK, Log!WalTypeOK, Standby, Kinds
<1>u. UNCHANGED <<files, writer, check>>
  BY <1>t, MoveFact
<1>1. PICK r :
        /\ \A t \in Standbys : sb'[t] = IF t = s THEN r ELSE sb[t]
        /\ \/ Going(s, r) /\ ack' = ack
           \/ Fetched(s, r) /\ ack' = IF sb[s].last > 0 THEN sb[s].last ELSE ack
           \/ (\E e \in sb[s].inbox : Applied(s, r, e)) /\ ack' = ack
           \/ /\ budget["reboot"] > 0 /\ r = Fresh(sb[s].db, sb[s].seen)
              /\ ack' = ack
  BY <1>t, MoveFact
<1> DEFINE Placed == /\ r.last \in Nat
                     /\ \A n \in r.last + 1..writer.seq : \E e \in files : e.seq = n
                     /\ \A e \in r.inbox : \A n \in r.last + 1..e.seq : \E d \in r.inbox : d.seq = n
                     /\ \A e \in r.inbox : e.seq > r.last
                     /\ Budget["checkpoint"] > 0 => ack' <= r.last /\ check.ack <= r.last
<1>s. /\ \A n \in sb[s].last + 1..writer.seq : \E e \in files : e.seq = n
      /\ \A e \in sb[s].inbox : \A n \in sb[s].last + 1..e.seq : \E d \in sb[s].inbox : d.seq = n
      /\ \A e \in sb[s].inbox : e.seq > sb[s].last
      /\ Budget["checkpoint"] > 0 => ack <= sb[s].last /\ check.ack <= sb[s].last
  BY DEF PlaceInv
<1>2. ASSUME Going(s, r), ack' = ack PROVE Placed
  <2>1. /\ r.inbox \in Log!Prefixes(sb[s].inbox) \cup {{}} /\ r.inbox \subseteq sb[s].inbox
        /\ r.last = sb[s].last
    BY <1>2, PrefixFact DEF Going, SameStore
  <2>2. ASSUME NEW e \in r.inbox, NEW n \in r.last + 1..e.seq PROVE \E d \in r.inbox : d.seq = n
    <3>1. PICK d \in sb[s].inbox : d.seq = n
      BY <1>s, <2>1, <2>2
    <3>2. d \in r.inbox
      BY <1>t, <2>1, <2>2, <3>1, PrefixClosed
    <3> QED BY <3>1, <3>2
  <2> QED BY <1>2, <1>s, <1>t, <2>1, <2>2
<1>3. ASSUME Fetched(s, r), ack' = IF sb[s].last > 0 THEN sb[s].last ELSE ack PROVE Placed
  <2>1. /\ \A d : d \in r.inbox <=> d \in files /\ d.seq >= sb[s].last + 1
        /\ r.last = sb[s].last
    BY <1>3 DEF Fetched, SameStore, Log!ReadFrom
  <2>2. \A d \in r.inbox : d.seq \in Nat /\ d.seq <= writer.seq
    BY <1>t, <2>1 DEF InOrder, Log!Entry
  <2>3. ASSUME NEW e \in r.inbox, NEW n \in r.last + 1..e.seq PROVE \E d \in r.inbox : d.seq = n
    <3>1. n \in sb[s].last + 1..writer.seq
      BY <1>t, <2>1, <2>2, <2>3
    <3>2. PICK d \in files : d.seq = n
      BY <1>s, <3>1
    <3> QED BY <1>t, <2>1, <3>1, <3>2
  <2>4. \A e \in r.inbox : e.seq > r.last
    BY <1>t, <2>1, <2>2
  <2>5. Budget["checkpoint"] > 0 => ack' <= r.last /\ check.ack <= r.last
    BY <1>3, <1>s, <1>t, <2>1
  <2> QED BY <1>s, <1>t, <2>1, <2>3, <2>4, <2>5
<1>4. ASSUME NEW e \in sb[s].inbox, Applied(s, r, e), ack' = ack PROVE Placed
  <2>1. /\ r.inbox = sb[s].inbox \ {e} /\ Log!First(e, sb[s].inbox)
        /\ r.last = IF e.seq > sb[s].last THEN e.seq ELSE sb[s].last
    BY <1>4 DEF Applied
  <2>2. /\ e.seq = sb[s].last + 1 /\ \A d \in r.inbox : d.seq > e.seq
    BY <2>1, NextIsNext
  <2>3. r.last = sb[s].last + 1 /\ \A d \in sb[s].inbox : d.seq \in Nat
    BY <1>t, <2>1, <2>2 DEF Log!Entry
  <2>4. ASSUME NEW c \in r.inbox, NEW n \in r.last + 1..c.seq PROVE \E d \in r.inbox : d.seq = n
    <3>1. PICK d \in sb[s].inbox : d.seq = n
      BY <1>s, <1>t, <2>1, <2>3, <2>4
    <3> QED BY <1>t, <2>1, <2>2, <2>3, <2>4, <3>1
  <2>5. Budget["checkpoint"] > 0 => ack' <= r.last /\ check.ack <= r.last
    BY <1>4, <1>s, <1>t, <2>3 DEF LogInv, Typed, TypeOK
  <2>6. \A n \in r.last + 1..writer.seq : \E d \in files : d.seq = n
    BY <1>s, <1>t, <2>3
  <2>7. r.last \in Nat /\ \A d \in r.inbox : d.seq > r.last
    BY <1>t, <2>2, <2>3
  <2> QED BY <2>4, <2>5, <2>6, <2>7
<1>5. ASSUME budget["reboot"] > 0, r = Fresh(sb[s].db, sb[s].seen) PROVE Placed
  <2>1. r.last = 0 /\ r.inbox = {}
    BY <1>5 DEF Fresh
  <2>2. Budget["checkpoint"] = 0
    BY <1>5 DEF KeepsPlace, PlaceInv
  <2> QED BY <1>t, <2>1, <2>2 DEF PlaceInv
<1>6. Placed
  BY <1>1, <1>2, <1>3, <1>4, <1>5
<1>7. ASSUME NEW t \in Standbys
      PROVE  /\ \A n \in sb'[t].last + 1..writer.seq : \E e \in files : e.seq = n
             /\ \A e \in sb'[t].inbox : \A n \in sb'[t].last + 1..e.seq : \E d \in sb'[t].inbox : d.seq = n
             /\ \A e \in sb'[t].inbox : e.seq > sb'[t].last
             /\ Budget["checkpoint"] > 0 => ack' <= sb'[t].last /\ check.ack <= sb'[t].last
  <2>1. CASE t = s
    BY <1>1, <1>6, <2>1
  <2>2. CASE t # s
    <3>1. Budget["checkpoint"] = 0
      BY <2>2 DEF Reliable
    <3> QED BY <1>1, <2>2, <3>1 DEF PlaceInv
  <2> QED BY <2>1, <2>2
<1> QED BY <1>u, <1>7 DEF PlaceInv

LEMMA StepPlace == ASSUME Reliable, KeepsPlace PROVE PlaceInv /\ [Next]_vars => PlaceInv'
<1> SUFFICES ASSUME PlaceInv, [Next]_vars PROVE PlaceInv'
  OBVIOUS
<1>l. LogInv /\ LogInv' /\ Typed
  BY StepLog DEF PlaceInv, LogInv
<1>c. ~ Crash /\ ~ Restart
  BY <1>l, BudgetStep DEF LogInv, Intact, Restart
<1>b. Budget["reboot"] = 0 => budget'["reboot"] = 0
  BY <1>l, BudgetStep DEF PlaceInv, Kinds
<1>t. /\ writer.seq \in Nat /\ ack \in Nat /\ check.ack \in Nat
      /\ \A s \in Standbys : sb[s].last \in Nat /\ sb[s].last <= writer.seq
  BY <1>l DEF LogInv, PlacesSound, Typed, TypeOK, Log!WalTypeOK, Standby
<1>1. ASSUME UNCHANGED <<files, writer, sb, ack>>, check'.ack \in {0, ack, check.ack} PROVE PlaceInv'
  BY <1>1, <1>b, <1>l, <1>t DEF PlaceInv
<1>2. CASE NobodyMoves
  BY <1>1, <1>2 DEF NobodyMoves, primaryVars
<1>3. ASSUME NEW w \in Writers, NEW op \in Ops, Commit(w, op) PROVE PlaceInv'
  BY <1>1, <1>3 DEF Commit
<1>4. CASE CheckpointAck
  BY <1>1, <1>4 DEF CheckpointAck, NoCheck
<1>5. CASE CheckpointRanges
  BY <1>1, <1>5, <1>l DEF CheckpointRanges, Typed
<1>6. ASSUME NEW w \in Writers, LogEntry(w) PROVE PlaceInv'
  <2>1. PICK f \in {writer.file, writer.file + 1} :
          /\ writer' = [file |-> f, seq |-> writer.seq + 1]
          /\ files' = files \cup {[file |-> f, seq |-> writer.seq + 1, op |-> pend[w]]}
    BY <1>6, <1>l, LogEntryFact
  <2>2. [file |-> f, seq |-> writer.seq + 1, op |-> pend[w]] \in files'
    BY <2>1
  <2>3. /\ UNCHANGED <<sb, ack, check>> /\ files \subseteq files'
        /\ writer'.seq = writer.seq + 1 /\ \E e \in files' : e.seq = writer.seq + 1
    BY <1>6, <2>1, <2>2 DEF LogEntry
  <2>4. Budget["checkpoint"] = 0 => \A n \in 1..writer.seq + 1 : \E e \in files' : e.seq = n
    BY <1>t, <2>3 DEF PlaceInv
  <2>5. \A s \in Standbys : \A n \in sb[s].last + 1..writer.seq + 1 : \E e \in files' : e.seq = n
    BY <1>t, <2>3 DEF PlaceInv
  <2> QED BY <1>b, <1>l, <2>3, <2>4, <2>5 DEF PlaceInv
<1>7. CASE CheckpointRemove
  <2>1. UNCHANGED <<writer, sb, ack>> /\ check'.ack = 0
    BY <1>7 DEF CheckpointRemove, NoCheck
  <2>2. Budget["checkpoint"] > 0
    <3>1. Budget["checkpoint"] \in Nat /\ check.pc = "remove"
      BY <1>7 DEF CheckpointRemove, Kinds
    <3> QED BY <1>l, <3>1 DEF LogInv, Intact
  <2>3. ASSUME NEW e \in files, e \notin files' PROVE e.seq <= check.ack
    <3>1. check.pc = "remove" /\ e.file \in DOMAIN check.ranges /\ check.ranges[e.file] <= check.ack
      BY <1>7, <2>3 DEF CheckpointRemove, Obsolete
    <3> QED BY <1>l, <3>1 DEF LogInv, AckSound, Log!In
  <2>4. ASSUME NEW s \in Standbys, NEW n \in sb[s].last + 1..writer.seq
        PROVE  \E e \in files' : e.seq = n
    <3>1. check.ack <= sb[s].last
      BY <2>2 DEF PlaceInv
    <3>2. PICK e \in files : e.seq = n
      BY DEF PlaceInv
    <3> QED BY <1>t, <2>3, <3>1, <3>2
  <2> QED BY <1>b, <1>l, <1>t, <2>1, <2>2, <2>4 DEF PlaceInv
<1>8. CASE PrimaryMoves
  BY <1>3, <1>4, <1>5, <1>6, <1>7, <1>8, <1>c DEF PrimaryMoves, CheckpointNext
<1> QED BY <1>b, <1>l, <1>2, <1>8, StepCases, PlaceStandbyStep

LEMMA InitPlace == ASSUME Reliable PROVE Init => PlaceInv
<1> SUFFICES ASSUME Init PROVE PlaceInv
  OBVIOUS
<1>1. writer.seq = 0 /\ ack = 0 /\ check.ack = 0 /\ budget = Budget
  BY DEF Init, Log!WalInit, NoCheck
<1>2. \A s \in Standbys : sb[s].last = 0 /\ sb[s].inbox = {}
  BY DEF Init, Fresh
<1> QED BY <1>1, <1>2, InitLog DEF PlaceInv

\* A standby that is never restarted replays the log entry by entry.
LEMMA StepShips ==
    ASSUME Reliable, Budget["reboot"] = 0, PlaceInv, [Next]_vars
    PROVE  [Shipping!Next]_(Shipping!vars)
<1>l. LogInv /\ Typed
  BY DEF PlaceInv, LogInv
<1>t. /\ sb \in [Standbys -> Standby] /\ journal \in Seq(Ops)
      /\ \A s \in Standbys : sb[s].last \in Nat
  BY <1>l DEF Typed, TypeOK, Standby
<1>c. ~ Crash /\ ~ Restart
  BY <1>l, BudgetStep DEF LogInv, Intact, Restart
<1> DEFINE replica == [s \in Standbys |-> sb[s].db]
           pos == [s \in Standbys |-> sb[s].last]
<1>1. ASSUME UNCHANGED <<journal, sb>> PROVE UNCHANGED Shipping!vars
  BY <1>1 DEF Shipping!vars
<1>2. ASSUME NobodyMoves \/ CheckpointAck \/ CheckpointNext \/ \E w \in Writers, op \in Ops : Commit(w, op)
      PROVE  UNCHANGED <<journal, sb>>
  BY <1>2 DEF NobodyMoves, primaryVars, CheckpointAck, CheckpointNext, CheckpointRanges, CheckpointRemove, Commit
<1>3. ASSUME NEW w \in Writers, LogEntry(w) PROVE Shipping!Next
  <2>1. pend[w] \in Ops /\ journal' = Append(journal, pend[w]) /\ sb' = sb
    BY <1>3, <1>l, LogEntryFact DEF LogEntry
  <2>2. Shipping!LogChange(pend[w])
    BY <2>1 DEF Shipping!LogChange
  <2> QED BY <2>1, <2>2 DEF Shipping!Next
<1>4. ASSUME NEW s \in Standbys, StandbyMoves(s) PROVE Shipping!Next \/ UNCHANGED Shipping!vars
  <2>1. PICK r :
          /\ \A t \in Standbys : sb'[t] = IF t = s THEN r ELSE sb[t]
          /\ \/ Going(s, r) \/ Fetched(s, r) \/ \E e \in sb[s].inbox : Applied(s, r, e)
             \/ budget["reboot"] > 0
    BY <1>4, <1>l, MoveFact
  <2>2. budget["reboot"] = 0 /\ journal' = journal
    BY <1>4, <1>l, MoveFact DEF PlaceInv
  <2>3. CASE SameStore(s, r)
    <3>1. replica' = replica /\ pos' = pos
      BY <2>1, <2>3 DEF SameStore
    <3> QED BY <2>2, <3>1 DEF Shipping!vars
  <2>4. ASSUME NEW e \in sb[s].inbox, Applied(s, r, e) PROVE Shipping!ReplayNext(s)
    <3>1. /\ e.seq = sb[s].last + 1 /\ e.seq \in 1..Len(journal) /\ e.op = journal[sb[s].last + 1]
      BY <2>4, NextIsNext DEF Applied
    <3>2. r.last = sb[s].last + 1 /\ r.db = After(sb[s].db, journal[sb[s].last + 1])
      BY <1>t, <2>4, <3>1 DEF Applied
    <3>3. pos' = [pos EXCEPT ![s] = @ + 1]
      BY <2>1, <3>2
    <3>4. replica' = [replica EXCEPT ![s] = After(@, journal[sb[s].last + 1])]
      BY <2>1, <3>2
    <3>5. pos[s] = sb[s].last /\ pos[s] < Len(journal)
      BY <1>t, <3>1
    <3> QED BY <2>2, <3>3, <3>4, <3>5 DEF Shipping!ReplayNext
  <2> QED BY <2>1, <2>2, <2>3, <2>4 DEF Going, Fetched, Shipping!Next
<1> QED BY <1>c, <1>1, <1>2, <1>3, <1>4, <1>l, StepCases DEF PrimaryMoves

\* Files, rotation, clean-up, polls and broken streams implement a log that is shipped entry
\* by entry: as long as no process starts again, with one standby or without checkpoints,
\* a standby's store is the result of the first lastSyncSeq changes.
THEOREM ShipsEntryByEntry == ASSUME Reliable, Budget["reboot"] = 0 PROVE Spec => ShipsLog
<1>1. KeepsPlace
  BY DEF KeepsPlace
<1>2. Init => Shipping!Init
  <2> SUFFICES ASSUME Init PROVE Shipping!Init
    OBVIOUS
  <2>1. \A s \in Standbys : sb[s].last = 0 /\ sb[s].db = NoStore
    BY DEF Init, Fresh
  <2> QED BY <2>1 DEF Init, Shipping!Init
<1>3. PlaceInv /\ [Next]_vars => PlaceInv'
  BY <1>1, StepPlace
<1>4. PlaceInv /\ [Next]_vars => [Shipping!Next]_(Shipping!vars)
  BY StepShips
<1> QED BY InitPlace, <1>2, <1>3, <1>4, PTL DEF Spec, ShipsLog, Shipping!Spec

-----------------------------------------------------------------------------
\* Equal stores.

\* v is the value of key k after the first n changes of a log.
ValueAt(log, n, k, v) ==
    \/ v = Absent /\ \A i \in 1..n : log[i].key # k
    \/ \E i \in 1..n : /\ log[i].key = k /\ log[i].value = v
                       /\ \A m \in i + 1..n : log[m].key # k

\* The primary's store has what has been logged and what still will be, if a record has one
\* writer; a standby's has, for each record, a value it has had since the entry the
\* standby is at.
StoreEqual ==
    /\ \A w \in Writers : pend[w] # NoOp =>
         /\ pend[w].key \in Owner[w]
         /\ OneWriter(pend[w].key) => db[pend[w].key] = pend[w].value
    /\ \A k \in Keys : OneWriter(k) => \/ \E w \in Writers : pend[w] # NoOp /\ pend[w].key = k
                                       \/ ValueAt(journal, Len(journal), k, db[k])

ReplicasEqual ==
    \A s \in Standbys, k \in Keys :
       \E n \in sb[s].last..writer.seq : ValueAt(journal, n, k, sb[s].db[k])

EqualInv == PlaceInv /\ StoreEqual /\ ReplicasEqual

LEMMA ValueStays ==
    ASSUME NEW log \in Seq(Ops), NEW op \in Ops, NEW n \in 0..Len(log), NEW k, NEW v, ValueAt(log, n, k, v)
    PROVE  ValueAt(Append(log, op), n, k, v)
<1>1. \A i \in 1..n : Append(log, op)[i] = log[i]
  BY Grows
<1>2. CASE v = Absent /\ \A i \in 1..n : log[i].key # k
  BY <1>1, <1>2 DEF ValueAt
<1>3. CASE \E i \in 1..n : /\ log[i].key = k /\ log[i].value = v
                           /\ \A m \in i + 1..n : log[m].key # k
  <2>1. PICK i \in 1..n : /\ log[i].key = k /\ log[i].value = v
                          /\ \A m \in i + 1..n : log[m].key # k
    BY <1>3
  <2>2. \A m \in i + 1..n : m \in 1..n
    OBVIOUS
  <2> QED BY <1>1, <2>1, <2>2 DEF ValueAt
<1> QED BY <1>2, <1>3 DEF ValueAt

LEMMA ValueNext ==
    ASSUME NEW log, NEW n \in Nat, NEW k, NEW v,
           \/ log[n + 1].key = k /\ v = log[n + 1].value
           \/ log[n + 1].key # k /\ ValueAt(log, n, k, v)
    PROVE  ValueAt(log, n + 1, k, v)
<1>1. CASE log[n + 1].key = k /\ v = log[n + 1].value
  BY <1>1 DEF ValueAt
<1>2. CASE log[n + 1].key # k /\ v = Absent /\ \A i \in 1..n : log[i].key # k
  BY <1>2 DEF ValueAt
<1>3. ASSUME log[n + 1].key # k,
             NEW i \in 1..n, log[i].key = k, log[i].value = v, \A m \in i + 1..n : log[m].key # k
      PROVE  ValueAt(log, n + 1, k, v)
  <2>1. \A m \in i + 1..n + 1 : log[m].key # k
    BY <1>3
  <2> QED BY <1>3, <2>1 DEF ValueAt
<1> QED BY <1>1, <1>2, <1>3 DEF ValueAt

LEMMA ValueUnique ==
    ASSUME NEW log, NEW n \in Nat, NEW k, NEW u, NEW v, ValueAt(log, n, k, u), ValueAt(log, n, k, v)
    PROVE  u = v
<1>1. ASSUME NEW i \in 1..n, log[i].key = k, \A m \in i + 1..n : log[m].key # k,
             NEW j \in 1..n, log[j].key = k, \A m \in j + 1..n : log[m].key # k
      PROVE  i = j
  BY <1>1
<1> QED BY <1>1 DEF ValueAt

LEMMA CommitEqual ==
    ASSUME Typed, StoreEqual, NEW w \in Writers, NEW op \in Ops, Commit(w, op)
    PROVE  StoreEqual'
<1>t. /\ pend \in [Writers -> Ops \cup {NoOp}] /\ db \in [Keys -> Values \cup {Absent}]
      /\ op.key \in Keys /\ op # NoOp
  BY OpFacts DEF Typed, TypeOK
<1>1. /\ pend[w] = NoOp /\ op.key \in Owner[w] /\ journal' = journal
      /\ \A v \in Writers : pend'[v] = IF v = w THEN op ELSE pend[v]
      /\ \A k \in Keys : db'[k] = IF k = op.key THEN op.value ELSE db[k]
  BY <1>t DEF Commit, After
<1>2. ASSUME NEW v \in Writers, pend'[v] # NoOp
      PROVE  pend'[v].key \in Owner[v] /\ (OneWriter(pend'[v].key) => db'[pend'[v].key] = pend'[v].value)
  <2>1. CASE v = w
    BY <1>1, <1>t, <2>1
  <2>2. CASE v # w
    <3>1. pend'[v] = pend[v] /\ pend[v] \in Ops
      BY <1>1, <1>t, <1>2, <2>2
    <3>2. /\ pend[v].key \in Owner[v] /\ pend[v].key \in Keys
          /\ OneWriter(pend[v].key) => db[pend[v].key] = pend[v].value
      BY <1>2, <3>1, OpFacts DEF StoreEqual
    <3>3. OneWriter(pend[v].key) => pend[v].key # op.key
      BY <1>1, <2>2, <3>2 DEF OneWriter
    <3> QED BY <1>1, <3>1, <3>2, <3>3
  <2> QED BY <2>1, <2>2
<1>3. ASSUME NEW k \in Keys, OneWriter(k)
      PROVE  \/ \E v \in Writers : pend'[v] # NoOp /\ pend'[v].key = k
             \/ ValueAt(journal, Len(journal), k, db'[k])
  <2>1. CASE k = op.key
    BY <1>1, <1>t, <2>1
  <2>2. CASE k # op.key
    <3>1. db'[k] = db[k]
      BY <1>1, <2>2
    <3>2. ASSUME NEW v \in Writers, pend[v] # NoOp, pend[v].key = k PROVE pend'[v] # NoOp /\ pend'[v].key = k
      BY <1>1, <3>2
    <3> QED BY <1>3, <3>1, <3>2 DEF StoreEqual
  <2> QED BY <2>1, <2>2
<1> QED BY <1>1, <1>2, <1>3 DEF StoreEqual

LEMMA LogEntryReplicas ==
    ASSUME LogInv, ReplicasEqual, NEW w \in Writers, LogEntry(w)
    PROVE  ReplicasEqual'
<1>t. /\ pend \in [Writers -> Ops \cup {NoOp}] /\ journal \in Seq(Ops) /\ Len(journal) \in Nat
      /\ writer.seq = Len(journal) /\ \A s \in Standbys : sb[s].last \in Nat
      /\ pend[w] \in Ops
  BY LogEntryFact DEF LogInv, LogSound, Typed, TypeOK, Standby, LogEntry
<1>1. UNCHANGED sb /\ journal' = Append(journal, pend[w])
  BY DEF LogEntry
<1>2. writer'.seq = Len(journal) + 1
  BY <1>t, <1>1, Grows, LogEntryFact
<1>3. \A k, v : \A n \in 0..Len(journal) : ValueAt(journal, n, k, v) => ValueAt(journal', n, k, v)
  BY <1>t, <1>1, ValueStays
<1>4. ASSUME NEW s \in Standbys, NEW k \in Keys
      PROVE  \E n \in sb[s].last..Len(journal) + 1 : ValueAt(journal', n, k, sb[s].db[k])
  <2>1. PICK n \in sb[s].last..writer.seq : ValueAt(journal, n, k, sb[s].db[k])
    BY DEF ReplicasEqual
  <2>2. n \in 0..Len(journal) /\ n \in sb[s].last..Len(journal) + 1
    BY <1>t
  <2> QED BY <1>3, <2>1, <2>2
<1> QED BY <1>1, <1>2, <1>4 DEF ReplicasEqual

LEMMA LogEntryEqual ==
    ASSUME LogInv, StoreEqual, NEW w \in Writers, LogEntry(w)
    PROVE  StoreEqual'
<1>t. /\ pend \in [Writers -> Ops \cup {NoOp}] /\ journal \in Seq(Ops) /\ Len(journal) \in Nat
      /\ pend[w] \in Ops /\ pend[w] # NoOp
  BY LogEntryFact DEF LogInv, Typed, TypeOK, LogEntry
<1>1. /\ UNCHANGED db /\ journal' = Append(journal, pend[w])
      /\ \A v \in Writers : pend'[v] = IF v = w THEN NoOp ELSE pend[v]
  BY <1>t DEF LogEntry
<1>2. /\ Len(journal') = Len(journal) + 1 /\ journal'[Len(journal) + 1] = pend[w]
  BY <1>t, <1>1, Grows
<1>3. \A k, v : \A n \in 0..Len(journal) : ValueAt(journal, n, k, v) => ValueAt(journal', n, k, v)
  BY <1>t, <1>1, ValueStays
<1>4. \A v \in Writers : pend'[v] # NoOp =>
         pend'[v].key \in Owner[v] /\ (OneWriter(pend'[v].key) => db'[pend'[v].key] = pend'[v].value)
  BY <1>1 DEF StoreEqual
<1>5. ASSUME NEW k \in Keys, OneWriter(k)
      PROVE  \/ \E v \in Writers : pend'[v] # NoOp /\ pend'[v].key = k
             \/ ValueAt(journal', Len(journal) + 1, k, db[k])
  <2>1. CASE k = pend[w].key
    <3>1. db[k] = pend[w].value
      BY <1>t, <1>5, <2>1 DEF StoreEqual
    <3>2. journal'[Len(journal) + 1].key = k /\ db[k] = journal'[Len(journal) + 1].value
      BY <1>2, <2>1, <3>1
    <3> QED BY <1>t, <3>2, ValueNext
  <2>2. ASSUME NEW v \in Writers, pend[v] # NoOp, pend[v].key = k, k # pend[w].key
        PROVE  pend'[v] # NoOp /\ pend'[v].key = k
    BY <1>1, <2>2
  <2>3. CASE k # pend[w].key /\ ValueAt(journal, Len(journal), k, db[k])
    <3>1. ValueAt(journal', Len(journal), k, db[k]) /\ journal'[Len(journal) + 1].key # k
      BY <1>t, <1>2, <1>3, <2>3
    <3> QED BY <1>t, <3>1, ValueNext
  <2> QED BY <1>5, <2>1, <2>2, <2>3 DEF StoreEqual
<1> QED BY <1>1, <1>2, <1>4, <1>5 DEF StoreEqual

LEMMA StandbyEqual ==
    ASSUME PlaceInv, ReplicasEqual, NEW s \in Standbys, StandbyMoves(s)
    PROVE  ReplicasEqual'
<1>l. LogInv
  BY DEF PlaceInv
<1>t. /\ Len(journal) \in Nat /\ writer.seq = Len(journal) /\ sb[s].last \in Nat
      /\ sb[s].db \in [Keys -> Values \cup {Absent}]
  BY <1>l DEF LogInv, LogSound, Typed, TypeOK, Standby
<1>1. PICK r :
        /\ \A t \in Standbys : sb'[t] = IF t = s THEN r ELSE sb[t]
        /\ \/ Going(s, r) \/ Fetched(s, r) \/ \E e \in sb[s].inbox : Applied(s, r, e)
           \/ r = Fresh(sb[s].db, sb[s].seen)
  BY <1>l, MoveFact
<1>2. UNCHANGED <<journal, writer>>
  BY <1>l, MoveFact
<1>3. ASSUME NEW k \in Keys PROVE \E n \in r.last..writer.seq : ValueAt(journal, n, k, r.db[k])
  <2>1. PICK n \in sb[s].last..writer.seq : ValueAt(journal, n, k, sb[s].db[k])
    BY DEF ReplicasEqual
  <2>2. CASE SameStore(s, r)
    BY <2>1, <2>2 DEF SameStore
  <2>3. CASE r = Fresh(sb[s].db, sb[s].seen)
    <3>1. r.last = 0 /\ r.db = sb[s].db
      BY <2>3 DEF Fresh
    <3> QED BY <1>t, <2>1, <3>1
  <2>4. ASSUME NEW e \in sb[s].inbox, Applied(s, r, e)
        PROVE  \E m \in r.last..writer.seq : ValueAt(journal, m, k, r.db[k])
    <3>1. /\ e.seq = sb[s].last + 1 /\ e.seq \in 1..Len(journal) /\ e.op = journal[sb[s].last + 1]
          /\ e.op \in Ops
      BY <2>4, NextIsNext DEF Applied
    <3>2. /\ r.last = sb[s].last + 1 /\ r.last \in r.last..writer.seq
          /\ r.db[k] = IF k = e.op.key THEN e.op.value ELSE sb[s].db[k]
      BY <1>t, <2>4, <3>1 DEF Applied, After
    <3>3. CASE k = e.op.key
      <4>1. journal[sb[s].last + 1].key = k /\ r.db[k] = journal[sb[s].last + 1].value
        BY <3>1, <3>2, <3>3
      <4>2. ValueAt(journal, sb[s].last + 1, k, r.db[k])
        BY <1>t, <4>1, ValueNext
      <4> QED BY <3>2, <4>2
    <3>4. CASE k # e.op.key /\ n = sb[s].last
      <4>1. ValueAt(journal, r.last, k, r.db[k])
        BY <1>t, <2>1, <3>1, <3>2, <3>4, ValueNext
      <4> QED BY <3>2, <4>1
    <3>5. CASE k # e.op.key /\ n # sb[s].last
      <4>1. n \in r.last..writer.seq
        BY <1>t, <3>2, <3>5
      <4> QED BY <2>1, <3>2, <3>5, <4>1
    <3> QED BY <3>3, <3>4, <3>5
  <2> QED BY <1>1, <2>2, <2>3, <2>4 DEF Going, Fetched
<1> QED BY <1>1, <1>2, <1>3 DEF ReplicasEqual

ReplicaInv == PlaceInv /\ ReplicasEqual

LEMMA StepReplica == ASSUME Reliable, KeepsPlace PROVE ReplicaInv /\ [Next]_vars => ReplicaInv'
<1> SUFFICES ASSUME ReplicaInv, [Next]_vars PROVE ReplicaInv'
  OBVIOUS
<1>l. PlaceInv /\ PlaceInv' /\ LogInv /\ Typed /\ ReplicasEqual
  BY StepPlace DEF ReplicaInv, PlaceInv, LogInv
<1>c. ~ Crash /\ ~ Restart
  BY <1>l, BudgetStep DEF LogInv, Intact, Restart
<1>1. CASE UNCHANGED <<writer, journal, sb>>
  BY <1>1, <1>l DEF ReplicasEqual, ReplicaInv
<1>2. ASSUME NobodyMoves \/ CheckpointAck \/ CheckpointNext \/ \E w \in Writers, op \in Ops : Commit(w, op)
      PROVE  UNCHANGED <<writer, journal, sb>>
  BY <1>2 DEF NobodyMoves, primaryVars, CheckpointAck, CheckpointNext, CheckpointRanges, CheckpointRemove, Commit
<1>3. ASSUME NEW w \in Writers, LogEntry(w) PROVE ReplicasEqual'
  BY <1>3, <1>l, LogEntryReplicas
<1>4. ASSUME NEW s \in Standbys, StandbyMoves(s) PROVE ReplicasEqual'
  BY <1>4, <1>l, StandbyEqual
<1>5. ReplicasEqual'
  BY <1>c, <1>1, <1>2, <1>3, <1>4, <1>l, StepCases DEF PrimaryMoves, ReplicaInv
<1> QED BY <1>l, <1>5 DEF ReplicaInv

LEMMA StepStore ==
    ASSUME Reliable, LogInv, StoreEqual, [Next]_vars
    PROVE  StoreEqual'
<1>c. Typed /\ ~ Crash /\ ~ Restart
  BY BudgetStep DEF LogInv, Intact, Restart
<1>1. CASE UNCHANGED <<db, pend, journal>>
  BY <1>1 DEF StoreEqual
<1>2. ASSUME NobodyMoves \/ CheckpointAck \/ CheckpointNext
      PROVE  UNCHANGED <<db, pend, journal>>
  BY <1>2 DEF NobodyMoves, primaryVars, CheckpointAck, CheckpointNext, CheckpointRanges, CheckpointRemove
<1>3. ASSUME NEW w \in Writers, NEW op \in Ops, Commit(w, op) PROVE StoreEqual'
  BY <1>3, CommitEqual DEF LogInv
<1>4. ASSUME NEW w \in Writers, LogEntry(w) PROVE StoreEqual'
  BY <1>4, LogEntryEqual
<1>5. ASSUME NEW s \in Standbys, StandbyMoves(s) PROVE UNCHANGED <<db, pend, journal>>
  BY <1>5, MoveFact
<1> QED BY <1>c, <1>1, <1>2, <1>3, <1>4, <1>5, StepCases DEF PrimaryMoves

LEMMA StepEqual == ASSUME Reliable, KeepsPlace PROVE EqualInv /\ [Next]_vars => EqualInv'
  BY StepReplica, StepStore DEF EqualInv, ReplicaInv, PlaceInv

LEMMA InitEqual == ASSUME Reliable PROVE Init => EqualInv
<1> SUFFICES ASSUME Init PROVE EqualInv
  OBVIOUS
<1>1. /\ writer.seq = 0 /\ journal = <<>> /\ Len(journal) = 0 /\ db = NoStore
      /\ \A w \in Writers : pend[w] = NoOp
  BY DEF Init, Log!WalInit
<1>2. \A s \in Standbys : sb[s].last = 0 /\ sb[s].db = NoStore
  BY DEF Init, Fresh
<1>3. \A k \in Keys : ValueAt(journal, 0, k, NoStore[k])
  BY DEF ValueAt, NoStore
<1> QED BY <1>1, <1>2, <1>3, InitPlace DEF EqualInv, StoreEqual, ReplicasEqual

\* A standby that has nothing more to ask for has each record that one writer changes as the
\* primary has it, unless a change of it is still to be logged: as long as the primary runs,
\* and the standby is not restarted while files are cleaned up.
THEOREM SyncedIsEqual == ASSUME Reliable, KeepsPlace PROVE Spec => []SyncedMeansEqual
<1>1. ASSUME EqualInv PROVE SyncedMeansEqual
  <2> SUFFICES ASSUME NEW s \in Standbys, NEW k \in Keys, Synced(s), OneWriter(k),
                      \A w \in Writers : pend[w] # NoOp => pend[w].key # k
               PROVE  sb[s].db[k] = db[k]
    BY DEF SyncedMeansEqual
  <2>1. sb[s].last \in Nat /\ sb[s].last <= writer.seq /\ writer.seq = Len(journal) /\ Len(journal) \in Nat
    BY <1>1 DEF EqualInv, PlaceInv, LogInv, LogSound, PlacesSound, Typed, TypeOK, Standby
  <2>2. sb[s].last = Len(journal)
    BY <2>1 DEF Synced
  <2>3. ValueAt(journal, Len(journal), k, db[k])
    BY <1>1 DEF EqualInv, StoreEqual
  <2>4. ValueAt(journal, Len(journal), k, sb[s].db[k])
    BY <1>1, <2>1, <2>2 DEF EqualInv, ReplicasEqual
  <2> QED BY <2>1, <2>3, <2>4, ValueUnique
<1>2. EqualInv /\ [Next]_vars => EqualInv'
  BY StepEqual
<1> QED BY InitEqual, <1>1, <1>2, PTL DEF Spec

\* A standby that has nothing more to ask for has all that has ever been logged, also where
\* several writers change one record: as long as the primary runs, and the standby is not
\* restarted while files are cleaned up.
THEOREM SyncedHasAll == ASSUME Reliable, KeepsPlace PROVE Spec => []SyncedHasLog
<1>1. ASSUME ReplicaInv PROVE SyncedHasLog
  <2> SUFFICES ASSUME NEW s \in Standbys, Synced(s), NEW n \in 1..Len(journal),
                      \A m \in n + 1..Len(journal) : journal[m].key # journal[n].key
               PROVE  sb[s].db[journal[n].key] = journal[n].value
    BY DEF SyncedHasLog
  <2>1. /\ sb[s].last \in Nat /\ sb[s].last <= writer.seq /\ writer.seq = Len(journal) /\ Len(journal) \in Nat
        /\ journal \in Seq(Ops)
    BY <1>1 DEF ReplicaInv, PlaceInv, LogInv, LogSound, PlacesSound, Typed, TypeOK, Standby
  <2>2. sb[s].last = Len(journal)
    BY <2>1 DEF Synced
  <2>3. journal[n].key \in Keys
    BY <2>1, OpFacts
  <2>4. ValueAt(journal, Len(journal), journal[n].key, journal[n].value)
    BY DEF ValueAt
  <2>5. ValueAt(journal, Len(journal), journal[n].key, sb[s].db[journal[n].key])
    BY <1>1, <2>1, <2>2, <2>3 DEF ReplicaInv, ReplicasEqual
  <2> QED BY <2>1, <2>4, <2>5, ValueUnique
<1>2. ReplicaInv /\ [Next]_vars => ReplicaInv'
  BY StepReplica
<1>3. Init => ReplicaInv
  BY InitEqual DEF EqualInv, ReplicaInv
<1> QED BY <1>1, <1>2, <1>3, PTL DEF Spec
-----------------------------------------------------------------------------
\* The event bus. Whatever watchers subscribe, share an ID and leave, and whatever is published
\* meanwhile, it never sends on a closed channel and never closes one twice.

BusTyped ==
    /\ subs \in [Times -> Watchers \cup {None}]
    /\ id \in [Watchers -> Times \cup {0}]
    /\ watcher \in [Watchers -> {"idle", "subscribe", "watching", "leaving", "ended", "gone", "cut"}]
    /\ publisher \in [Publishers -> [pc : {"idle", "saved", "publishing", "done"}, status : Statuses,
                                     left : SUBSET Watchers]]

Begun(w) == watcher[w] \notin {"idle", "subscribe"}

\* A channel that is subscribed has one place, under the ID of its watcher, and is open.
Placed == \A i \in Times, w \in Watchers : subs[i] = w => id[w] = i /\ Begun(w) /\ w \notin closed

\* Only a watcher that has subscribed has a channel that somebody could close.
ClosedLater == closed \subseteq Watchers /\ \A w \in closed : Begun(w)

\* As long as Publish holds the read lock, whom it has left to tell stays subscribed.
LeftSubscribed ==
    \A p \in Publishers : \A w \in publisher[p].left :
        publisher[p].pc = "publishing" /\ \E i \in Times : subs[i] = w

\* A watcher that may leave has an ID.
Identified == \A w \in Watchers : watcher[w] \in {"watching", "leaving", "ended"} => id[w] \in Times

BusInv == BusTyped /\ Placed /\ ClosedLater /\ LeftSubscribed /\ Identified

LEMMA InitBus == ASSUME WatchInit PROVE BusInv
<1>1. BusTyped
  BY DEF WatchInit, BusTyped, Statuses
<1>2. Placed /\ ClosedLater /\ LeftSubscribed /\ Identified
  BY WatchAssumption DEF WatchInit, Placed, ClosedLater, LeftSubscribed, Identified
<1> QED BY <1>1, <1>2 DEF BusInv

LEMMA ImpliesOpen == BusInv => OnlyOpenChannels
BY DEF BusInv, BusTyped, Placed, LeftSubscribed, OnlyOpenChannels

\* A step of a publisher leaves the subscriptions alone, and tells only who is subscribed.
LEMMA PublisherBus == ASSUME BusInv, NEW p \in Publishers, Save(p) \/ Writing(p) PROVE BusInv'
<1>1. UNCHANGED <<subs, id, watcher, closed>>
  BY DEF Save, Writing, Publish, Offer, Published, busVars
<1>2. publisher \in [Publishers -> [pc : {"idle", "saved", "publishing", "done"}, status : Statuses,
                                    left : SUBSET Watchers]]
  BY DEF BusInv, BusTyped
<1> DEFINE Kept == publisher' \in [Publishers -> [pc : {"idle", "saved", "publishing", "done"}, status : Statuses,
                                                  left : SUBSET Watchers]]
           Told == \A w \in publisher'[p].left : publisher'[p].pc = "publishing" /\ \E i \in Times : subs[i] = w
<1>3. Kept /\ (\A q \in Publishers \ {p} : publisher'[q] = publisher[q]) /\ Told
  <2>1. CASE Save(p)
    <3>1. PICK s \in Statuses : publisher' = [publisher EXCEPT ![p] = [pc |-> "saved", status |-> s, left |-> {}]]
      <4>1. CASE job = "Absent"
        BY <2>1, <4>1 DEF Save, Statuses
      <4>2. CASE job # "Absent"
        BY <2>1, <4>2, WatchAssumption DEF Save
      <4> QED BY <4>1, <4>2
    <3>2. publisher'[p].left = {}
      BY <1>2, <3>1
    <3>3. Kept /\ \A q \in Publishers \ {p} : publisher'[q] = publisher[q]
      BY <1>2, <3>1
    <3> QED BY <3>2, <3>3
  <2>2. CASE Publish(p)
    <3> DEFINE all == {w \in Watchers : \E i \in Times : subs[i] = w}
    <3>1. publisher' = [publisher EXCEPT ![p].pc = "publishing", ![p].left = all]
      BY <2>2 DEF Publish
    <3>2. all \in SUBSET Watchers
      OBVIOUS
    <3>3. \A w \in all : \E i \in Times : subs[i] = w
      OBVIOUS
    <3> HIDE DEF all
    <3>4. publisher'[p].pc = "publishing" /\ publisher'[p].left = all
      BY <1>2, <3>1
    <3>5. Kept /\ \A q \in Publishers \ {p} : publisher'[q] = publisher[q]
      BY <1>2, <3>1, <3>2
    <3> QED BY <3>3, <3>4, <3>5
  <2>3. CASE Offer(p)
    <3>1. PICK w \in publisher[p].left : publisher' = [publisher EXCEPT ![p].left = @ \ {w}]
      BY <2>3 DEF Offer
    <3>2. publisher'[p].pc = "publishing" /\ publisher'[p].left \subseteq publisher[p].left
      BY <1>2, <2>3, <3>1 DEF Offer
    <3>3. Kept /\ \A q \in Publishers \ {p} : publisher'[q] = publisher[q]
      BY <1>2, <3>1
    <3> QED BY <3>2, <3>3 DEF BusInv, LeftSubscribed
  <2>4. CASE Published(p)
    <3>1. publisher' = [publisher EXCEPT ![p].pc = "done"] /\ publisher[p].left = {}
      BY <2>4 DEF Published
    <3>2. publisher'[p].left = {}
      BY <1>2, <3>1
    <3>3. Kept /\ \A q \in Publishers \ {p} : publisher'[q] = publisher[q]
      BY <1>2, <3>1
    <3> QED BY <3>2, <3>3
  <2> QED BY <2>1, <2>2, <2>3, <2>4 DEF Writing
<1>4. BusTyped'
  BY <1>1, <1>3 DEF BusInv, BusTyped
<1>5. LeftSubscribed'
  BY <1>1, <1>3 DEF BusInv, LeftSubscribed
<1> QED BY <1>1, <1>4, <1>5 DEF BusInv, Placed, ClosedLater, Identified, Begun

\* Steps of a watcher that change neither subscriptions nor channels' ends.
LEMMA ReaderBus ==
    ASSUME BusInv, NEW w \in Watchers, Snapshot(w) \/ Leave(w) \/ Receive(w) \/ Closed(w)
    PROVE  BusInv'
<1>1. UNCHANGED <<subs, id, publisher, closed>>
  BY DEF Snapshot, Leave, Receive, Closed, busVars
<1>2. /\ watcher' \in [Watchers -> {"idle", "subscribe", "watching", "leaving", "ended", "gone", "cut"}]
      /\ \A v \in Watchers \ {w} : watcher'[v] = watcher[v]
      /\ watcher[w] = "watching" \/ (watcher[w] = "idle" /\ watcher'[w] \in {"subscribe", "gone"})
      /\ watcher[w] = "watching" => watcher'[w] \in {"watching", "leaving", "ended"}
  BY DEF Snapshot, Leave, Receive, Closed, GoesTo, BusInv, BusTyped
<1>3. \A v \in Watchers : Begun(v) => Begun(v)'
  BY <1>2 DEF Begun
<1>4. Identified'
  BY <1>1, <1>2 DEF BusInv, Identified
<1> QED BY <1>1, <1>2, <1>3, <1>4 DEF BusInv, BusTyped, Placed, ClosedLater, LeftSubscribed

\* Nobody publishes while the subscriptions change.
LEMMA SubscribeBus == ASSUME BusInv, NEW w \in Watchers, Subscribe(w) PROVE BusInv'
<1>1. PICK i \in Times : id' = [id EXCEPT ![w] = i] /\ subs' = [subs EXCEPT ![i] = w]
  BY DEF Subscribe
<1>2. watcher' = [watcher EXCEPT ![w] = "watching"] /\ UNCHANGED <<publisher, closed>> /\ watcher[w] = "subscribe"
  BY DEF Subscribe, GoesTo
<1>3. w \notin closed /\ \A k \in Times : subs[k] # w
  BY <1>2 DEF BusInv, Placed, ClosedLater, Begun
<1>4. \A p \in Publishers : publisher[p].left = {}
  BY DEF Subscribe, Publishing, BusInv, LeftSubscribed
<1>5. BusTyped'
  BY <1>1, <1>2 DEF BusInv, BusTyped
<1>6. Placed'
  BY <1>1, <1>2, <1>3 DEF BusInv, BusTyped, Placed, Begun
<1>7. ClosedLater' /\ Identified' /\ LeftSubscribed'
  BY <1>1, <1>2, <1>4 DEF BusInv, BusTyped, ClosedLater, Identified, LeftSubscribed, Begun
<1> QED BY <1>5, <1>6, <1>7 DEF BusInv

LEMMA UnsubscribeBus == ASSUME BusInv, NEW w \in Watchers, Unsubscribe(w) PROVE BusInv'
<1>1. /\ UNCHANGED <<publisher, id>>
      /\ watcher[w] \in {"leaving", "ended"} /\ id[w] \in Times
      /\ \E pc \in {"gone", "cut"} : watcher' = [watcher EXCEPT ![w] = pc]
  BY DEF Unsubscribe, GoesTo, BusInv, Identified
<1>2. \A p \in Publishers : publisher[p].left = {}
  BY DEF Unsubscribe, Publishing, BusInv, LeftSubscribed
<1>3. \A v \in Watchers : Begun(v) => Begun(v)'
  BY <1>1 DEF Begun, BusInv, BusTyped
<1>4. Identified' /\ LeftSubscribed'
  BY <1>1, <1>2 DEF BusInv, BusTyped, Identified, LeftSubscribed
<1>5. CASE subs[id[w]] = None
  <2>1. UNCHANGED <<subs, closed>>
    BY <1>5 DEF Unsubscribe, busVars
  <2> QED BY <1>1, <1>3, <1>4, <2>1 DEF BusInv, BusTyped, Placed, ClosedLater
<1>6. CASE subs[id[w]] # None
  <2>1. closed' = closed \cup {subs[id[w]]} /\ subs' = [subs EXCEPT ![id[w]] = None]
    BY <1>6 DEF Unsubscribe, Removed
  <2>2. subs[id[w]] \in Watchers /\ Begun(subs[id[w]])
    BY <1>1, <1>6 DEF BusInv, BusTyped, Placed
  <2>3. \A k \in Times : k # id[w] => subs[k] # subs[id[w]]
    BY <1>1, <2>2 DEF BusInv, Placed
  <2>4. BusTyped'
    BY <1>1, <2>1 DEF BusInv, BusTyped
  <2>5. Placed'
    BY <1>1, <1>3, <2>1, <2>3, WatchAssumption DEF BusInv, BusTyped, Placed
  <2>6. ClosedLater'
    BY <1>3, <2>1, <2>2 DEF BusInv, ClosedLater
  <2> QED BY <1>4, <2>4, <2>5, <2>6 DEF BusInv
<1> QED BY <1>5, <1>6

LEMMA StepBus == BusInv /\ [WatchNext]_watchVars => BusInv'
<1> SUFFICES ASSUME BusInv, [WatchNext]_watchVars PROVE BusInv'
  OBVIOUS
<1>1. ASSUME NEW p \in Publishers, Save(p) \/ Writing(p) PROVE BusInv'
  BY <1>1, PublisherBus
<1>2. ASSUME NEW w \in Watchers, Snapshot(w) \/ Leave(w) \/ Watching(w) PROVE BusInv'
  BY <1>2, ReaderBus, SubscribeBus, UnsubscribeBus DEF Watching
<1>3. CASE UNCHANGED watchVars
  BY <1>3 DEF watchVars, busVars, BusInv, BusTyped, Placed, ClosedLater, LeftSubscribed, Identified, Begun
<1> QED BY <1>1, <1>2, <1>3 DEF WatchNext

\* For any number of writers, watchers and IDs, and of watchers with one ID: the bus sends on
\* open channels only, and closes each at most once (bus.go:37-69).
THEOREM ChannelsStayOpen == WatchSpec => []OnlyOpenChannels
<1>1. WatchInit => BusInv
  BY InitBus
<1>2. BusInv /\ [WatchNext]_watchVars => BusInv'
  BY StepBus
<1> QED BY <1>1, <1>2, ImpliesOpen, PTL DEF WatchSpec

\* What the others carry: events and statuses.
Carried ==
    /\ job \in Statuses \cup {"Absent"}
    /\ channel \in [Watchers -> Seq(Publishers)]
    /\ \A w \in Watchers : Len(channel[w]) <= Cap
    /\ sent \in [Watchers -> Statuses \cup {None}]
    /\ told \in [Watchers -> SUBSET Publishers]
    /\ missed \in [Watchers -> SUBSET Publishers]

LEMMA CarriedStep == BusInv /\ Carried /\ [WatchNext]_watchVars => Carried'
<1> SUFFICES ASSUME BusInv, Carried, [WatchNext]_watchVars PROVE Carried'
  OBVIOUS
<1> USE DEF Carried
<1>t. publisher \in [Publishers -> [pc : {"idle", "saved", "publishing", "done"}, status : Statuses,
                                    left : SUBSET Watchers]]
  BY DEF BusInv, BusTyped
<1>1. ASSUME NEW p \in Publishers, Save(p) PROVE Carried'
  BY <1>1, WatchAssumption DEF Save, busVars, Statuses
<1>2. ASSUME NEW p \in Publishers, Publish(p) \/ Published(p) PROVE Carried'
  BY <1>2 DEF Publish, Published, busVars
<1>3. ASSUME NEW p \in Publishers, Offer(p) PROVE Carried'
  <2>1. PICK w \in Watchers : Offered(w, p)
    BY <1>3, <1>t DEF Offer
  <2>2. UNCHANGED <<job, sent, told>>
    BY <1>3 DEF Offer
  <2>3. CASE Len(channel[w]) < Cap
    <3>1. channel' = [channel EXCEPT ![w] = Append(channel[w], p)] /\ UNCHANGED missed
      BY <2>1, <2>3 DEF Offered
    <3>2. /\ Append(channel[w], p) \in Seq(Publishers)
          /\ Len(Append(channel[w], p)) = Len(channel[w]) + 1 /\ Len(channel[w]) \in Nat
      OBVIOUS
    <3>3. Len(channel[w]) + 1 <= Cap
      BY <2>3, <3>2, WatchAssumption
    <3> QED BY <2>2, <3>1, <3>2, <3>3
  <2>4. CASE ~(Len(channel[w]) < Cap)
    <3>1. missed' = [missed EXCEPT ![w] = missed[w] \cup {p}] /\ UNCHANGED channel
      BY <2>1, <2>4 DEF Offered
    <3>2. missed' \in [Watchers -> SUBSET Publishers]
      BY <3>1
    <3> QED BY <2>2, <3>1, <3>2
  <2> QED BY <2>3, <2>4
<1>4. ASSUME NEW w \in Watchers, Snapshot(w) PROVE Carried'
  BY <1>4 DEF Snapshot, GoesTo, busVars
<1>5. ASSUME NEW w \in Watchers, Receive(w) PROVE Carried'
  <2>1. channel[w] \in Seq(Publishers) /\ channel[w] # <<>>
    BY <1>5 DEF Receive
  <2>2. /\ Head(channel[w]) \in Publishers /\ Tail(channel[w]) \in Seq(Publishers)
        /\ Len(Tail(channel[w])) = Len(channel[w]) - 1 /\ Len(channel[w]) \in Nat
    BY <2>1
  <2>3. Len(Tail(channel[w])) <= Cap
    BY <2>2, WatchAssumption
  <2>4. channel' = [channel EXCEPT ![w] = Tail(channel[w])] /\ UNCHANGED <<job, missed>>
    BY <1>5 DEF Receive
  <2>5. publisher[Head(channel[w])].status \in Statuses
    BY <1>t, <2>2
  <2>6. /\ sent' \in [Watchers -> Statuses \cup {None}]
        /\ told' \in [Watchers -> SUBSET Publishers]
    <3>1. CASE UNCHANGED <<sent, told>>
      BY <3>1
    <3>2. CASE /\ sent' = [sent EXCEPT ![w] = publisher[Head(channel[w])].status]
               /\ told' = [told EXCEPT ![w] = told[w] \cup {Head(channel[w])}]
      <4>1. sent' \in [Watchers -> Statuses \cup {None}]
        BY <2>5, <3>2
      <4>2. told' \in [Watchers -> SUBSET Publishers]
        BY <2>2, <3>2
      <4> QED BY <4>1, <4>2
    <3> QED BY <1>5, <3>1, <3>2 DEF Receive
  <2> QED BY <2>2, <2>3, <2>4, <2>6
<1>6. ASSUME NEW w \in Watchers, Leave(w) \/ Closed(w) \/ Subscribe(w) \/ Unsubscribe(w) PROVE Carried'
  BY <1>6 DEF Leave, Closed, Subscribe, Unsubscribe, busVars
<1>7. CASE UNCHANGED watchVars
  BY <1>7 DEF watchVars, busVars
<1> QED BY <1>1, <1>2, <1>3, <1>4, <1>5, <1>6, <1>7 DEF WatchNext, Writing, Watching

\* All the while no channel holds more events than it has room for.
THEOREM WatchTypes == WatchSpec => []WatchTypeOK
<1>1. WatchInit => BusInv /\ Carried
  BY InitBus, WatchAssumption DEF WatchInit, Carried
<1>2. BusInv /\ Carried /\ [WatchNext]_watchVars => BusInv' /\ Carried'
  BY StepBus, CarriedStep
<1>3. BusInv /\ Carried => WatchTypeOK
  BY DEF BusInv, BusTyped, ClosedLater, Carried, WatchTypeOK
<1> QED BY <1>1, <1>2, <1>3, PTL DEF WatchSpec

-----------------------------------------------------------------------------
\* The bytes of a log file and its reader.

\* The file: entries one behind the other, the last one maybe cut.
LogEntries == [at : Nat, key : KeyLens, data : DataLens]

Top == IF file = <<>> THEN 0 ELSE EndOf(file[Len(file)])

FileTyped == file \in Seq(LogEntries) /\ size \in Nat /\ size <= Top /\ torn \in BOOLEAN

Adjacent ==
    /\ \A i \in 1..Len(file) : file[i].at = IF i = 1 THEN 0 ELSE EndOf(file[i - 1])
    /\ \A i, j \in 1..Len(file) : i < j => EndOf(file[i]) <= file[j].at
    /\ ~torn => size = Top

\* The reader: it has got the first entries, and is where they end.
ReaderTyped ==
    /\ reader \in [state : {"idle", "reading", "returned", "panic"}, loaded : Nat, offset : Nat,
                   got : Seq(LogEntries)]
    /\ reader.loaded <= Top

Got == Len(reader.got)

GotFirst ==
    /\ Got <= Len(file)
    /\ \A i \in 1..Got : reader.got[i] = file[i]
    /\ reader.offset = IF Got = 0 THEN 0 ELSE EndOf(file[Got])
    /\ reader.offset <= reader.loaded

\* What it has returned without was not there.
AllWhole == reader.state = "returned" => \A i \in 1..Len(file) : i > Got => EndOf(file[i]) > reader.loaded

CodecInv == FileTyped /\ Adjacent /\ ReaderTyped /\ GotFirst /\ AllWhole

LEMMA EntryLens ==
    ASSUME NEW e \in LogEntries
    PROVE  /\ e.at \in Nat /\ e.key \in Nat /\ e.data \in Nat
           /\ EntryLen(e) \in Nat /\ EntryLen(e) > 0
           /\ EndOf(e) \in Nat /\ EndOf(e) > e.at /\ EndOf(e) = e.at + EntryLen(e)
           /\ Consumed(e) = EntryLen(e)
<1>1. e.at \in Nat /\ e.key \in KeyLens /\ e.data \in DataLens
  BY DEF LogEntries
<1>2. e.key \in Nat /\ e.data \in Nat
  <2>1. KeyLens \subseteq Nat /\ DataLens \subseteq Nat
    BY CodecAssumption
  <2> QED BY <1>1, <2>1
<1> QED BY <1>1, <1>2 DEF EntryLen, EndOf, Consumed, Header

LEMMA FileFacts ==
    ASSUME FileTyped
    PROVE  /\ Len(file) \in Nat /\ Top \in Nat
           /\ \A i \in 1..Len(file) : file[i] \in LogEntries
           /\ file # <<>> <=> Len(file) > 0
<1>1. Len(file) \in Nat /\ (\A i \in 1..Len(file) : file[i] \in LogEntries) /\ (file # <<>> <=> Len(file) > 0)
  BY DEF FileTyped
<1>2. Top \in Nat
  <2>1. CASE file = <<>>
    BY <2>1 DEF Top
  <2>2. CASE file # <<>>
    <3>1. file[Len(file)] \in LogEntries
      BY <1>1, <2>2
    <3> QED BY <2>2, <3>1, EntryLens DEF Top
  <2> QED BY <2>1, <2>2
<1> QED BY <1>1, <1>2

LEMMA NeededBytes ==
    ASSUME NEW e, e.key \in Nat, e.data \in Nat
    PROVE  /\ Needs(e)[1].bytes \in Int /\ Needs(e)[2].bytes \in Int /\ Needs(e)[3].bytes \in Int
           /\ Needs(e)[4].bytes \in Int /\ Needs(e)[5].bytes \in Int
           /\ Needs(e)[1].bytes = 31
           /\ Needs(e)[2].bytes = 19 + e.key
           /\ Needs(e)[3].bytes = 19 + e.key + 4
           /\ Needs(e)[4].bytes = 19 + e.key + 4 + e.data + 4
           /\ Needs(e)[5].bytes = 19 + e.key + 4 + e.data + 4 + 4
BY DEF Needs, Header

\* UnmarshalWAL finds all it needs exactly where the whole entry is there.
LEMMA NeedsWhole ==
    ASSUME NEW e \in LogEntries, NEW left \in Int
    PROVE  (\A n \in 1..5 : Needs(e)[n].bytes <= left) <=> EntryLen(e) <= left
<1>1. e.key \in Nat /\ e.data \in Nat
  BY EntryLens
<1>2. /\ Needs(e)[1].bytes = 31
      /\ Needs(e)[2].bytes = 19 + e.key
      /\ Needs(e)[3].bytes = 19 + e.key + 4
      /\ Needs(e)[4].bytes = 19 + e.key + 4 + e.data + 4
      /\ Needs(e)[5].bytes = 19 + e.key + 4 + e.data + 4 + 4
  BY <1>1, NeededBytes
<1>3. EntryLen(e) = 19 + e.key + 4 + e.data + 4 + 4
  BY <1>1 DEF EntryLen, Header
<1>4. \A n \in 1..5 : n = 1 \/ n = 2 \/ n = 3 \/ n = 4 \/ n = 5
  OBVIOUS
<1> QED BY <1>1, <1>2, <1>3, <1>4

LEMMA CodecBegins == CodecInit => CodecInv
<1> SUFFICES ASSUME CodecInit PROVE CodecInv
  OBVIOUS
<1> USE DEF CodecInit
<1>1. Top = 0 /\ Got = 0 /\ Len(file) = 0
  BY DEF Top, Got
<1>2. FileTyped
  <2>1. file \in Seq(LogEntries)
    OBVIOUS
  <2>2. torn \in BOOLEAN
    OBVIOUS
  <2>3. size \in Nat /\ size <= Top
    BY <1>1
  <2> QED BY <2>1, <2>2, <2>3 DEF FileTyped
<1>3. Adjacent
  BY <1>1 DEF Adjacent
<1>4. ReaderTyped
  BY <1>1 DEF ReaderTyped
<1>5. GotFirst
  BY <1>1 DEF GotFirst
<1>6. AllWhole
  BY DEF AllWhole
<1> QED BY <1>2, <1>3, <1>4, <1>5, <1>6 DEF CodecInv

\* The reader is behind entry Got, so an entry it is at is the next one.
LEMMA NextEntry ==
    ASSUME CodecInv, NEW i \in 1..Len(file), AtEntry(i)
    PROVE  i = Got + 1
<1> USE DEF CodecInv
<1>1. /\ Len(file) \in Nat /\ \A j \in 1..Len(file) : file[j] \in LogEntries
  BY FileFacts
<1>2. Got \in Nat /\ Got <= Len(file)
  BY DEF ReaderTyped, Got, GotFirst
<1>3. \A j \in 1..Len(file) : file[j].at \in Nat /\ EndOf(file[j]) \in Nat /\ EndOf(file[j]) > file[j].at
  BY <1>1, EntryLens
<1>4. file[i].at = reader.offset
  BY DEF AtEntry
<1>5. ~ (i > Got + 1)
  <2> SUFFICES ASSUME i > Got + 1 PROVE FALSE
    OBVIOUS
  <2>1. Got + 1 \in 1..Len(file) /\ Got + 1 < i
    BY <1>1, <1>2
  <2>2. EndOf(file[Got + 1]) <= file[i].at
    BY <2>1 DEF Adjacent
  <2>3. file[Got + 1].at = reader.offset
    BY <2>1, <1>2 DEF Adjacent, GotFirst
  <2> QED BY <1>3, <1>4, <2>1, <2>2, <2>3
<1>6. ~ (i <= Got)
  <2> SUFFICES ASSUME i <= Got PROVE FALSE
    OBVIOUS
  <2>1. Got \in 1..Len(file) /\ reader.offset = EndOf(file[Got])
    BY <1>1, <1>2 DEF GotFirst
  <2>2. i = Got \/ EndOf(file[i]) <= file[Got].at
    BY <2>1, <1>2 DEF Adjacent
  <2> QED BY <1>3, <1>4, <2>1, <2>2
<1> QED BY <1>1, <1>2, <1>5, <1>6

\* Where the reader is, an entry begins or the log ends.
LEMMA NoOther ==
    ASSUME CodecInv, Got + 1 \in 1..Len(file)
    PROVE  file[Got + 1].at = reader.offset
BY DEF CodecInv, Adjacent, GotFirst, ReaderTyped, Got

\* Beyond an entry that is not whole there is none.
LEMMA Beyond ==
    ASSUME CodecInv, NEW n \in 1..Len(file), EndOf(file[n]) > reader.loaded
    PROVE  \A i \in 1..Len(file) : i >= n => EndOf(file[i]) > reader.loaded
<1> USE DEF CodecInv
<1> TAKE i \in 1..Len(file)
<1> HAVE i >= n
<1>1. Len(file) \in Nat /\ file[i] \in LogEntries /\ file[n] \in LogEntries
  BY FileFacts
<1>2. i = n \/ EndOf(file[n]) <= file[i].at
  BY <1>1 DEF Adjacent
<1>3. reader.loaded \in Nat
  BY DEF ReaderTyped
<1> QED BY <1>1, <1>2, <1>3, EntryLens

LEMMA WriteGoesOn ==
    ASSUME CodecInv, NEW k \in KeyLens, NEW d \in DataLens, WriteEntry(k, d)
    PROVE  CodecInv'
<1> USE DEF CodecInv
<1> DEFINE e == [at |-> size, key |-> k, data |-> d]
           n == Len(file)
<1>1. /\ file' = Append(file, e) /\ size' = EndOf(e) /\ ~torn
      /\ torn' = torn /\ reader' = reader
  BY DEF WriteEntry
<1>2. e \in LogEntries
  BY DEF FileTyped, LogEntries
<1>3. /\ n \in Nat /\ Top \in Nat /\ size = Top
      /\ \A i \in 1..n : file[i] \in LogEntries
      /\ file # <<>> <=> n > 0
  BY <1>1, FileFacts DEF Adjacent
<1>4. e.at = Top
  BY <1>3
<1> HIDE DEF e
<1>5. /\ file' \in Seq(LogEntries) /\ Len(file') = n + 1
      /\ \A i \in 1..n : file'[i] = file[i]
      /\ file'[n + 1] = e /\ file' # <<>>
  BY <1>1, <1>2 DEF FileTyped
<1> HIDE DEF n
<1>6. EndOf(e) \in Nat /\ EndOf(e) > Top
  BY <1>2, <1>4, EntryLens
<1>7. Top' = EndOf(e)
  BY <1>3, <1>5 DEF Top, EndOf, EntryLen
<1>8. \A i \in 1..n : EndOf(file[i]) <= Top /\ EndOf(file[i]) \in Nat /\ file[i].at \in Nat
  <2> TAKE i \in 1..n
  <2>1. file # <<>> /\ n \in 1..n /\ Top = EndOf(file[n])
    BY <1>3 DEF Top, n
  <2>2. i = n \/ EndOf(file[i]) <= file[n].at
    BY <1>3, <2>1 DEF Adjacent, n
  <2>3. file[i] \in LogEntries /\ file[n] \in LogEntries
    BY <1>3, <2>1
  <2> QED BY <2>1, <2>2, <2>3, EntryLens
<1>9. FileTyped'
  <2>1. torn' \in BOOLEAN
    BY <1>1 DEF FileTyped
  <2> QED BY <1>1, <1>5, <1>6, <1>7, <2>1 DEF FileTyped
<1>10. Adjacent'
  <2>1. \A i \in 1 .. n + 1 : file'[i].at = IF i = 1 THEN 0 ELSE EndOf(file'[i - 1])
    <3> TAKE i \in 1 .. n + 1
    <3>1. CASE i \in 1..n
      <4>1. file[i].at = IF i = 1 THEN 0 ELSE EndOf(file[i - 1])
        BY <3>1 DEF Adjacent, n
      <4>2. i # 1 => i - 1 \in 1..n
        BY <1>3, <3>1
      <4> QED BY <3>1, <1>5, <4>1, <4>2
    <3>2. CASE i = n + 1
      <4>1. n = 0 => Top = 0
        BY <1>3 DEF Top
      <4>2. n # 0 => Top = EndOf(file[n]) /\ file'[n] = file[n]
        BY <1>3, <1>5 DEF Top, n
      <4> QED BY <3>2, <1>3, <1>4, <1>5, <4>1, <4>2
    <3> QED BY <3>1, <3>2, <1>3
  <2>2. \A i, j \in 1 .. n + 1 : i < j => EndOf(file'[i]) <= file'[j].at
    <3> TAKE i, j \in 1 .. n + 1
    <3> HAVE i < j
    <3>1. CASE j \in 1..n
      <4>1. i \in 1..n
        BY <3>1, <1>3
      <4> QED BY <3>1, <4>1, <1>5 DEF Adjacent, n
    <3>2. CASE j = n + 1
      <4>1. i \in 1..n
        BY <3>2, <1>3
      <4> QED BY <3>2, <4>1, <1>4, <1>5, <1>8
    <3> QED BY <3>1, <3>2, <1>3
  <2>3. ~torn' => size' = Top'
    BY <1>1, <1>7
  <2>4. \A i \in 1..Len(file') : file'[i].at = IF i = 1 THEN 0 ELSE EndOf(file'[i - 1])
    BY <2>1, <1>5
  <2>5. \A i, j \in 1..Len(file') : i < j => EndOf(file'[i]) <= file'[j].at
    BY <2>2, <1>5
  <2> QED BY <2>3, <2>4, <2>5 DEF Adjacent, EndOf, EntryLen
<1>11. ReaderTyped'
  BY <1>1, <1>6, <1>7, <1>3 DEF ReaderTyped
<1>12. Got' = Got /\ Got \in Nat /\ Got <= n
  BY <1>1 DEF Got, ReaderTyped, GotFirst, n
<1>13. GotFirst'
  <2>1. Got <= n + 1
    BY <1>3, <1>12
  <2>2. \A i \in 1..Got : reader.got[i] = file'[i]
    <3> TAKE i \in 1..Got
    <3>1. i \in 1..n
      BY <1>3, <1>12
    <3> QED BY <3>1, <1>5 DEF GotFirst
  <2>3. reader.offset = IF Got = 0 THEN 0 ELSE EndOf(file'[Got])
    <3>1. Got # 0 => Got \in 1..n
      BY <1>3, <1>12
    <3> QED BY <3>1, <1>5 DEF GotFirst
  <2> QED BY <1>1, <1>5, <1>12, <2>1, <2>2, <2>3 DEF GotFirst, EndOf, EntryLen
<1>14. AllWhole'
  <2> SUFFICES ASSUME reader.state = "returned", NEW i \in 1 .. n + 1, i > Got
               PROVE  EndOf(file'[i]) > reader.loaded
    BY <1>1, <1>5, <1>12 DEF AllWhole, EndOf, EntryLen
  <2>1. CASE i \in 1..n
    BY <2>1, <1>5 DEF AllWhole, n
  <2>2. CASE i = n + 1
    <3>1. reader.loaded \in Nat /\ reader.loaded <= Top
      BY DEF ReaderTyped
    <3> QED BY <2>2, <3>1, <1>3, <1>5, <1>6
  <2> QED BY <2>1, <2>2, <1>3
<1> QED BY <1>9, <1>10, <1>11, <1>13, <1>14

LEMMA TearGoesOn == ASSUME CodecInv, Tear PROVE CodecInv'
<1> USE DEF CodecInv
<1>1. PICK lost \in 1..EntryLen(file[Len(file)]) : size' = size - lost
  BY DEF Tear
<1>2. /\ ~torn /\ torn' = TRUE /\ file' = file /\ reader' = reader /\ file # <<>>
  BY DEF Tear
<1>3. file[Len(file)] \in LogEntries /\ Top \in Nat /\ size = Top /\ Top = EndOf(file[Len(file)])
  BY <1>2, FileFacts DEF Adjacent, Top
<1>4. size' \in Nat /\ size' <= Top
  BY <1>1, <1>3, EntryLens
<1>5. Top' = Top /\ Got' = Got
  BY <1>2 DEF Top, Got, EndOf, EntryLen
<1>6. FileTyped'
  BY <1>2, <1>4, <1>5 DEF FileTyped
<1>7. Adjacent'
  BY <1>2 DEF Adjacent, EndOf, EntryLen
<1>8. ReaderTyped'
  BY <1>2, <1>5 DEF ReaderTyped
<1>9. GotFirst'
  BY <1>2, <1>5 DEF GotFirst, EndOf, EntryLen
<1>10. AllWhole'
  BY <1>2, <1>5 DEF AllWhole, EndOf, EntryLen
<1> QED BY <1>6, <1>7, <1>8, <1>9, <1>10

\* A step of the reader leaves the file as it is.
LEMMA FileStays ==
    ASSUME FileTyped, Adjacent, UNCHANGED <<file, size, torn>>
    PROVE  FileTyped' /\ Adjacent' /\ Top' = Top
BY DEF FileTyped, Adjacent, Top, EndOf, EntryLen

LEMMA LoadGoesOn == ASSUME CodecInv, Load PROVE CodecInv'
<1> USE DEF CodecInv
<1>1. /\ UNCHANGED <<file, size, torn>>
      /\ reader' = [state |-> "reading", loaded |-> size, offset |-> 0, got |-> <<>>]
  BY DEF Load
<1>2. FileTyped' /\ Adjacent' /\ Top' = Top
  BY <1>1, FileStays
<1>3. Got' = 0
  BY <1>1 DEF Got
<1>4. ReaderTyped'
  BY <1>1, <1>2 DEF ReaderTyped, FileTyped
<1>5. GotFirst'
  BY <1>1, <1>3, FileFacts DEF GotFirst, FileTyped
<1>6. AllWhole'
  BY <1>1 DEF AllWhole
<1> QED BY <1>2, <1>4, <1>5, <1>6

LEMMA ReadGoesOn ==
    ASSUME CodecInv, NEW i \in 1..Len(file), ReadEntry(i)
    PROVE  CodecInv'
<1> USE DEF CodecInv
<1> DEFINE e == file[i]
<1>1. /\ UNCHANGED <<file, size, torn>>
      /\ AtEntry(i)
      /\ \A n \in 1..5 : Needs(e)[n].bytes <= Left
      /\ reader' = [reader EXCEPT !.got = Append(reader.got, e), !.offset = reader.offset + Consumed(e)]
  BY DEF ReadEntry
<1>2. FileTyped' /\ Adjacent' /\ Top' = Top
  BY <1>1, FileStays
<1>3. i = Got + 1 /\ e.at = reader.offset /\ reader.state = "reading"
  BY <1>1, NextEntry DEF AtEntry
<1>4. e \in LogEntries /\ Len(file) \in Nat
  BY FileFacts
<1>5. reader.loaded \in Nat /\ reader.offset \in Nat /\ Left = reader.loaded - reader.offset
  BY DEF ReaderTyped, Left
<1>6. EntryLen(e) <= Left
  BY <1>1, <1>4, <1>5, NeedsWhole
<1>7. EndOf(e) <= reader.loaded /\ reader.offset + Consumed(e) = EndOf(e) /\ EndOf(e) \in Nat
  BY <1>3, <1>4, <1>5, <1>6, EntryLens
<1> HIDE DEF e
<1>8. reader'.got = Append(reader.got, e) /\ reader'.offset = EndOf(e)
      /\ reader'.loaded = reader.loaded /\ reader'.state = "reading"
  BY <1>1, <1>3, <1>7 DEF ReaderTyped
<1>9. Got \in Nat /\ Got' = Got + 1 /\ Len(reader'.got) = Got + 1 /\ reader'.got[Got + 1] = e
      /\ \A j \in 1..Got : reader'.got[j] = reader.got[j]
  BY <1>4, <1>8 DEF Got, ReaderTyped
<1>10. ReaderTyped'
  <2>1. Append(reader.got, e) \in Seq(LogEntries)
    BY <1>4 DEF ReaderTyped
  <2>2. reader' \in [state : {"idle", "reading", "returned", "panic"}, loaded : Nat, offset : Nat,
                     got : Seq(LogEntries)]
    BY <1>1, <1>7, <2>1 DEF ReaderTyped
  <2> QED BY <1>2, <1>8, <2>2 DEF ReaderTyped
<1>11. GotFirst'
  <2>1. \A j \in 1 .. Got + 1 : reader'.got[j] = file[j]
    <3> TAKE j \in 1 .. Got + 1
    <3>1. CASE j = Got + 1
      BY <3>1, <1>3, <1>9 DEF e
    <3>2. CASE j \in 1..Got
      BY <3>2, <1>9 DEF GotFirst
    <3> QED BY <3>1, <3>2, <1>9
  <2>2. Got + 1 <= Len(file) /\ Got + 1 # 0 /\ file[Got + 1] = e
    BY <1>3, <1>4, <1>9 DEF e
  <2> QED BY <1>1, <1>7, <1>8, <1>9, <2>1, <2>2 DEF GotFirst, EndOf, EntryLen
<1>12. AllWhole'
  BY <1>8 DEF AllWhole
<1> QED BY <1>2, <1>10, <1>11, <1>12

\* The reader ends where what it has not got is not whole.
LEMMA EndGoesOn ==
    ASSUME CodecInv, UNCHANGED <<file, size, torn>>,
           NEW s \in {"returned", "panic"}, reader' = [reader EXCEPT !.state = s],
           \A i \in 1..Len(file) : i > Got => EndOf(file[i]) > reader.loaded
    PROVE  CodecInv'
<1> USE DEF CodecInv
<1>1. FileTyped' /\ Adjacent' /\ Top' = Top
  BY FileStays
<1>2. reader'.got = reader.got /\ reader'.offset = reader.offset /\ reader'.loaded = reader.loaded
  BY DEF ReaderTyped
<1>3. Got' = Got
  BY <1>2 DEF Got
<1>4. ReaderTyped'
  BY <1>1, <1>2 DEF ReaderTyped
<1>5. GotFirst'
  BY <1>2, <1>3 DEF GotFirst, EndOf, EntryLen
<1>6. AllWhole'
  BY <1>2, <1>3 DEF AllWhole, EndOf, EntryLen
<1> QED BY <1>1, <1>4, <1>5, <1>6

LEMMA TruncatedGoesOn ==
    ASSUME CodecInv, NEW i \in 1..Len(file), Truncated(i)
    PROVE  CodecInv'
<1>1. AtEntry(i) /\ UNCHANGED <<file, size, torn>>
  BY DEF Truncated
<1>2. PICK n \in 1..5 : /\ Needs(file[i])[n].bytes > Left
                        /\ reader' = [reader EXCEPT !.state = IF Needs(file[i])[n].checked THEN "returned" ELSE "panic"]
  BY DEF Truncated
<1>3. i = Got + 1 /\ file[i].at = reader.offset
  BY <1>1, NextEntry DEF AtEntry
<1>4. file[i] \in LogEntries /\ Len(file) \in Nat
  BY FileFacts DEF CodecInv
<1>5. Left \in Int /\ Left = reader.loaded - reader.offset /\ reader.loaded \in Nat /\ reader.offset \in Nat
  BY DEF CodecInv, ReaderTyped, Left
<1>6. ~ (EntryLen(file[i]) <= Left)
  <2>1. Needs(file[i])[n].bytes \in Int
    <3>1. file[i].key \in Nat /\ file[i].data \in Nat
      BY <1>4, EntryLens
    <3>2. CASE n = 1
      BY <3>1, <3>2, NeededBytes
    <3>3. CASE n = 2
      BY <3>1, <3>3, NeededBytes
    <3>4. CASE n = 3
      BY <3>1, <3>4, NeededBytes
    <3>5. CASE n = 4
      BY <3>1, <3>5, NeededBytes
    <3>6. CASE n = 5
      BY <3>1, <3>6, NeededBytes
    <3> QED BY <3>2, <3>3, <3>4, <3>5, <3>6
  <2>2. ~ (Needs(file[i])[n].bytes <= Left)
    BY <1>2, <1>5, <2>1
  <2> QED BY <2>2, <1>4, <1>5, NeedsWhole
<1>7. EndOf(file[i]) > reader.loaded
  BY <1>3, <1>4, <1>5, <1>6, EntryLens
<1>8. Got \in Nat
  BY DEF CodecInv, ReaderTyped, Got
<1>9. \A j \in 1..Len(file) : j > Got => EndOf(file[j]) > reader.loaded
  BY <1>3, <1>4, <1>7, <1>8, Beyond
<1> QED BY <1>1, <1>2, <1>9, EndGoesOn

LEMMA FinishGoesOn == ASSUME CodecInv, Finish PROVE CodecInv'
<1>1. /\ reader.state = "reading" /\ (\A i \in 1..Len(file) : ~AtEntry(i))
      /\ reader' = [reader EXCEPT !.state = "returned"] /\ UNCHANGED <<file, size, torn>>
  BY DEF Finish
<1>2. Got \in Nat /\ Len(file) \in Nat /\ reader.loaded \in Nat /\ reader.offset \in Nat
  BY FileFacts DEF CodecInv, ReaderTyped, Got
<1>3. \A j \in 1..Len(file) : j > Got => EndOf(file[j]) > reader.loaded
  <2> SUFFICES ASSUME NEW j \in 1..Len(file), j > Got PROVE EndOf(file[j]) > reader.loaded
    OBVIOUS
  <2>1. Got + 1 \in 1..Len(file) /\ j >= Got + 1
    BY <1>2
  <2>2. file[Got + 1].at = reader.offset
    BY <2>1, NoOther
  <2>3. ~ (reader.loaded - reader.offset > 0)
    BY <1>1, <2>1, <2>2 DEF AtEntry, Left
  <2>4. file[Got + 1] \in LogEntries
    BY <2>1, FileFacts DEF CodecInv
  <2>5. EndOf(file[Got + 1]) > reader.loaded
    BY <1>2, <2>2, <2>3, <2>4, EntryLens
  <2> QED BY <2>1, <2>5, Beyond
<1> QED BY <1>1, <1>3, EndGoesOn

LEMMA CodecGoesOn == CodecInv /\ [CodecNext]_codecVars => CodecInv'
<1> SUFFICES ASSUME CodecInv, [CodecNext]_codecVars PROVE CodecInv'
  OBVIOUS
<1>1. CASE UNCHANGED codecVars
  BY <1>1 DEF codecVars, CodecInv, FileTyped, Adjacent, ReaderTyped, GotFirst, AllWhole, Got, Top, EndOf, EntryLen
<1> QED BY <1>1, WriteGoesOn, TearGoesOn, LoadGoesOn, ReadGoesOn, TruncatedGoesOn, FinishGoesOn DEF CodecNext

LEMMA WholeFromInv == CodecInv => ReadsWholeEntries
<1> SUFFICES ASSUME CodecInv PROVE ReadsWholeEntries
  OBVIOUS
<1> USE DEF CodecInv
<1>1. /\ Got \in Nat /\ Len(file) \in Nat /\ reader.loaded \in Nat
      /\ \A i \in 1..Len(file) : file[i] \in LogEntries
  BY FileFacts DEF ReaderTyped, Got
<1>2. \A i \in 1..Len(file) : i <= Got => EndOf(file[i]) <= reader.loaded
  <2> SUFFICES ASSUME NEW i \in 1..Len(file), i <= Got PROVE EndOf(file[i]) <= reader.loaded
    OBVIOUS
  <2>1. Got \in 1..Len(file) /\ EndOf(file[Got]) <= reader.loaded
    BY <1>1 DEF GotFirst
  <2>2. i = Got \/ EndOf(file[i]) <= file[Got].at
    BY <1>1, <2>1 DEF Adjacent
  <2> QED BY <1>1, <2>1, <2>2, EntryLens
<1>3. ASSUME reader.state = "returned", NEW i \in 1..Len(file)
      PROVE  i <= Got <=> EndOf(file[i]) <= reader.loaded
  <2>1. i > Got => EndOf(file[i]) > reader.loaded
    BY <1>3 DEF AllWhole
  <2>2. EndOf(file[i]) \in Nat
    BY <1>1, EntryLens
  <2> QED BY <1>1, <1>2, <2>1, <2>2
<1> QED BY <1>3 DEF ReadsWholeEntries, GotFirst, Got

\* Wherever the last write of a file was cut, and however long keys and data are: a reader gets
\* the entries in order, and when it returns it has got all that were whole, and only these
\* (wal.go:175-229, 255-276).
THEOREM ReaderGetsWhole == CodecSpec => []ReadsWholeEntries
<1>1. CodecSpec => []CodecInv
  BY CodecBegins, CodecGoesOn, PTL DEF CodecSpec
<1> QED BY <1>1, WholeFromInv, PTL
=============================================================================
