---------------------------- MODULE Replication ----------------------------
(***************************************************************************)
(* Hot standby: the primary's store and its log (store.walWrite), the sync  *)
(* service and the checkpointer (server/sync.go), and standbys that poll,   *)
(* replay and take over (server/standby.go).                                *)
(*                                                                         *)
(* A record of the store is a key with a value.  Jobs are saved and later   *)
(* updated in place, which fails if the job is not there; the other kinds   *)
(* (nodes, trust edges, addresses) are saved and deleted.                   *)
(*                                                                         *)
(* Writers are the goroutines that serve RPCs.  Each commits a transaction  *)
(* and appends to the log afterwards; nothing keeps the two together.       *)
(***************************************************************************)
EXTENDS Integers, FiniteSets, Sequences

CONSTANTS
    Keys, Values, Absent,
    JobKeys,      \* the keys that are jobs
    Writers,      \* goroutines that change the store
    Owner,        \* the keys each of them works on
    Standbys,
    Capacity,     \* entries in a log file
    MaxFailures,  \* failover_timeout / health_check_interval
    Budget        \* how often each kind of event may happen

Kinds == {"write", "crash", "reboot", "rebuild", "drop", "cut", "checkpoint"}

ASSUME ReplicationAssumption ==
    /\ Absent \notin Values
    /\ JobKeys \subseteq Keys
    /\ Owner \in [Writers -> SUBSET Keys]
    /\ Capacity \in Nat \ {0}
    /\ MaxFailures \in Nat \ {0}
    /\ Budget \in [Kinds -> Nat]

Ops == [kind : {"save"}, key : Keys, value : Values]
       \cup [kind : {"update"}, key : JobKeys, value : Values]
       \cup [kind : {"delete"}, key : Keys \ JobKeys, value : {Absent}]

NoOp == [kind |-> "none"]

VARIABLES
    files, writer,  \* the log (Wal)
    up,       \* the primary process runs
    db,       \* the primary's store
    pend,     \* per writer, the change it has committed and not yet logged
    ack,      \* SyncService.standbyAck: what the standby last said to have replayed
    check,    \* the checkpoint in progress
    link,     \* the standbys that reach the primary
    sb,       \* the standbys
    journal,  \* history: every change ever logged
    budget

primaryVars == <<files, writer, up, db, pend, ack, check, journal>>
vars == <<primaryVars, link, sb, budget>>

Log == INSTANCE Wal

Spend(kind) == budget[kind] > 0 /\ budget' = [budget EXCEPT ![kind] = @ - 1]

-----------------------------------------------------------------------------
\* The store.

\* UpdateJobStatus fails when the job is not there; every other method succeeds.
Applicable(store, op) == op.kind = "update" => store[op.key] # Absent

After(store, op) == [store EXCEPT ![op.key] = op.value]

NoStore == [k \in Keys |-> Absent]

NoCheck == [pc |-> "idle", ack |-> 0, ranges |-> [f \in {} |-> 0]]

\* A standby as its process starts; the store is on disk.
Fresh(store, seen) ==
    [db |-> store, last |-> 0, role |-> "standby", loop |-> "new", pc |-> "idle",
     inbox |-> {}, fails |-> 0, seen |-> seen]

-----------------------------------------------------------------------------
\* The primary.

\* A handler changes the store: one committed transaction ...
Commit(w, op) ==
    /\ up
    /\ pend[w] = NoOp
    /\ op.key \in Owner[w]
    /\ Applicable(db, op)
    /\ Spend("write")
    /\ db' = After(db, op)
    /\ pend' = [pend EXCEPT ![w] = op]
    /\ UNCHANGED <<files, writer, up, ack, check, journal, link, sb>>

\* ... and walWrite, which takes the writer's lock only.
LogEntry(w) ==
    /\ up
    /\ pend[w] # NoOp
    /\ Log!Write(pend[w])
    /\ pend' = [pend EXCEPT ![w] = NoOp]
    /\ journal' = Append(journal, pend[w])
    /\ UNCHANGED <<up, db, ack, check, link, sb, budget>>

\* The process ends between any two steps: what was committed stays, what was not
\* logged never will be, and the acknowledgements are forgotten.
Crash ==
    /\ up
    /\ Spend("crash")
    /\ up' = FALSE
    /\ pend' = [w \in Writers |-> NoOp]
    /\ ack' = 0
    /\ check' = NoCheck
    /\ UNCHANGED <<files, writer, db, journal, link, sb>>

Restart ==
    /\ ~up
    /\ up' = TRUE
    /\ Log!NewWriter
    /\ UNCHANGED <<db, pend, ack, check, journal, link, sb, budget>>

-----------------------------------------------------------------------------
\* CreateCheckpoint: read the acknowledged number ...
CheckpointAck ==
    /\ up
    /\ check.pc = "idle"
    /\ Spend("checkpoint")
    /\ check' = IF ack = 0 THEN NoCheck ELSE [NoCheck EXCEPT !.pc = "ranges", !.ack = ack]
    /\ UNCHANGED <<files, writer, up, db, pend, ack, journal, link, sb>>

\* ... read the files ...
CheckpointRanges ==
    /\ up
    /\ check.pc = "ranges"
    /\ check' = [check EXCEPT !.pc = "remove", !.ranges = Log!FileRanges]
    /\ UNCHANGED <<files, writer, up, db, pend, ack, journal, link, sb, budget>>

Obsolete_mutOneMore(f) == f # writer.file /\ check.ranges[f] <= check.ack + 1

\* A file may go if it is not the one being written, which is asked only now, and
\* if its last entry, as read before, has been acknowledged.
Obsolete(f) == f # writer.file /\ check.ranges[f] <= check.ack

\* ... and remove those that are no longer needed.
CheckpointRemove ==
    /\ up
    /\ check.pc = "remove"
    /\ files' = {e \in files : ~ (e.file \in DOMAIN check.ranges /\ Obsolete(e.file))}
    /\ check' = NoCheck
    /\ UNCHANGED <<writer, up, db, pend, ack, journal, link, sb, budget>>

-----------------------------------------------------------------------------
\* Standbys.  An RPC succeeds if the primary runs and the network carries it.
Reachable(s) == up /\ s \in link

\* Start: if the first connection fails, neither loop is ever started.
Connect(s) ==
    /\ sb[s].loop = "new"
    /\ sb' = [sb EXCEPT ![s].loop = IF Reachable(s) THEN "running" ELSE "dead"]
    /\ UNCHANGED <<primaryVars, link, budget>>

Poll_mutLagsBehind(s) ==
    /\ sb[s].loop = "running"
    /\ sb[s].role = "standby"
    /\ sb[s].pc = "idle"
    /\ sb[s].last > 0 => Reachable(s) /\ sb[s].last + 1 < writer.seq
    /\ sb' = [sb EXCEPT ![s].pc = "fetch"]
    /\ UNCHANGED <<primaryVars, link, budget>>

Poll_mutAlwaysAsks(s) ==
    /\ sb[s].loop = "running"
    /\ sb[s].role = "standby"
    /\ sb[s].pc = "idle"
    /\ sb' = [sb EXCEPT ![s].pc = "fetch"]
    /\ UNCHANGED <<primaryVars, link, budget>>

\* syncOnce: look whether there is anything new.  A standby that has replayed nothing
\* (since it started) skips the question.
Poll(s) ==
    /\ sb[s].loop = "running"
    /\ sb[s].role = "standby"
    /\ sb[s].pc = "idle"
    /\ sb[s].last > 0 => Reachable(s) /\ sb[s].last < writer.seq
    /\ sb' = [sb EXCEPT ![s].pc = "fetch"]
    /\ UNCHANGED <<primaryVars, link, budget>>

WithInbox_mutKeepsReplaying(rec, entries) == [rec EXCEPT !.inbox = entries, !.pc = "replay"]

\* The standby with these entries still to replay.
WithInbox(rec, entries) ==
    [rec EXCEPT !.inbox = entries, !.pc = IF entries = {} THEN "idle" ELSE "replay"]

\* SyncWAL: the request acknowledges what has been replayed (all standbys go by the
\* same StandbyID) and asks for the rest.  promote may have closed the connection
\* since Poll and set the client to nil: the call then panics.
Fetch(s) ==
    /\ sb[s].loop = "running"
    /\ sb[s].pc = "fetch"
    /\ \/ /\ sb[s].role = "active"
          /\ sb' = [sb EXCEPT ![s].loop = "panicked", ![s].pc = "idle"]
          /\ UNCHANGED ack
       \/ /\ sb[s].role = "standby"
          /\ Reachable(s)
          /\ ack' = IF sb[s].last > 0 THEN sb[s].last ELSE ack
          /\ sb' = [sb EXCEPT ![s] = WithInbox(@, Log!ReadFrom(@.last + 1))]
       \/ /\ sb[s].role = "standby"
          /\ ~Reachable(s)
          /\ sb' = [sb EXCEPT ![s].pc = "idle"]
          /\ UNCHANGED ack
    /\ UNCHANGED <<files, writer, up, db, pend, check, journal, link, budget>>

Replayed_mutCountsFailures(rec, e) ==
    LET ok == Applicable(rec.db, e.op)
    IN  WithInbox([rec EXCEPT !.db = IF ok THEN After(@, e.op) ELSE @,
                              !.last = IF e.seq > @ THEN e.seq ELSE @,
                              !.seen = IF ok THEN @ \cup {e.seq} ELSE @],
                  rec.inbox \ {e})

\* replayEntry: an entry that cannot be applied ends this synchronisation.
Replayed(rec, e) ==
    IF Applicable(rec.db, e.op)
    THEN WithInbox([rec EXCEPT !.db = After(@, e.op),
                               !.last = IF e.seq > @ THEN e.seq ELSE @,
                               !.seen = @ \cup {e.seq}],
                   rec.inbox \ {e})
    ELSE WithInbox(rec, {})

Replay(s) ==
    /\ sb[s].loop = "running"
    /\ sb[s].pc = "replay"
    /\ \E e \in sb[s].inbox :
         /\ Log!First(e, sb[s].inbox)
         /\ sb' = [sb EXCEPT ![s] = Replayed(@, e)]
    /\ UNCHANGED <<primaryVars, link, budget>>

\* The stream breaks: only so many of the entries under way still arrive.
Drop(s) ==
    /\ sb[s].pc = "replay"
    /\ Spend("drop")
    /\ \E entries \in Log!Prefixes(sb[s].inbox) \ {sb[s].inbox} :
         sb' = [sb EXCEPT ![s] = WithInbox(@, entries)]
    /\ UNCHANGED <<primaryVars, link>>

-----------------------------------------------------------------------------
\* healthCheckLoop: a successful check resets the count of failures ...
Healthy(s) ==
    /\ sb[s].loop = "running"
    /\ sb[s].role = "standby"
    /\ Reachable(s)
    /\ sb[s].fails > 0
    /\ sb' = [sb EXCEPT ![s].fails = 0]
    /\ UNCHANGED <<primaryVars, link, budget>>

FailedCheck_mutNeverEnough(rec, entries) == [rec EXCEPT !.fails = IF @ < MaxFailures THEN @ + 1 ELSE @]

\* ... and one failure too many promotes the standby.  promote closes the connection
\* but does not wait for syncOnce, which goes on with the entries it still gets.
FailedCheck(rec, entries) ==
    IF rec.fails + 1 < MaxFailures
    THEN [rec EXCEPT !.fails = @ + 1]
    ELSE LET promoted == [rec EXCEPT !.fails = @ + 1, !.role = "active"]
         IN  IF rec.pc = "replay" THEN WithInbox(promoted, entries) ELSE promoted

Unhealthy(s) ==
    /\ sb[s].loop = "running"
    /\ sb[s].role = "standby"
    /\ ~Reachable(s)
    /\ \E entries \in Log!Prefixes(sb[s].inbox) : sb' = [sb EXCEPT ![s] = FailedCheck(@, entries)]
    /\ UNCHANGED <<primaryVars, link, budget>>

\* The standby's process starts again: its position is not stored.
Reboot(s) ==
    /\ Spend("reboot")
    /\ sb' = [sb EXCEPT ![s] = Fresh(sb[s].db, sb[s].seen)]
    /\ UNCHANGED <<primaryVars, link>>

\* The standby is set up anew, with an empty database.
Rebuild(s) ==
    /\ Spend("rebuild")
    /\ sb' = [sb EXCEPT ![s] = Fresh(NoStore, {})]
    /\ UNCHANGED <<primaryVars, link>>

\* The network between the primary and s fails, or works again.
Cut(s) ==
    /\ s \in link
    /\ Spend("cut")
    /\ link' = link \ {s}
    /\ UNCHANGED <<primaryVars, sb>>

Mend(s) ==
    /\ s \notin link
    /\ link' = link \cup {s}
    /\ UNCHANGED <<primaryVars, sb, budget>>

-----------------------------------------------------------------------------
Init ==
    /\ Log!WalInit
    /\ up = TRUE
    /\ db = NoStore
    /\ pend = [w \in Writers |-> NoOp]
    /\ ack = 0
    /\ check = NoCheck
    /\ link = Standbys
    /\ sb = [s \in Standbys |-> Fresh(NoStore, {})]
    /\ journal = <<>>
    /\ budget = Budget

SyncNext(s) == Poll(s) \/ Fetch(s) \/ Replay(s)
HealthNext(s) == Healthy(s) \/ Unhealthy(s)
CheckpointNext == CheckpointRanges \/ CheckpointRemove

Next ==
    \/ \E w \in Writers : LogEntry(w) \/ \E op \in Ops : Commit(w, op)
    \/ Crash \/ Restart \/ CheckpointAck \/ CheckpointNext
    \/ \E s \in Standbys : Connect(s) \/ SyncNext(s) \/ HealthNext(s) \/ Drop(s)
                            \/ Reboot(s) \/ Rebuild(s) \/ Cut(s) \/ Mend(s)

Spec == Init /\ [][Next]_vars

\* Goroutines run: the writers' appends, the two loops of a standby (every 2 s and
\* every health_check_interval), a checkpoint once begun.  Nobody is obliged to
\* restart the primary, mend the network or change the store.
Fairness ==
    /\ WF_vars(CheckpointNext)
    /\ \A w \in Writers : WF_vars(LogEntry(w))
    /\ \A s \in Standbys : WF_vars(Connect(s)) /\ WF_vars(SyncNext(s)) /\ WF_vars(HealthNext(s))

LiveSpec == Spec /\ Fairness

-----------------------------------------------------------------------------
\* Properties.

Standby == [db : [Keys -> Values \cup {Absent}], last : Nat, role : {"standby", "active"},
            loop : {"new", "running", "dead", "panicked"}, pc : {"idle", "fetch", "replay"},
            inbox : SUBSET Log!Entry, fails : 0..MaxFailures, seen : SUBSET (Nat \ {0})]

\* The variables have their types, and a standby in the middle of a replay has something
\* to replay.
TypeOK ==
    /\ Log!WalTypeOK
    /\ up \in BOOLEAN
    /\ db \in [Keys -> Values \cup {Absent}]
    /\ pend \in [Writers -> Ops \cup {NoOp}]
    /\ ack \in Nat
    /\ check.pc \in {"idle", "ranges", "remove"}
    /\ DOMAIN check.ranges \subseteq {e.file : e \in files}
    /\ link \subseteq Standbys
    /\ sb \in [Standbys -> Standby]
    /\ \A s \in Standbys : sb[s].pc = "replay" <=> sb[s].inbox # {}
    /\ journal \in Seq(Ops)
    /\ budget \in [Kinds -> Nat]

\* lastSyncSeq is a promise: a standby that says it has replayed up to n has replayed every
\* entry up to n, whatever was dropped, cut, checkpointed or restarted on the way.
NothingSkipped == \A s \in Standbys : \A n \in 1..sb[s].last : n \in sb[s].seen

\* The standby has nothing more to ask for: syncOnce returns at once.
Synced(s) ==
    /\ sb[s].role = "standby" /\ sb[s].pc = "idle"
    /\ sb[s].last > 0 /\ sb[s].last >= writer.seq

\* The record is changed by one goroutine only: there is no race for its place in the log.
OneWriter(k) == \A v, w \in Writers : k \in Owner[v] \cap Owner[w] => v = w

\* syncOnce stops asking once lastSyncSeq is not below the primary's sequence.  A standby
\* in that state has each such record as the primary has it, unless a change of it is still
\* to be logged.
SyncedMeansEqual ==
    \A s \in Standbys, k \in Keys :
       Synced(s) /\ OneWriter(k) /\ (\A w \in Writers : pend[w] # NoOp => pend[w].key # k)
          => sb[s].db[k] = db[k]

\* Such a standby has everything that has ever been logged: each record is as the last entry
\* about it says, whoever wrote it.
SyncedHasLog ==
    \A s \in Standbys : Synced(s) =>
       \A n \in 1..Len(journal) :
          (\A m \in n + 1..Len(journal) : journal[m].key # journal[n].key)
          => sb[s].db[journal[n].key] = journal[n].value

\* A standby's store is always the result of the first lastSyncSeq changes in the order in
\* which they were logged: files, rotation, clean-up, polls and broken streams implement a
\* log that is shipped entry by entry.
Shipping == INSTANCE LogShipping WITH
    log <- journal,
    replica <- [s \in Standbys |-> sb[s].db],
    pos <- [s \in Standbys |-> sb[s].last],
    Empty <- NoStore

ShipsLog == Shipping!Spec

\* Replication keeps up: a standby whose loops run and that has not taken over ends up with
\* everything the primary has logged, and with its store.
CatchesUp ==
    \A s \in Standbys :
       <>[](up /\ sb[s].loop = "running" /\ sb[s].role = "standby"
              => sb[s].last = writer.seq /\ sb[s].db = db)

\* Failover: a standby whose loops run takes over when the primary stays down.
FailsOver ==
    \A s \in Standbys :
       (~up /\ sb[s].loop = "running") ~> (up \/ sb[s].role = "active" \/ sb[s].loop # "running")

-----------------------------------------------------------------------------
\* What comments and documents say and the code does not keep (each is violated).

\* "After the promotion the standby stops synchronising."
PromotedStopsReplaying ==
    [][\A s \in Standbys : sb[s].role = "active" /\ sb'[s].role = "active"
                              => sb'[s].db = sb[s].db]_vars
=============================================================================
