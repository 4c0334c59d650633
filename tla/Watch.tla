-------------------------------- MODULE Watch --------------------------------
(***************************************************************************)
(* The event bus (scheduler/internal/events) and WatchJob, for one job.     *)
(* SubmitJob, CancelJob and the handlers that settle the job save its       *)
(* status and then publish it, in two steps; WatchJob sends the status as   *)
(* it is and then subscribes, in two steps. A subscriber has a channel of   *)
(* Cap events and an ID that is the time of its subscription.               *)
(***************************************************************************)
EXTENDS Naturals, Sequences, FiniteSets

CONSTANTS
    Publishers, \* the calls that change the job's status, each once
    Watchers,   \* the calls of WatchJob
    Times,      \* the readings of the clock that make the IDs of subscribers, from 1 on
    Verdicts,   \* the statuses that settling or cancelling the job may give it
    Cap         \* how many events a channel holds (64 in the code)

Statuses == {"Pending", "Completed", "Failed", "Cancelled"}

None == "none"

ASSUME WatchAssumption ==
    /\ None \notin Watchers
    /\ Times # {} /\ Times \subseteq Nat \ {0} /\ Cap \in Nat \ {0}
    /\ Verdicts # {} /\ Verdicts \subseteq Statuses \ {"Pending"}

VARIABLES
    job,       \* the status in the store, or "Absent"
    publisher, \* per publisher, where it is, the status it writes, and the watchers left to tell
    watcher,   \* per watcher, where its WatchJob is
    id,        \* per watcher, its subscriberID, or 0
    subs,      \* the bus: per ID, the watcher whose channel is subscribed
    channel,   \* per watcher, the publishers whose events are in its channel
    closed,    \* watchers whose channel is closed
    sent,      \* per watcher, the last status sent to its client
    told,      \* per watcher, the publishers whose events were sent
    missed     \* and those whose events found its channel full

busVars == <<subs, channel, closed>>
watchVars == <<job, publisher, watcher, id, busVars, sent, told, missed>>

GoesTo(w, pc) == watcher' = [watcher EXCEPT ![w] = pc]

\* Publish holds the read lock, under which it goes through the subscribers.
Publishing == \E p \in Publishers : publisher[p].pc = "publishing"

-----------------------------------------------------------------------------
\* The first publisher is SubmitJob; the others cancel the job or settle it, whatever its status.
Save(p) ==
    /\ publisher[p].pc = "idle"
    /\ \E s \in IF job = "Absent" THEN {"Pending"} ELSE Verdicts :
         /\ job' = s
         /\ publisher' = [publisher EXCEPT ![p] = [pc |-> "saved", status |-> s, left |-> {}]]
    /\ UNCHANGED <<watcher, id, busVars, sent, told, missed>>

Publish(p) ==
    /\ publisher[p].pc = "saved"
    /\ publisher' = [publisher EXCEPT ![p].pc = "publishing",
                                      ![p].left = {w \in Watchers : \E i \in Times : subs[i] = w}]
    /\ UNCHANGED <<job, watcher, id, busVars, sent, told, missed>>

\* A subscriber whose channel is full is passed over.
Offered_mutBlocks(w, p) ==
    Len(channel[w]) < Cap /\ channel' = [channel EXCEPT ![w] = Append(@, p)] /\ UNCHANGED missed

Offered(w, p) ==
    IF Len(channel[w]) < Cap
    THEN channel' = [channel EXCEPT ![w] = Append(@, p)] /\ UNCHANGED missed
    ELSE missed' = [missed EXCEPT ![w] = @ \cup {p}] /\ UNCHANGED channel

Offer(p) ==
    /\ publisher[p].pc = "publishing"
    /\ \E w \in publisher[p].left :
         /\ Offered(w, p)
         /\ publisher' = [publisher EXCEPT ![p].left = @ \ {w}]
    /\ UNCHANGED <<job, watcher, id, subs, closed, sent, told>>

Published(p) ==
    /\ publisher[p].pc = "publishing" /\ publisher[p].left = {}
    /\ publisher' = [publisher EXCEPT ![p].pc = "done"]
    /\ UNCHANGED <<job, watcher, id, busVars, sent, told, missed>>

-----------------------------------------------------------------------------
\* WatchJob sends the status that it reads, unless there is no job or no client any more ...
Snapshot(w) ==
    /\ watcher[w] = "idle"
    /\ \/ /\ job # "Absent"
          /\ sent' = [sent EXCEPT ![w] = job]
          /\ GoesTo(w, "subscribe")
       \/ GoesTo(w, "gone") /\ UNCHANGED sent
    /\ UNCHANGED <<job, publisher, id, busVars, told, missed>>

\* ... and subscribes: whoever had the same ID is subscribed no more.
Subscribe(w) ==
    /\ watcher[w] = "subscribe" /\ ~Publishing
    /\ \E i \in Times :
         /\ id' = [id EXCEPT ![w] = i]
         /\ subs' = [subs EXCEPT ![i] = w]
    /\ GoesTo(w, "watching")
    /\ UNCHANGED <<job, publisher, channel, closed, sent, told, missed>>

Receive(w) ==
    /\ watcher[w] = "watching" /\ channel[w] # <<>>
    /\ channel' = [channel EXCEPT ![w] = Tail(@)]
    /\ \/ /\ sent' = [sent EXCEPT ![w] = publisher[Head(channel[w])].status]
          /\ told' = [told EXCEPT ![w] = @ \cup {Head(channel[w])}]
          /\ UNCHANGED watcher
       \/ GoesTo(w, "leaving") /\ UNCHANGED <<sent, told>>
    /\ UNCHANGED <<job, publisher, id, subs, closed, missed>>

\* The client's context ends.
Leave(w) ==
    /\ watcher[w] = "watching"
    /\ GoesTo(w, "leaving")
    /\ UNCHANGED <<job, publisher, id, busVars, sent, told, missed>>

\* A channel that was closed, and is empty, ends the stream.
Closed(w) ==
    /\ watcher[w] = "watching" /\ w \in closed /\ channel[w] = <<>>
    /\ GoesTo(w, "ended")
    /\ UNCHANGED <<job, publisher, id, busVars, sent, told, missed>>

Removed_mutKept(i) == UNCHANGED subs

Removed_mutAll(i) == subs' = [j \in Times |-> None]

Removed(i) == subs' = [subs EXCEPT ![i] = None]

\* Unsubscribe closes the channel that is subscribed under the ID, if any.
Unsubscribe(w) ==
    /\ watcher[w] \in {"leaving", "ended"} /\ ~Publishing
    /\ GoesTo(w, IF watcher[w] = "leaving" THEN "gone" ELSE "cut")
    /\ IF subs[id[w]] = None THEN UNCHANGED busVars
       ELSE closed' = closed \cup {subs[id[w]]} /\ Removed(id[w]) /\ UNCHANGED channel
    /\ UNCHANGED <<job, publisher, id, sent, told, missed>>

-----------------------------------------------------------------------------
WatchInit ==
    /\ job = "Absent"
    /\ publisher = [p \in Publishers |-> [pc |-> "idle", status |-> "Pending", left |-> {}]]
    /\ watcher = [w \in Watchers |-> "idle"]
    /\ id = [w \in Watchers |-> 0]
    /\ subs = [i \in Times |-> None]
    /\ channel = [w \in Watchers |-> <<>>]
    /\ closed = {}
    /\ sent = [w \in Watchers |-> None]
    /\ told = [w \in Watchers |-> {}]
    /\ missed = [w \in Watchers |-> {}]

Writing(p) == Publish(p) \/ Offer(p) \/ Published(p)

Watching(w) == Subscribe(w) \/ Receive(w) \/ Closed(w) \/ Unsubscribe(w)

WatchNext ==
    \/ \E p \in Publishers : Save(p) \/ Writing(p)
    \/ \E w \in Watchers : Snapshot(w) \/ Leave(w) \/ Watching(w)

WatchSpec == WatchInit /\ [][WatchNext]_watchVars

\* Handlers and calls are goroutines: what they have begun they go on with.
WatchLiveSpec ==
    /\ WatchSpec
    /\ \A p \in Publishers : WF_watchVars(Writing(p))
    /\ \A w \in Watchers : WF_watchVars(Watching(w))

-----------------------------------------------------------------------------
WatchTypeOK ==
    /\ job \in Statuses \cup {"Absent"}
    /\ publisher \in [Publishers -> [pc : {"idle", "saved", "publishing", "done"}, status : Statuses,
                                     left : SUBSET Watchers]]
    /\ watcher \in [Watchers -> {"idle", "subscribe", "watching", "leaving", "ended", "gone", "cut"}]
    /\ id \in [Watchers -> Times \cup {0}]
    /\ subs \in [Times -> Watchers \cup {None}]
    /\ \A w \in Watchers : channel[w] \in Seq(Publishers) /\ Len(channel[w]) <= Cap
    /\ closed \subseteq Watchers
    /\ sent \in [Watchers -> Statuses \cup {None}]
    /\ told \in [Watchers -> SUBSET Publishers]
    /\ missed \in [Watchers -> SUBSET Publishers]

\* A channel that the bus may still send on, or close, is open: otherwise a handler, or a call,
\* would panic. Two subscribers with one ID must not get there either: the second takes the
\* place of the first, and whoever leaves first closes the one channel that is there.
OnlyOpenChannels ==
    \A w \in Watchers :
        (\E i \in Times : subs[i] = w) \/ (\E p \in Publishers : w \in publisher[p].left) => w \notin closed

OwnId(w) == \A v \in Watchers \ {w} : id[v] # id[w]

\* A watcher that is subscribed, under an ID of its own, when a status is about to be published
\* is sent it, unless its client leaves or its channel is full: whoever else leaves, this is
\* what the bus promises.
Hears ==
    \A w \in Watchers, p \in Publishers :
        (watcher[w] = "watching" /\ OwnId(w) /\ publisher[p].pc = "saved")
            ~> (p \in told[w] \cup missed[w] \/ watcher[w] # "watching" \/ ~OwnId(w))

\* No publisher is held up by a watcher that has stopped to read, and no watcher that leaves by a
\* publisher: Publish never waits for room under the lock that Unsubscribe needs. So in the end
\* nobody is left half way.
NobodyWaits ==
    <>[](/\ \A p \in Publishers : publisher[p].pc \in {"idle", "done"}
         /\ \A w \in Watchers : watcher[w] # "leaving")
=============================================================================
