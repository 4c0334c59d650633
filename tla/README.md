# A formal model of the computing-power scheduler

The repository lets the members of a trust network run each other's batch jobs. A **scheduler**
(`scheduler/`) keeps jobs, their stages and their units in BoltDB, decides which node runs which
unit, and hands the units to **agents** (`agent/`), which run them as containers and report back. A
second scheduler may follow the first as a hot standby. On desktops the agent lives in **cpstart**,
which also sets up containers under Windows and macOS. Everything runs concurrently: one goroutine
for the scheduling cycle, one per RPC, one per agent stream, one per running unit, and several
processes that fail independently.

This directory holds TLA+ modules that model that system, TLC configurations that check them on
small instances, and TLAPS proofs for every instance.

- [Inventory](#inventory)
- [Modules](#modules)
- [Runs](#runs)
- [Where the code and its documents disagree](#where-the-code-and-its-documents-disagree)
- [Where the properties end](#where-the-properties-end)
- [Fairness](#fairness)
- [Proofs](#proofs)
- [What is left out](#what-is-left-out)
- [Plan](#plan)

## Inventory

### The scheduling core

| part | source | state | operations |
|---|---|---|---|
| unit, job and stage records | `scheduler/internal/store/store.go` | BoltDB buckets `units`, `jobs` (stages live inside the job record) | one transaction per method: `SaveUnit`, `UpdateUnitStatus`, `SaveJob`, `UpdateJobStatus`, `UpdateStageStatus`, `Get*`, `ListUnitsBy*` |
| scheduling engine | `scheduler/internal/scheduler/{engine,assigner,dag}.go` | `pendingCommands`, `wakeCh`, the slice of units of the running cycle | `scheduleOnce` every 5 s or when woken, `AssignToNode` (pull), `PushCommand`, `PopCommands`, `ScheduleNow` |
| report handlers | `server.go: ReportUnitStatus, propagateUnitStatus, cancelDownstreamStages` | per stream: the unit and the job as read | receive, save, requeue or propagate to stage, downstream stages, job |
| job and node RPCs | `server.go: SubmitJob, CancelJob, UnregisterNode, AssignUnit, Heartbeat` | per call: what it read | as named |
| executor and reporters of the agent | `agent/internal/executor`, `agent/internal/heartbeat` | goroutines, the report stream; the containers live on in containerd | `HandleCommand`, `executeUnit`, `monitorContainer`, `cleanupContainer`, `Report`, heartbeat loop |

How they interact: the engine and all RPCs share only the store, the node registry, the command
queue and the wake-up channel. `scheduleMu` keeps two *cycles* apart and nothing else: no RPC takes
it. Each handler reads records in one transaction and writes whole records in a later one, so every
write is a potential lost update. Commands reach an agent in the response to its heartbeat and are
removed from the queue before the response is sent; reports travel on a stream of their own and
nobody acknowledges them to the executor.

What is hard here: check-then-write races between engine, handlers and RPCs; the two writes of one
failed report; late reports from a node that lost the unit; lost commands and reports; restarts of
either side; cascades that list first and cancel afterwards; retries that must neither run away nor
get lost; and the question whether a job ever ends. What makes it correct: a unit is on one node at
a time, runs only after its upstream stages, is retried at most `max_retries` times by reports; a job
that is reported `Completed` really is; every submitted job ends.

### The rest of the system

| component | source | state and operations | hard behaviour, and what makes it correct | module |
|---|---|---|---|---|
| write-ahead log, replication | `pkg/wal`, `store.go: walWrite`, `server/sync.go` | log files, sequence number, acknowledgement, checkpoints; append, rotate, read, ship, remove | the entry is written after the commit and outside its transaction; files are removed while a standby reads. A standby's store is the result of the first entries of the log. | `Wal`, `WalCodec`, `Replication`, `LogShipping` |
| standby failover | `server/standby.go` | role, last sequence, failed checks; connect, sync loop, health loop, promote | promotion beside a replay, broken streams, reboots. What it claims to have replayed it has; it takes over when the primary stays down. | `Replication` |
| registry, phi detector | `registry/registry.go`, `pkg/phidetector` | nodes with status, detectors with their statistics | a read lock held where a write lock is needed; underflow; times kept over restarts. A node that sends heartbeats is up, a silent one ends offline, nothing waits for itself over a node that is registered. | `NodeHealth` |
| registration, invites, IPAM | `server.go: RegisterNode, RedeemInviteCode, ...`, `ipam/ipam.go` | node, invite and address buckets | checks and writes in separate steps; a removal in four steps; machines without a fingerprint. No address is held twice, a code lets in no more than it may. | `Membership`, `AddressBook` |
| trust graph | `pkg/trustgraph/graph.go`, `server.go: DeclareTrust, RevokeTrust, pruneExpiredTrust` | edges in memory and in the store | memory and store change in two steps; the depth bound of the search. Memory and store say what the owner was told; trust rests on chains. | `Trust`, `TrustPath` |
| lists in pages | `server.go: ListJobs, ListNodes` | a token held by the client | the list changes between pages. Nothing is missed. | `Listing` |
| event bus, WatchJob | `events/bus.go`, `server.go: WatchJob` | subscribers with bounded channels | closing and sending; full channels; subscriptions between a save and its event. | `Watch` |
| cpstart's runner | `cpstart/agent/runner.go`, `cpstart/server/handlers.go`, `cmd/cpstart` | the agent's run, its status, settings | a run that ends beside one that starts; the end of the program. | `AgentRunner` |
| cpstart's setups | `cpstart/wsl2`, `cpstart/macos` | status of a setup, proxies, what is installed | steps that fail with a warning, or hang; several setups and proxies. | `Wsl2Setup`, `MacSetup` |
| overlay network | `agent/internal/nebula`, `agent/internal/core` | files, the nebula process | agents that follow each other on the same files; a stop beside a start. | `Overlay` |
| job model and splitting | `pkg/taskmodel`, `server/split.go` | none (pure) | ranges, topological order | in part: `Engine` (`Sortable`) |
| certificates, CA | `ca/`, `server/mtls.go`, `pkg/certutil` | revoked serials, key material | mostly library code | |
| GPU slices | `agent/internal/container/{hami,gpu}.go` | reservations | error paths | |
| updater | `pkg/updater` | binary, backup | a crash between rename and backup | |
| CLI, configuration, protobuf, project server, UI, deployment, clean-up tool | `cli`, `pkg/config`, `api`, `proto`, `project-server`, `deploy`, `cmd/cleanup_db` | none of interest | thin clients, generated code, tools run by hand | |

These components meet the core in few places: the registry gives the engine its nodes (`Engine` and
`Scheduler` have a status per node that a detector may change at any time, and a restart that puts
nodes back, which is what `NodeHealth` models in detail); the log takes what the store commits; the
trust graph narrows `Fits`; the bus is told when a handler has settled a job. Apart from that they
have their own records, their own locks and their own RPCs, and no handler of one writes what
another reads. They are therefore modelled one by one.

## Modules

```
UnitStore <- Engine <- UnitReports <- AgentExec <-+
                    <- JobControl <---------------+- Scheduler (..> UnitLife) <- Claims <- MCScheduler
                                                          ^
                                                          +- SchedulerProofs <- DagProofs, ExecutionProofs

Wal <.. Replication (..> LogShipping)
Replication, Watch, WalCodec <- ReplicationProofs, MCShipping
Membership (..> AddressBook), Listing <- MembershipProofs;  Trust, TrustPath <- TrustProofs
Membership, TrustPath, Trust, Listing <- MCMembers ..> Membership
NodeHealth <- NodeHealthProofs, MCFailures ..> Replication
Services (..> AgentRunner, Wsl2Setup, MacSetup, Overlay) <- ServicesProofs
Services <- MCServices ..> Wsl2Setup
```

A solid arrow is an `EXTENDS`, a dotted one an `INSTANCE`; in parentheses a refinement, or the
parts that a module puts side by side.

### The core

**UnitStore** has a variable per kind of record: `units` (status, `AssignedNode`, `RetryCount`), `job`,
`stage`, and `ripe`, which stands for the clock: the failed units whose `CompletedAt` is at least
`reassignDelay` old. What never changes after submission (which stage a unit belongs to, what a stage
depends on, whether the job is a workflow) is constant. Every method is one transaction, hence one
operator; a handler that calls two of them takes two steps. As in the code, no write checks the
status it overwrites.

**Engine** follows `scheduleOnce`. `eng.pc` is where the cycle is, `eng.stale` the active units it
listed for reclaiming, `eng.batch` the copies it listed for scheduling, `eng.left` the jobs still to
visit, `eng.todo`/`eng.victims` the stages and units to skip, `eng.ready` the units to assign,
`eng.pick` the unit between the re-check in `assignUnit` and its save. Splitting there is the point:
everything else runs in between.

| action | code |
|---|---|
| `WakeUp`, `Tick` | the `select` of `Start`; both begin a cycle by listing the active units |
| `ReclaimUnit` | one iteration of `reclaimStaleUnits` |
| `ListPending`, `ListRetryable` | steps 1 and 2 of `scheduleOnce` |
| `VisitJob` | `GetJob`, the status check, `scheduleJob`/`scheduleWorkflow` up to the first write |
| `SkipStage`, `SkipUnit` | `skipStageAndUnits` |
| `PickNode`, `AssignUnit` | `assignUnit` before and after its check |
| `PullList`, `PullChoose`, `PullSave` | `AssignToNode`, in the goroutine of the RPC |

Which node wins is left open (any that passes the filters, constant `Fits`): scoring affects no
property here. The order of jobs, stages and units within a cycle is left open too.

**UnitReports** has a FIFO of reports per node and one handler record per node: `snap` is the unit
as read, with the reported status; `view` the stages as read with the job; `new` the verdict on the
stage. `SaveReport` and `Requeue` are the two `SaveUnit` calls of one failed report; `ReadJob` to
`Settle` are `propagateUnitStatus` with `cancelDownstreamStages` in the middle.

**AgentExec** follows a command: `spawned` (the goroutine exists), `launching` (it has reported
Running), `box` (the container). `Heartbeat` fetches the queue, `LoseCommands` does so in vain. A
container's ID is its unit's, so a second launch on the same node fails while the first is there;
containers survive `AgentRestart` as `orphan`.

**JobControl** has `SubmitJob`, `CancelJob` and `UnregisterNode`, each split at its transactions.

**Scheduler** interleaves all of it and adds the failure detector (`Flap`), time (`Delay`) and the
restart of the scheduler process (`Restart`: the store survives, everything in memory does not).
`Budget` bounds how often each of ten kinds of event may happen: `flap` (status changes by the
detector), `cancel`, `pull`, `unregister`, `crash` (scheduler), `lose` (a response with commands, or
the tail of a report stream), `agent` (agent restart), `refuse` (a launch fails on its own), `submit`
(`SubmitJob` fails halfway), `delay` (`reassignDelay` elapses for a unit). `done` is a history
variable: the units the store has ever held as Completed. **Claims** states two promises that the code
does not keep.

**UnitLife** is what all of this is to achieve for one unit: a node takes it when nobody has it, puts it
down, and only then it is counted as retried, completed, or taken by another. `Scheduler!Life` is the
refinement mapping: the node that has a unit is the one with an execution of it (`Holder`: a command in
the queue, a goroutine or a container), its tries are the `RetryCount` of the store, completed is `done`.

### Replication

**Wal** has the log (`files`, the set of the entries in the directory, each with its file) and the writer. A
file is emptied when it is opened and its writer only counts up, so the entries lie in it by their numbers
and the set says all there is to say; `Before` is the order in which a reader gets them. `NewWriter` begins
with file 1 and entry 1, as the code does, whatever there is. `ReadFrom`, `FileRanges` are the reader.
**WalCodec** looks inside one file: entries as header, key, data and checksums of certain lengths
(`WriteEntry`), a last write cut at any byte (`Tear`), and the loop of `ReadAll`, which loads the file once
(`Load`) and takes an entry a turn (`ReadEntry`), with each of its length checks (`Needs`, `Truncated`).

**Replication** has writers that commit (`Commit`) and append (`LogEntry`) in two steps; the
checkpointer, `CheckpointAck`, `CheckpointRanges` and `CheckpointRemove` being its three looks at the
world; and standbys, whose `syncOnce` is `Poll` (read `lastSyncSeq`), `Fetch` (the primary records the
acknowledgement and answers) and one `Replay` per entry; `SyncWAL` sends at most 100 entries at a time
and reads the log again in between, which here is one reading; `Healthy`, `Unhealthy` are the health loop with
`promote`. Faults: the primary stops and starts again, a standby reboots or is set up anew, a stream
breaks in the middle, the network is cut and mended. `journal` is a history variable.

**LogShipping** is what this is to achieve: one log, and replicas that are the result of its first
entries. `Replication!Shipping` is the refinement mapping: the log is `journal`, a replica's position its
`lastSyncSeq`.

### Services of the scheduler

**NodeHealth** counts time in heartbeat intervals. A detector has the number of samples (up to
`MinSamples`), whether its cached statistics are out of date (`dirty`) and the time since the last
heartbeat; `phi` is a table by that time (`PhiAt`, any monotone one), with the constant that the code
returns once the probability underflows. Each operation is one step, as the registry holds its lock
throughout, with one exception: `StatsHang`, the goroutine that waits for itself. That happens over a detector
that has heard a heartbeat since anybody asked it for phi (`Stale`). A removal (`Unregister`) leaves the
agent of the node running, as `UnregisterNode` does, so that its heartbeats go on.

**Membership** has a step per access of `RegisterNode` and what it calls to the store: `Begin` (look for the
fingerprint), `Validate` (the first node, the admin key or a code), `ReadInvite`, `SaveInvite`, `Recheck`,
`Allocate` (under `IPAM.mu`), `Register` (memory), `Save`, or `SaveFails` with its roll-back; `Unregister`,
`Release`, `Delete` of `UnregisterNode`. `NoFingerprint` is the empty string that an agent sends if it
cannot read its host name (`core/agent.go:239` ignores the error): such a call finds no record, neither in
`Begin` nor in `Recheck` (`HasRecord`). An ID that is given out is a fresh one; `generateNodeID` takes the
time modulo 100 s and eight letters of the name, so it could come again, which is left out. **AddressBook**
is the abstract specification: members join with an address of their own and keep it.

**Trust** has the graph in memory and the bucket, and `DeclareTrust`, `RevokeTrust` and the expiry sweep
in a step per access, with the roll-backs of failed writes; `promised` is what the owner of an edge was
last told. **TrustPath** is the breadth-first search of `IsReachable`, one node of the queue per step,
with the targets in the order of a Go map, i.e. any.

**Listing** is a client that walks through pages while the list changes. **Watch** is one job's events:
publishers that save a status and publish it (`Save`, `Publish`, one `Offer` per subscriber under the read
lock), watchers that take a snapshot, subscribe, receive and leave; `Subscribe` and `Unsubscribe` wait for
publishers.

### The desktop program and the agent's network

**AgentRunner** has the runs of the agent: `Runner.Start` and `Stop` under the mutex, the goroutine of a run
from `Begin` to `Close` without it; the handlers that save settings, stop and start (`Change`,
`RequestStops`, `RequestStarts`); and `main` with its shutdown, which stops the latest run and waits for the
latest run, whichever these are. **Wsl2Setup** is the automator with its six steps, the proxies with
`socat`, the fast path of `main` and its end; `machine` is what the commands have done to the computer, so
that "the step says done" and "it is done" can differ. Every command without a time limit may also hang for
good (`Hang`), and containerd may end at any time (`ContainerdEnds`). **MacSetup** is the same for Homebrew
and Colima, with the two automators there are. **Overlay** is the nebula manager of every agent that is made
one after another: `Configure` writes four files one by one, `Start` reads them, `Stop` waits with a limit,
`Monitor` sees the process end. **Services** has one of each beside the others, as they are on the machine
of a member, and states their properties together.

## Runs

Twelve runs; a cfg's first lines say what its instance is. `MCScheduler` names instances of `Scheduler`. The
other MC modules each put several components, or instances of one, beside each other: a variable `part` says
which of them a behaviour is about, and the rest stands still. The components of one MC module have no
variable in common, so that interleaving them would only multiply their states; a property of one of them
holds of all behaviours if it holds of those. Some properties are about one instance only (`part = "..."
=>`), where the others have faults that the property does not survive; these limits are listed
[below](#where-the-properties-end).

| run | module | distinct states | properties |
|---|---|---|---|
| `single_execution` | `MCScheduler` | 0.43 M | `SingleExecution`, `KeepsUnitLife` |
| `retry_bound` | `MCScheduler` | 1.6 M | `RetryBound` |
| `completed_jobs` | `MCScheduler` | 1.3 M | `TypeOK`, `CompletedJobIsDone` |
| `settles` | `MCScheduler` | 47 k | `DagOrder`, `Settles` |
| `failures` | `MCFailures` | 344 k | `TypeOK`, `LiveNodeIsUp`, `HangsOnlyOverRemoved`, `RecoversByHeartbeat`, `DeadNodeGoesOffline`, `CatchesUp`, `FailsOver` |
| `shipping` | `MCShipping` | 264 k | `TypeOK`, `NothingSkipped`, `SyncedMeansEqual`, `SyncedHasLog`, `ShipsLog`, `ReadsWholeEntries`, `OnlyOpenChannels`, `Hears`, `NobodyWaits` |
| `services` | `MCServices` | 143 k | `TypesOK`, `AgentsInTurn`, `StatusIsOneSetup`, `OwnFiles`, `StopEndsOverlay`, `SetupEnds`, `ProgramEnds` |
| `members` | `MCMembers` | 232 k | `TypesOK`, `AdmittedInTurn`, `OneNodePerMachine`, `KeepsAddressBook`, `Sound`, `Complete`, `WordIsKept`, `OnlyDeclared`, `ExpiredEdgesGo`, `NothingMissed` |
| `cancel_race` | `MCScheduler` | violated | `CancelCascades` |
| `exhausted_unit` | `MCScheduler` | violated | `ReclaimedUnitIsRetried` |
| `replay_after_promotion` | `MCFailures` | violated | `PromotedStopsReplaying` |
| `lost_change` | `MCServices` | violated | `ChangeTakesEffect` |

### What they show, and within which bounds

**Core.** Two nodes give two report handlers, which with the engine, one pull, one cancellation and one
unregistration is every pair of processes that can race. Two units in a stage are the least for which a
verdict depends on another report; two stages the least with a dependency. A retry limit of 1 or 2
separates "first", "again" and "no more" (the code never runs with less than 1: `New` turns 0 into 3).
Each fault happens at most once in a run; the proofs have no such bound. Deadlock is checked in these
runs: the ticker always fires, so there is none.

- `SingleExecution`: a unit is never with two nodes, nor twice with one, through restarts of scheduler and
  agent, a lost message and a failed launch, the restart between the two saves of one failed report
  included, where the engine's own retry takes over. `KeepsUnitLife` (the refinement of `UnitLife`) says how
  that goes together with the retries, step by step: a retry is counted only while no node has the unit, no
  unit changes hands without having been put down, and a completed one is never given out or retried again.
  No stale copy undoes a retry either, which is all that `RetryMonotone` says.
- `RetryBound`: `RetryCount` stays within `max_retries` in the store and in every copy about to be saved. A
  behaviour has an unregistration, a pull and a delay that may elapse at any time, or an
  unregistration, a pull, a cancellation and a submission that fails halfway.
- `CompletedJobIsDone`: a job is Completed only if each of its units has been, whatever two handlers and the
  engine overwrite, with a node that goes offline and comes back.
- `DagOrder`: no unit of a workflow is handed out before its upstream stages have completed. `Settles`: every
  submitted workflow ends, through retries, time-outs and the cascade to the stage downstream.

**Replication.** Two keys, one of them a job, and two writers; files of two entries, so that three writes
rotate; two failed checks for a promotion. In `shipping` one writer works on both keys and one on the job
only, with a broken stream, a cut and a checkpoint: `ShipsLog`, the refinement; `NothingSkipped`, what a
standby claims to have replayed it has; `SyncedHasLog`, a standby that has nothing more to ask for has each
record as the last entry about it says; and `SyncedMeansEqual`, it has it as the primary does, if one writer
writes it. In `failures`, `interrupted` (a broken stream or a restart of the standby, a checkpoint and a
partition) is the instance of `CatchesUp`, `outages` (crash, partition, broken stream, reboot, a standby set
up anew) that of `FailsOver`. A checkpoint that removed one file too many, a replay that counted a failed
entry, or a poll that started one entry off is found there. `codec`, in `shipping`, is a log file of two
entries, cut at any byte and loaded at any moment: `ReadsWholeEntries`, a reader gets the entries in order,
and if it returns it has got all that were whole in what it loaded, and only these. The lengths are chosen
around those that the reader's checks compare with. `Values` has one element: what is written where, not
what the value is, is what can go wrong, since saves and deletes alternate.

**Registry** (`health`, in `failures`). Two nodes, a window of two samples, a phi that is normal for one
interval, suspect for two, certain for three and underflows at four. One restart, one agent that stops, two
registrations, one removal, of any node at any time. `HangsOnlyOverRemoved`: a detector gets stale only by a
heartbeat of a node that is not registered, and a goroutine waits for a lock it holds only over a stale
detector; so over nodes that are registered the registry never hangs. `LiveNodeIsUp`: a node that sends its
heartbeats is not offline. `RecoversByHeartbeat`: silence alone never makes a node available again.
`DeadNodeGoesOffline`: a silent node ends offline, although phi is stuck below twice the threshold once the
probability has underflowed, unless the registry hangs.

**Watch.** Part of `shipping`: two publishers and two watchers, a channel of one event (64 in the code: what
matters is that it is full), IDs that may coincide. `OnlyOpenChannels`: nothing is sent on or closed a
second time once it is closed, even with one ID for two watchers. `Hears`: a subscribed watcher gets every
event, unless its channel is full. `NobodyWaits`: a watcher that does not read holds up nobody.

**Members.** `at_once`: three calls of three machines, two of them without a fingerprint, in any overlap,
with a restart, an expiring code and a failing disk at any moment; two addresses, so that they run out.
`KeepsAddressBook` (the refinement) is checked there. `in_turn`: one call at a time, a machine that
registers twice, a code shared by two, two removals, an expiry: `AdmittedInTurn`, as long as no two calls
overlap a code lets in no more than it may, and only one of the nodes of the cluster got in as its first;
`OneNodePerMachine`, in all instances: a machine that sends a fingerprint has one record. `search`: every
graph of four nodes, any order of targets, a bound of two: `Sound`, a yes rests on a chain of live
declarations; `Complete`, a no that the bound did not force means that there is no chain. `trust`: five
calls, a sweep, failing writes and two restarts in any overlap: `WordIsKept`, as long as one handler or
sweep runs at a time and no write fails (`Calm`), memory and store say what the owner was told;
`OnlyDeclared`, nothing but a declaration of that edge makes it trusted; `ExpiredEdgesGo`, an expired edge
leaves the store. `walk`: five items and pages of two or three: `NothingMissed`, a client that reads all
pages is sent what was in the list all the time.

**Console.** In the run `services`, `agent`: two changes of settings and the shutdown, in any overlap,
registrations that fail, a disk that fails; three runs of the agent, so that a change can find one that ends
and one that begins. `AgentsInTurn`: one agent works at a time and no channel is closed twice, unless a run
was `Overtaken`. `asked` (a request with another name for the distribution, beside the setup that main may
start) and `wsl2` (two distributions), with commands that fail or hang: `StatusIsOneSetup`, also on macOS
(`macos`), the status of an ended setup is that of one setup. `overlay`: three agents one after the other:
`OwnFiles`, nebula reads the files of one registration; `StopEndsOverlay`, it does not outlive its agent.
`SetupEnds`: a setup ends and can be asked for again, unless a command hangs. `ProgramEnds`: after a signal
the program ends, unless it waits for another run of the agent than the one it has stopped, or a run was
overtaken.

Deadlock is checked for `MCScheduler` only. Elsewhere budgets run out, calls end, programs stop.

Every property has a mutation of the code in the modules (`..._mut...`) that violates it in its run: an
off-by-one in the retry test or the pages, a retry delay that is ignored, a dependency test that only
asks for "not failed", a verdict that forgets time-outs, a job that is not read again after the
cascade, a detector that keeps its old time, a publisher that waits for room, an address search that
skips the first, a signature that any key satisfies, a Start that overlooks a starting agent, a phi that
leaves the statistics out of date.

## Where the code and its documents disagree

Each is a run whose only property is the promise, and TLC's shortest counterexample.

- `cancel_race` / `CancelCascades`. `server.go:525` ("cascades to all units and stages") and
  `docs/阶段性任务清单.md:128` (job status changes are transactional). The engine re-checks the unit,
  `CancelJob` cancels it, the engine saves it as Assigned: the job is Cancelled and its unit runs.
- `exhausted_unit` / `ReclaimedUnitIsRetried`. `server.go:330` and `engine.go:213` say a reclaimed unit
  goes through the normal retry mechanism. `reclaimNodeUnits` lists a running unit, the unit fails
  and is requeued with its last retry, the write marks it Failed: its count is used up, so the engine
  never takes it, and nobody propagates the failure. Its stage stays open.
- `replay_after_promotion` / `PromotedStopsReplaying`. `docs/项目操作部署手册.md:454`: the standby stops
  synchronising and becomes active. `promote` does not wait for `syncOnce`, which goes on with the
  entries it has received: they overwrite what the new primary writes, and as the store is still in
  replay mode the new primary logs nothing.
- `lost_change` / `ChangeTakesEffect`. `handlers.go:329` restarts the agent so that the settings take
  effect. `Stop` only cancels, so `Start` finds the status running and returns; when the old run has
  ended, no agent is left.

## Where the properties end

What the properties above do not say, because it is not so. Each of these is a behaviour of the
modules, found when a bound or an assumption was lifted.

Core:
- `SingleExecution` needs a correct failure detector, no unregistration of a working node, no pull, and a
  retry delay that does not elapse *between the two saves of one failed report* (`Prompt`). Otherwise a
  unit can be handed out twice: a node declared offline whose container still runs; the copy that
  `AssignToNode` lists, without `scheduleMu`, and saves over the engine's assignment, which
  `analysis.md:30` lists as fixed; `loadRetryEligibleUnits` taking a unit between Failed and Pending.
- `CompletedJobIsDone` excludes `CancelJob`: a late report settles a cancelled job, whose skipped stages
  count as finished, as Completed. It is also about stages that do not depend on each other. A stage that
  is Skipped counts as finished, and a stage may be skipped on a verdict that is taken back: `a` and `b`
  upstream of `c`, the handler of `a` has saved a unit as Failed and not yet requeued it, the handler of
  `b` lists the units of both in between, finds `a` failed and skips `c`; `a` is retried and completes, and
  the job is Completed although `c` never ran. No fault is needed.
- `Settles` has one stage after the other: two stages that end at once each see the other open, and the
  job is never settled. It also has no faults: an agent that restarts after it fetched a command leaves
  the unit Assigned to an online node for good (`reclaimStaleUnits` only looks for offline ones), and so
  do a lost response and a lost report.
- `reclaimStaleUnits` overwrites a unit that has completed since it was listed, if its node went offline.

Replication:
- `SyncedMeansEqual` is about records with one writer and a primary that does not crash. Two writers of one
  record may commit in one order and log in the other; a crash between commit and append loses the entry.
- A primary that restarts breaks all of it: `NewWriter` empties `wal-000001.log` and counts from 1 again (so
  that the number is not "globally increasing", `wal.go:27`). What was logged and not fetched is gone, and a
  standby whose `lastSyncSeq` is not below the new number does not ask (`standby.go:126`): `SyncedHasLog`
  fails.
- `NothingSkipped` is about one standby, not set up anew: the acknowledgement is kept per name, all standbys
  call themselves `standby-1`, and a new one begins with what files are left.
- A standby that is restarted replays from the start, and `ShipsLog` does not survive that. It asks from 0,
  which `SyncWAL` does not record, so that its acknowledgement from before stays. If it replays old entries
  over newer records, the stream then breaks, and a checkpoint removes the rest by the old
  acknowledgement, its next request starts behind the gap: `SyncedMeansEqual` and `CatchesUp` fail, although
  `sync.go:187` says that a clean-up loses no entry that a standby has not replayed. `shipping` therefore has
  no restart of the standby, and `interrupted` either a broken stream or a restart.
- `FailsOver` and `CatchesUp` are about standbys whose loops run: one that cannot connect at its start has
  no loops, ever, and `promote` may set the client to nil right before `syncOnce` calls it, which panics.
- `ReadsWholeEntries` is about a reader that returns: a file that ends behind a key, or within the last
  four bytes of an entry, makes `UnmarshalWAL` index beyond its slice.

Services:
- `HangsOnlyOverRemoved` does not say that the registry never hangs: once a node was removed whose agent
  goes on, it does, and then no node is judged any more. `ReportHeartbeat` hands the heartbeat of an unknown
  node to the detectors first (`registry.go:154`), which make a detector and train it, and returns before
  `Phi`. The next `Stats` calls `Phi` under the read lock of the detector, and `Phi` then wants its write
  lock: this goroutine never goes on, nor does whoever needs the lock of the registry, which it holds. (The
  test "should be a no-op", `registry_test.go:111`, sends one such heartbeat and calls no `Stats`.) The
  model has all of it, and `HangsOnlyOverRemoved` says that this is the only way.
- `LiveNodeIsUp` is about the time before a restart of the scheduler or of an agent. Heartbeats are not
  stored, so the first detection after a restart takes a healthy node offline; and a node that registers
  again keeps its detector with the time of the last heartbeat before it was away.
- `Hears` begins with the subscription. A status saved after the snapshot and published before the
  subscription is never sent; two writers may publish in the other order than they saved; of two
  watchers with one ID only the second hears anything, and loses its channel when the first leaves.

Members:
- `AdmittedInTurn` is about calls one by one: two that overlap read the code before either has
  saved it, and both pass with a code for one use, or as the first node.
- `OneNodePerMachine` is about machines that send a fingerprint, do not register twice at the same time, and
  whose fingerprints differ (the agent sends its host name). An empty one is not looked up (`server.go:134`,
  `:1226`), and the agent ignores the error of `os.Hostname` (`agent.go:239`): a machine whose name cannot
  be read gets a record, an ID and an address with each registration. The model has such machines, two of
  three in `at_once`.
- `KeepsAddressBook` is about registrations. `UnregisterNode` releases the address before it deletes the
  record: a crash in between, or a re-registration that has read the record, leaves two nodes with one
  address. Without an IPAM (`main.go:218` goes on without one) `RegisterNode` panics.
- `Complete` does not say how far the search goes: the bound counts visited nodes and not steps
  (`graph.go:192`), so with the code's bound of 10 a chain of two is missed when the first node trusts ten
  others.
- `WordIsKept` is about handlers that do not overlap and writes that do not fail. A failed declaration takes an
  older one out of memory; a failed revocation puts an edge without end in its place; a revocation of an
  edge that only the store has is confirmed without a delete; a declaration that overlaps with a
  revocation stays in the store only; one renewed during a sweep is deleted.
- `NothingMissed` is about lists that nothing drops out of, and for nodes about one page: `ListNodes` cuts
  every page from another order, and `ListJobs` from a filtered list in which an offset moves.

Console:
- `AgentsInTurn` and `ProgramEnds` end where a run is `Overtaken`: its registration has failed, the status
  says error, a `Start` comes and begins the next run, and only then the deferred function of the first sets
  the status to stopped. From then on two agents may run at a time, a run may close the channel of another
  (it reads `r.done` in its own goroutine, `runner.go:106`), a channel may be closed twice, which ends the
  program, and another never, for which `main` waits for good.
- `ProgramEnds` also leaves out the request that starts an agent during the shutdown: `main` calls
  `runner.Stop` and `runner.Wait`, which has no limit, and stops the HTTP server afterwards (`main.go:208`).
  A change of settings in between starts an agent that nobody stops.
- `SetupEnds` leaves out a setup that hangs. The commands that query WSL, the import and its download, and
  what is run in the distribution have no time limit (`wsl2/automator.go:177` to `:403`; those that install
  packages have one), nor have those of macOS, and `Cancel` has no caller: `Running` then stays true, and
  every later `Start` is refused.
- A runtime that the proxy brings later is lost with the next start of the agent.
- A setup of WSL2 that is renamed fails in a distribution that was never installed: `run` reads the name
  again after the installation (`automator.go:230`), although it should count with the next `Start` only
  (`:65`). The fourth step takes the answer "not_configured" for "configured" (`:299`), so that nothing is
  ever configured. A setup that ended well does not mean that containerd runs: it may end at any time, and
  nothing notices. The fast path does not notice that there is no containerd; a proxy that is still probing
  outlives the program. On macOS main and the page have an automator each, so two setups run at once, and
  the page does not show main's.
- `StopEndsOverlay` and `OwnFiles` are about agents of the agent program, one after the other. cpstart may stop
  an agent before it starts nebula, which then runs on, and two agents that overlap mix their files.

## Fairness

All fairness is weak, of goroutines that the code starts unconditionally and that wait for nothing but
what the actions' guards say: once enabled, the next step of such a goroutine stays enabled until it is
taken. Nothing is assumed of the environment: jobs need not be submitted, faults need not happen, time
need not pass for a retry by delay.

| module | fair | because |
|---|---|---|
| `Scheduler` (`LiveSpec`) | the engine, each report handler, each agent's heartbeat, each execution, and `CancelJob`/`UnregisterNode` once begun | a goroutine with a ticker, a goroutine per stream, a loop with a timer, goroutines whose containers end (if only after the 24 hours of `monitorContainer`), RPC handlers |
| `Replication` | appending after a commit, the checkpointer's steps, a standby's connection, its sync loop and its health loop | the handler goes on; loops with tickers. A stream or a network that never works again is not excluded. |
| `NodeHealth` | time, the detection loop, running agents' heartbeats | tickers |
| `Watch` | publishers, and watchers once they have their snapshot | RPC goroutines; a client receives or leaves |
| `Trust` | the steps of the expiry sweep | a ticker, and a goroutine that goes on |
| `AgentRunner` | the goroutine of a run, handlers, `main` | what is cancelled returns |
| `Wsl2Setup`, `MacSetup` | setups, proxies, `main` | the goroutine of a setup goes on when a command has ended; a command without a time limit may hang instead, at any of its steps (`Hang`), and a setup that hangs has no step left. The proxy and the end of `main` run under contexts with time limits. |

## Proofs

TLAPS checks these for every value of the constants that satisfies the modules' `ASSUME`s and the
assumption of the theorem, in particular for any number of nodes, units, calls and faults.

- `SchedulerProofs`: `TypeCorrect`, `Spec => []TypeOK`. One lemma per component, one step per action. The
  assumptions are those of `UnitStore`, `Engine`, `AgentExec` and `Scheduler`: the constants have their
  types, there is a unit, a stage depends on stages of its own job.
  `RetryCountBounded`, `Spec => []RetryBound`. Not inductive by itself: `Requeue` writes
  a count one above the one in the handler's copy. `RetryInv` adds that a handler about to requeue
  holds a copy whose count is *below* the limit, which is what `Retries` found when it entered that
  state, and the copy is the handler's own, so nothing can change it in between.
- `DagProofs`: `DagOrderHolds`, `Spec => []DagOrder`. The strengthening `DagInv` follows the information:
  every copy of a stage's status that says Completed (in the store, in a handler's view or verdict, in
  the cancellation's view) is backed by units in `done`; everything that may put a unit to work (the
  engine's ready set and pick, a pull call about to save, queued commands, goroutines, containers,
  reports on a stream, a handler about to save) concerns a unit whose upstream is done; and the units
  of a job that exists exist, so that a verdict never overlooks one. `done` only grows, so each part
  survives every step that does not touch it. The invariant needs no order among the writers, which
  is why the races above cannot break this property although they break others. `CompletedIsDone`, for
  stages that do not depend on each other and no cancellation: `[]CompletedJobIsDone`. `SettledInv` adds
  that nothing is ever Skipped, in the store or in any copy, and that a job that is Completed has all
  units in `done`: a handler settles it on a view in which every stage is Completed, its own verdict
  included, and `DagInv` says what that means, however old the view is.
- `ExecutionProofs`: `ExecutesOnce` (`[]SingleExecution`) and `RetriesOnlyGrow` (`RetryMonotone`), with any
  number of crashes, lost messages, agent restarts, refused launches, cancellations and failed submissions.
  The assumption `Reliable` leaves out what breaks them (see above): false alarms, pulls, unregistrations,
  and a delay that elapses between the two saves of one report. `ExecInv` says who may write a unit. A unit
  is `Busy` with a node that executes it, has a report of it under way or a handler about to save one; with
  one node at most (`OneNode`), and once (`Once`). A report of an end is the last of its unit (`EndsLast`).
  The handler's copy has the retry count of the store (`HandlersSound`), so has the engine's copy of a unit
  that the cycle may still assign (`WaitingSound`), and such a unit is busy nowhere. A busy unit is neither
  Pending nor Failed in the store, but for the moment between the two saves (`RecordsSound`), which is why
  the engine cannot list it; and the cycle gives a unit away once (`CycleOrder`). `ImplementsUnitLife`
  (`Spec => KeepsUnitLife`, the refinement, under the same assumption): `Moved` says of each step which of
  the four abstract steps it is, or that it is none; a unit in `done` is `Closed` (`DoneSound`): it is
  Completed in the store, or Cancelled by a late `CancelJob`, nobody is at work on it, has a report of it
  under way or is about to save one, and no copy in the cycle may still be assigned. No step opens it again
  (`EndsKept`).
- `ReplicationProofs`. `Types`: `Spec => []TypeOK`, under all faults. The rest is about a primary that runs
  on and standbys that are not set up anew, one of them where files are cleaned up (`Reliable`; the
  acknowledgement is kept under one name). `ReplaysEverything`: `[]NothingSkipped`, reboots included.
  `LogInv` has the argument why a clean-up is safe although it decides on files that it has read earlier: an
  acknowledged number is never the last one, since `syncOnce` asks only if there is more (`AckSound`), so a
  file that is acknowledged as a whole is behind the writer and never grows again. `SeenInv`: what a standby
  lacks is in the files, or under way. `ShipsEntryByEntry`, for standbys that keep running: `Spec =>
  ShipsLog`, the refinement; `PlaceInv` says that the entries from `lastSyncSeq` on have no gap, so what is
  replayed is the next entry of the journal (`NextIsNext`). For standbys that may restart if nothing is
  cleaned up, or the other way round (`KeepsPlace`): `SyncedHasAll`, `[]SyncedHasLog`, for any writers, and
  `SyncedIsEqual`, `[]SyncedMeansEqual`, for the records that have one writer (`OneWriter`). A restarted
  standby replays history: in `ReplicasEqual` each of its records has *some* value that the log gave it
  between `lastSyncSeq` and the end, which leaves no choice once the two meet. `StoreEqual` says the same of
  the primary: a record is as the log says, or its writer has still to log it.
- `NodeHealthProofs`: `RegistryReturns`, `Spec => HangsOnlyOverRemoved`, with any monotone `PhiAt` and any
  number of removals and restarts. Whoever lets the detector of a registered node hear a heartbeat asks it
  for phi in the same step, which brings its statistics up to date (`AskedFact`); so of all the steps only
  the early return for an unknown node leaves a detector stale (`CauseOfHang`), and `Stats` waits for itself
  over no other. `LiveNodesStayUp`, `[]LiveNodeIsUp`, if phi after one interval is below twice the threshold
  and does not underflow (`PhiAt[1] < 2 * Threshold`, `1 < Underflow`; the code's threshold is 4, and after
  one interval of regular heartbeats phi is about 0.3): an agent whose heartbeat is due was silent for an
  interval at most, one that has sent it for none (`Beating`), until something restarts or stops.
  `SuspicionLasts`, `Spec => RecoversByHeartbeat`, without assumptions: the detector of an unhealthy node
  has enough samples and a phi that has reached the threshold (`Suspected`), phi only grows with silence,
  and the constant it is set to on underflow is above the threshold too.
- `MembershipProofs`: `AllocationsStayApart`, no address is allocated twice, without any assumption,
  removals included: the search for a free address and the write are one step under `IPAM.mu`. For
  `Budget.remove = 0`: `AddressesStayApart`, no two node records have one address, and
  `RegistrationImplementsBook`, `Spec => KeepsAddressBook`, the refinement. The invariant ties records and
  handlers to allocations (`Written`): a record's address is the allocation of its ID, and so is the address
  that a handler carries between `Allocate` and `Save`. A removal is what cuts this tie. `OneRecordEach`,
  removals included: `Spec /\ []OneAtATime => []OneNodePerMachine`, where `OneAtATime` says that no two
  calls of one fingerprint are served at the same time, the empty one excepted. A call that is going to save
  a record knows the one that its machine has (`Aware`). `AdmittedAsInvited`: `Spec => AdmittedInTurn`,
  which is `[]OneCall => []AdmittedByRight`: `OneCall` says that no two calls overlap at all. `CodesCount`:
  the count of a code is at least the number of calls that it let in, and a handler about to save a code has
  counted on from what is stored. `FirstsApart`: of the nodes that passed as the first, one at most has a
  record, none while such a call is being served. Both assumptions are about whoever calls: no lock in the
  code makes them true, and without them both properties fail, as is told
  [above](#where-the-properties-end). Of the walk through a list, for any items, sizes and changes:
  `ReadsWholeList` (`WalkSpec => []NothingMissed`). The place of a job in the list is the number of those
  with smaller keys (`RankIsPlace`, a bijection), which only grows while nothing drops out (`RanksGrow`), so
  the jobs with a rank below the token were sent (`JobsSent`); nodes that fit on a page were sent all
  together (`NodesSent`).
- `TrustProofs`. Of the search, for any finite set of nodes and any bound: `TrustIsFounded` (`[]Sound`),
  `DenialIsFounded` (`[]Complete`), `HiddenIsNarrower` (a hidden node is seen by no one who would not see it
  as `trust_only`). A chain is described without recursion, by the closed sets of nodes (`Connected`). The
  invariant: what is visited is in every closed set that contains `From` (for `Sound`), and a visited node
  that is not in the queue any more has all its targets visited (for `Complete`: if the queue is empty, what
  is visited is closed). Of the declarations, for any edges and calls: `OnlyDeclarations`
  (`[]OnlyDeclared`), with any overlap, failing writes and restarts. A revocation that fails writes an edge
  back that it makes up itself, so the invariant keeps the reason of each handler that has begun
  (`CallsFounded`): it only got that far because a declaration of the edge had come in. `OwnerIsHeard`
  (`WordIsKept`, which is `[]Calm => []Kept`) is for one handler or sweep at a time and writes that do not
  fail, the same conditions as in the run; otherwise it fails, as is told
  [above](#where-the-properties-end). An edge that is in force for the owner, in the graph or in the store
  is the same in all three (`Same`), apart from the one of the handler that runs (`AllSame`), and what the
  sweep has left to delete has expired (`DueExpired`).
- `ReplicationProofs`, of the event bus: `ChannelsStayOpen`, `WatchSpec => []OnlyOpenChannels`, for any
  publishers and watchers, with IDs shared or not. The invariant: a channel that is subscribed has one place
  on the bus, under the ID of its watcher, and is open (`Placed`); only a channel whose watcher has
  subscribed can be closed (`ClosedLater`); whom `Publish` has left to tell is subscribed
  (`LeftSubscribed`), since `Subscribe` and `Unsubscribe` wait for its read lock. `None \notin Watchers` is
  what tells a free place from a taken one. `WatchTypes`, `WatchSpec => []WatchTypeOK`: no channel holds
  more than it has room for. Of the bytes of a log file, for keys and data of any length: `ReaderGetsWhole`,
  `CodecSpec => []ReadsWholeEntries`. Entries lie one behind the other (`Adjacent`), and the reader is where
  the ones it has got end (`GotFirst`), so it is at the next one whenever it is at one (`NextEntry`), and
  what `UnmarshalWAL` needs is there exactly if all of the entry is (`NeedsWhole`); what comes behind an
  entry that is cut is not whole either (`Beyond`). The loop is a step per entry in the model, so no
  induction over the file is needed.
- `ServicesProofs`. Of the overlay network, for any number of agents, failed writes and deaths of nebula:
  `ReadsOwnFiles` (`[]OwnFiles`) and `OverlayEnds` (`[]StopEndsOverlay`), with the agent program
  (`~Console`). `InOrder`: an agent begins when those before it have returned and were stopped, so the files
  that it has got past are its own (`Written`), and a nebula that runs is known to its manager (`Known`). Of
  the agent of cpstart, for any number of changes and runs, and any faults: `OneAgentWorks` (`Runner!Spec =>
  AgentsInTurn`, which is `[]~Overtaken => []InTurn`). `Latest`: the status is starting or running for as
  long as the latest run works, and all runs before it are past their work; so the run that a `Start` begins
  is alone, and, as no `Start` comes before it has read `r.done`, closes a channel of its own
  (`OwnChannel`). What keeps this inductive is that no run before the latest has still to set the status,
  which is what `Overtaken` says. Without the assumptions the properties fail, as is told
  [above](#where-the-properties-end). Of the setups, for any requests, distributions, faults, hanging
  commands and number of setups: `SetupShown` (`[]StatusIsOneSetup`): a setup under way is the only one of
  its automator and the status is its own (`WslOwned`, `MacAlone`, `MacOwned`), the steps before the one it
  has come to are good and none after it has come out, so whatever it ends with, the status tells of this
  setup; a setup that hangs keeps its place (`WslHung`, `MacHung`).

The inductive invariants were checked with TLC (exhaustively for small budgets, the ones of the core by
simulation with all ten kinds of fault, too) before they were proved.

Only model-checked:

- The type invariants `TypesOK` of the MC modules.
- All liveness properties, which, like anything with `ENABLED`, are out of the prover's reach.

## What is left out

Of the modelled parts:

- One report stream and handler per node. After a reconnect the old stream's handler may still be
  busy with its last report; that second handler is not modelled.
- One `CancelJob` and one `UnregisterNode` at a time, each job submitted once under a fresh ID, no node
  registering in `Scheduler` (an agent's restart registers it again). Units of one job only.
- Store errors other than the ones of `SubmitJob`, of registrations and of trust; the code logs them and
  goes on.
- Status Busy in `Scheduler` (scheduled like Online), unit outputs and exit codes, scores, the semaphore `sem`
  (the cycle assigns one unit at a time), heartbeat intervals.
- `AssignUnit` (pull) has no caller in the repository's own agent; whoever calls it runs the unit
  itself, which the model does not follow.
- An orphan container's end: nobody observes it.
- A stage dependency that names no stage: such a job is accepted by `SubmitJob` and its stage is never
  ready. Dependencies are resolved in the model.
- `Replication`: what the promoted standby does as a scheduler (that is `Scheduler`), compression and the
  `SyncClient`/`Checkpointer` of `pkg/wal`, which have no caller.
- `Watch`: one job. `Listing`: one client.
- `AgentRunner`: `setupConfig` may change the scheduler's address; the bridge of the
  pages keeps the old one, which no state here depends on.
- `Wsl2Setup`: how a distribution is downloaded, the conversion of WSL1, which outcome the GPU toolkit has
  (any); `Automator.Cancel` has no caller, so a setup is never cancelled. `OnReady` is set only where no
  container runtime was found, which is where the module begins.
- `Overlay`: a nebula process that outlives a killed agent program.

Not modelled:

- *Certificates and mTLS*: mostly calls of library code.
- *Splitting* (`split.go`): arithmetic on the data of one call. `SubmitJob` has its outcome, success or failure.
- *GPU slices*: a calculation under one lock.
- *Updater*: planned, see below.
- *Clean-up tool, command-line client, project server, UI, deployment, protocol code*: no state of their
  own, or generated.

## Plan

1. `Updater`: binary, backup and marker as files, a crash between any two renames, against "a start finds a
   binary that works".
2. `Splitting`: `splitByRange` and `TopologicalSort` as functions with reference definitions; a theorem on
   the arithmetic of the ranges.
3. Two schedulers after a promotion, on one set of agents.
