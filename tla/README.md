# Formal model of Spine TS

TLA+ models, TLC runs and TLAPS proofs for the concurrent core of this repository: the delivery of
inbox messages by shard, on one node and through the delivery server; the leases by which nodes own
shards and announce themselves; and the exchange of events between bounded contexts. Every
definition is translated from the TypeScript under `src/`; `PROJECT.json` maps each one to the lines
it stands for.

* [The system](#the-system): the inventory of components.
* [The modules](#the-modules): which module models what, and how its state and actions correspond
  to the code.
* [The runs](#the-runs): what TLC checks, within which bounds and under which fairness.
* [The proofs](#the-proofs): what holds for every value of the constants, and why.
* [Findings](#findings).
* [What is not modelled](#what-is-not-modelled).
* [The plan](#the-plan).

To check a run: `tlc -workers 2 -config X.cfg M`, with the pairs of the table below. To check a
proof module: `tlapm M.tla`.

## The system

A Spine application is a set of bounded contexts. A context accepts commands and events, routes them
to entities (aggregates, process managers, projections) and agents, and stores what they emit.
Signals for entities and agents are not dispatched directly: they are written to an *inbox*, a
persistent list of rows per *shard*, and a delivery process takes them from there. Several nodes may
run the same contexts; which node delivers a shard is decided by a lease.

The JavaScript of one node runs on one thread. Concurrency comes from interleaved continuations: any
`await` lets other callers, timers and callbacks of the node run, and other nodes change storage.
That is the grain of the models: an action is what runs between two awaits.

### Delivery (`packages/server/src/delivery`, `packages/server/src/agent`)

| Component | State | Operations | What is hard | What makes it correct |
| --- | --- | --- | --- | --- |
| `ShardedWorkRegistry` | one session record per shard in storage; `#active`, `#closed` of the handle | `pickUp`, `renew`, `validateOwnership`, `release`, `close` | decisions on a record read before an await; clocks of different nodes; lost answers; two drains with one worker identity | no two workers hold a running lease; nobody loses a lease before it ends; close waits for what was admitted |
| `DeliverySupervisor` | active runs, bounded queue, retry exclusions, timers, observation stream, close phase | `start`, `notify`, observed updates, recovery, `whenIdle`, `close` | dropped notifications, rescans, a recovery that overlaps close, close attempts that time out and are retried | work leads to a run; waiting shards use free slots; recovery never dies; after close nothing runs |
| `Delivery`, `DeliveryDrain` | inbox rows, the active run, pending wake, blocked targets, live agents, callers that wait | store, notify, `drainMessage`, wake, the pages of a run, acknowledgement, stop, startup drain, close | a wake at every point of a run; capacity released while a row is being deferred; an acknowledgement that fails after the endpoint has run | rows that were there are delivered, in order per entity; every caller is answered; slots come back; agents never outlive the session |
| `AgentExecutionCapacity` | active and queued requests, scheduled starts, listeners | `reserve`, `run`, `release`, abort, promotion | promotion before or after `run()`; an abort at every stage; a refusal that must be followed by a wake | limits, no idle slot while somebody waits, first in first out, a refused caller is told |
| Delivery builder, worker, ports | options | assembly | little | checks at construction |
| Inbox hand-off (`context/local-inbox-handoff.ts`, `entity-inbox.ts`) | up to eight attempts per call | store a row and wait for its delivery | a row that is deferred, retried or removed while its poster waits | the poster learns what happened to its row |
| Remote delivery client (`delivery-client`) | retained sessions, recent deliveries, the observation of shards | pickup, ownership probes, release, pages, acknowledgement, duplicate removal | a call that is executed after its caller gave up; a session has no identity on the wire; late observations | exclusive ownership; no signal vanishes; each session dispatches a row once; pending rows get delivered |
| Delivery server (`delivery-server`) | rows, shard records, counters beside them, the mutation queue, Admin streams | write, remove, pick up, release, release expired, subscribe, close | counters kept apart from the rows; limits; a lagging subscriber; close between submission and flush | counters are exact; limits hold; an open stream is current; nothing commits after close began |

How they interact: storing a row calls `notify` on the delivery; the supervisor admits the shard and
starts a run; the run picks the shard up from the registry, renews the lease on a timer and validates
it before it commits; an agent row asks the capacity for a slot; the end of an agent wakes the
delivery (`retryDeferred`), as do a caller of `drainMessage` and a stored row. Remote delivery
replaces the registry and the inbox by calls of the delivery server, and feeds the supervisor's
observation stream.

### Deployment (`packages/deployment*`)

| Component | State | Operations | What is hard | What makes it correct |
| --- | --- | --- | --- | --- |
| `LeasedNodeRegistry` | one leased row per node; per handle a cleanup cursor and the operations under way | `register`, `renew`, `remove`, `read`, `readAll`, `cleanup`, `close` | a node identity is reused by a later process; deletions of rows that are being renewed; a page boundary that moves | a row changes hands only after it has ended; a snapshot misses no live node |
| `GceRegistrar` | `#confirmed`, the node derived from metadata, the timer, `#closed` | start, tick (renew, re-register, clean up), close | lost answers, deadlines, a crash and a replacement under one node identity, close at every await | a closed registrar leaves no row; what it believes is true; a living one is listed |
| `BackendMembershipKernel`, node discovery | known backends, their subscriptions, polling loops | reconcile, poll | a poll that overlaps close | the routed set follows the discovered one |

### Runtime and integration (`packages/server/src/{runtime,bus,context,integration}`)

| Component | State | Operations | What is hard | What makes it correct |
| --- | --- | --- | --- | --- |
| Runtime queue, buses | a FIFO queue of work per context | post, dispatch, follow-up work, drain, close | a dispatch that waits for work behind it, in this or another context | every posted signal is dispatched |
| `IntegrationBroker`, message transport | per origin the event types it wants; a publisher per exported type; a chain of transitions; subscriptions | `open`, online and wanted frames, replacement of publishers, publish, import, `close` | crossing announcements; the partial failure of a replacement; a publisher whose publication failed; two contexts whose queues wait on each other | a settled broker exports what is wanted; ready contexts know each other; closed ones are forgotten; events cross |

A context announces itself (*online*), every other context answers with the set of event types it
*wants*, and each keeps one publisher per type wanted from it. A publication waits for the import in
every receiver; an import is work of the receiver's event bus.

### The rest

Repositories, entities and transactions (a transaction's phases and its rollback); the stand and
subscriptions (activation against a snapshot, the order of updates, limits of a subscriber's queue);
durable subscription bindings of the browser server (a queue per subscription with purge, activation,
cancellation, close); server processes (start, supervision, shutdown); storage; the authentication
gateway; clients; AI adapters; code generation. `PROJECT.json` lists each with its sources and status.

## The modules

```
ShardLease                what the registry promises about one record
  ^ extends, implements
ShardedWorkRegistry       the read, decide and compare-and-set protocol
DeliverySupervisor        admission of shard runs on one node
DirectDelivery            one shard's runs, with callers, agents and capacity
AgentExecutionCapacity    the gate before agent turns
DeliveryState             the delivery server's rows, sessions and counters, as operators
  ^ extends                      ^ extends
DeliveryServer            RemoteDelivery        ShardOwnership
the mutation queue        workers that drain a    what remote sessions promise,
and the Admin streams     shard over the network  implemented by RemoteDelivery
LeasedNodeRegistry        node leases in shared storage
  ^ extends, composes
GceRegistrar              processes that keep their leases in the registry
IntegrationBroker         the exchange of wanted events between contexts, and their buses
```

`MC*` modules give the constants values that a configuration file cannot express. `*Proofs` modules
hold the theorems. Operators introduced by a comment `Mutant` are faulty variants of the definition
below them; none of them is used by a specification, they document which error each property detects
(`PROJECT.json`, "mutants").

### ShardLease and ShardedWorkRegistry (`sharded-work-registry.ts`)

`ShardLease` is the abstract specification: the record of a shard changes by the claim of a worker at
a time when nobody's lease ran, by an extension of the owner's own running lease, or by the owner's
relinquishment. Each change is stamped with a past instant of the acting worker's clock, since the
write lands later than the decision. Clocks differ by at most `MaxSkew`.

`ShardedWorkRegistry` has a set of *clients*, the drains that call the registry, each with a worker
identity that several of them may share. An operation is three steps with awaits in between: `Read`;
a decision at the local clock (`DecidePickUp`, `DecideRenew`, `DecideRelease`), which may answer at
once; and the compare-and-set, which is applied (`CasApplied`), refused (`CasRefused`: read again, or
give up after `Retries`), fails (`StorageFails`), or is applied with its answer lost
(`CasAnswerLost`). `active` is `#active`, `handle` the retained storage handle that `close()` closes
once `#active` is zero. A caller that was refused keeps the old snapshot and may still release it, as
the code lets it. `validateOwnership` does what `renew` does and is not a separate action.
`seenFresh` and `heldFresh` are history variables: which reads and sessions no release has followed.
They are there for the properties only; no guard reads them.

### DeliverySupervisor (`delivery-supervisor.ts`)

`active`, `pending` (insertion order, each entry explicit or observed), `failedObserved`,
`rescanRequired`, the shared recovery attempt and who continues after it (`recovery`, `snapshot`,
`onRecovered`), the two timers, the observation (`watching`), and the phases of `close()` with the
release call that a later attempt shares. A timer may fire at any time after it was set; a remote
call is answered at any later time, or fails. A run is abstract: it settles as `drained`, `failed` or
`skipped`. The remote side is reduced to the set of shards with undelivered messages (`work`) and the
observation updates on their way (`updates`).

The queue functions (`Admit`, `Enqueue`, `Repeat`, `StartWaiting`, `AdmitObserved`) are operators from
queue to queue. The code applies a snapshot without an await in between: `Admitted` is the queue once
`AdmitObserved` has seen the shards of the snapshot one after the other, in the order of their indexes.
`Without` filters the requests of given shards out of the pending ones.

### DirectDelivery (`delivery.ts`, `delivery-loop.ts`, the admission in `repository.ts`)

One node and one shard. `row` is the inbox; `poster` what the caller of `drainMessage` has been told;
`run` and `at` where the shared run is; `page` the rows it has read, `pos` the last of them it is done
with, `after` the row behind which the next page begins; `woken` and
`moved` the wake generation against the values remembered at the start of the scan and of the current
dispatch; `blocked` and `capBlocked` the targets held back by a failure or by missing capacity;
`reserved`, `live`, `receipts` the stages of an agent turn; `deferred` the readiness of the route;
`others` a turn of another shard that competes for the slots. `owed` is a history variable: the rows
that were stored at a wake which the current run has taken.

The acknowledgement of a row is retried three times in the code without anything else happening to
the row; the model has its result, done or exhausted (`RemoteDelivery` has the attempts). The
session's renewal is the fault `SessionLost`. The default monitor marks a row delivered after a
receptor failure, so a failing endpoint is an acknowledged row. Rows that were read as delivered may
expire and be removed at the end of a page.

### AgentExecutionCapacity (`agent-execution-capacity.ts`)

A request is one call of `reserve()`; `entry` is its stage, `queue` the waiting ones, `hasRun` and
`started` tell a handed-over callback from a scheduled start, since the start is a microtask. `Finish`
frees a slot, promotes from the queue, starts those who already have a callback, and notifies the
observers, in one step, as the code does. An unset limit is a value not smaller than the number of
requests.

### DeliveryState and DeliveryServer (`delivery-server/src/core`, `delivery-server/src/admin`)

`DeliveryState` has the server's retained rows (`messages`: absent, `TO_DELIVER` or `DELIVERED`), the
table of shard records (`shards`, a function whose domain is the tracked shards), and three counters
kept beside them: rows per shard, deliverable rows per shard, and the Admin publisher's own count. Its
operators are the mutations the Inbox and Shard handlers commit, each one step, since none awaits:
`Write` of a batch, `Remove`, `PickUp` in its modes (of any shard, of one with pending rows, of one's
own again), `Release`, `ReleaseExpired`. The serialised size of a row is one unit.

`DeliveryServer` adds what lies before and behind such a commit. `Submit` puts a mutation into the
`MutationAdmission` queue (`pending`) and schedules the flush; `AbortCall` aborts a waiting one;
`Flush` remembers how many entries it will admit (`flushing`), and `Admit` commits them one by one.
A commit that changes what an administrator sees is pushed to the Admin subscribers: a `stream` is
created, attached, ended; `backlog` is its bounded buffer, `Waiting` when its generator waits for a
frame; `last` the frame last pushed for each shard. `Close` begins the server's close.

### RemoteDelivery and ShardOwnership (`delivery-client/src/remote/adapters.ts`, `delivery-loop.ts`, `shard-service.ts`)

Workers of different processes drain one shard of the delivery server. A worker's `drain` is a record:
the step it is at (`pc`), the pickup time of its session and whether the registry handle still retains
it (`known`), the page and the position in it, the attempt at an acknowledgement, the blocked rows.
Each remote call is sent, executed by the server (`Execute`) and answered in separate steps, and the
worker then takes the answer with the action named for it (`PickedUp`, `PageRead`, `Checked`,
`DuplicateRemoved`, `Fenced`, `Found`, `Written`, `Guarded`, `Expunged`, `Released`). `TimeOut` gives up
a call, whose mutation may stay in `late` and be executed later (`ExecuteLate`), or never.
`recent` is the process's window of recent deliveries. `Reconcile` is the arrival of a NOT_PICKED
observation, possibly a late one. `ReleaseExpired` is the server-side release of inactive sessions,
which any supervisor requests.

Pickup times are reused values: `Now` is the least one that no session and no answer mentions, and
enough of them exist (proved, `FreshNow`). The fence before the commit (`Fenced`) stands for the
validations that come right after one another there, of the delivery attempt and of the
acknowledgement: nothing of the drain happens between them.

`ShardOwnership` is the abstract specification: a shard is granted, ended, held and confirmed; a
dispatch uses up a confirmation that the server gave to this session while it owned the shard.

### LeasedNodeRegistry and GceRegistrar (`leased-node-registry.ts`, `gce-registrar.ts`)

`rows` is the storage shared by all processes: one row per node, with the registration identity and
the end of its lease. A *client* is one registration identity, that is, one start of a process; two
clients may have the same node. `op` is the operation it executes and where it stands, with the row
it read, the lease it will write, the position of a page, and the deletions it still awaits. `Skew`
lets every operation take its time from a clock that differs from `time`. `Batch` and `PageSize` are
the code's two page lengths, of a cleanup and of a snapshot. `orphans` are deletions
that were started by a cleanup which has already rejected.

`GceRegistrar` extends that module, so that a process is a registrar and a client of the registry at
once: its `phase` says which await of `start`, tick or `close` it is at, and the registry's steps in
between are the registry's own actions. `close` aborts the operation under way and waits for it.
`Crash` stops a process at any point and leaves its row and its outstanding deletions behind.

### IntegrationBroker (`integration-broker.ts`, `message-transport.ts`, `runtime.ts`, `event-bus.ts`)

The contexts of one process over the in-memory transport. `group` is the transport's list of
subscribers per channel (`Without` is what a detachment leaves of it); `frames` are publications under way, each with the subscribers still to be
called (`left`) and the one whose promise it waits for (`at`). `phase` is where `open()` or `close()`
stands. `wanted` is `wantedByOrigin`; `publisher` the publishers of a context; `queue` and `change` the
chain of transitions and the stages of the one under way (close what is not wanted any more, then
commit, or fail). `bus` is the FIFO queue of a context's event bus: the head is what is being
dispatched, an own event waits there for its publication (`Find`, `Publish`, `Refuse`, `Published`),
an imported one for its receptors (`Import`). `spoiled` and `leaked` are publishers that can no longer
be closed because a publication they accepted has failed. `due` is a history variable: the crossings
that are owed.

## The runs

| Run | Module, configuration | Checks | Bounds |
| --- | --- | --- | --- |
| `registry` | `MCShardedWorkRegistry`, `ShardedWorkRegistry.cfg` | `LeaseExclusion`, `ClosedHandleUnused`, `ImplementsLease`, `CloseCompletes` | two workers with one drain each, lease of 2, skew 1, clocks up to 3, 2 attempts, both may close |
| `supervisor` | `DeliverySupervisor`, `DeliverySupervisor.cfg` | `WorkConserving`, `NoEarlyRetry`, `RecoveryAlive`, `ClosedIsQuiet`, `WorkRuns`, `CloseSettles` | 2 shards, 1 slot, 1 queue place, 3 posts, 1 fault, runs drain, fail or skip |
| `delivery_agents` | `MCDirectDelivery`, `DirectDelivery_agents.cfg` | `DeferredHasWaker`, `NoLeakedSlot`, `AgentsWithinSession`, `InOrderPerEntity`, `DrainedMeansDelivered` | 3 rows on pages of 2, two of one entity and one of an agent, 1 slot shared with another shard, 2 faults, close |
| `delivery_live` | `MCDirectDelivery`, `DirectDelivery_live.cfg` | `StoredIsDelivered`, `CallerIsAnswered`, `CloseSettles` | an agent's row with a caller, another row, 1 slot, 1 turn of another shard, 1 fault, startup drain and close |
| `capacity` | `MCAgentExecutionCapacity`, `AgentExecutionCapacity.cfg` | `WorkConserving`, `RefusalIsHeard`, `WaitingEnds` | 4 requests of 3 agents, 1 active, 2 queued |
| `delivery_server` | `MCDeliveryServer`, `DeliveryServer.cfg` | `CountsMatch`, `WithinLimits`, `LastFrameIsCurrent`, `ClosedCommitsNothing` | 2 shards, 4 rows, 2 workers, 10 kinds of mutations, 2 rows and 1 shard retained, a queue of 2, 1 subscriber with a buffer of 1, clock up to 2 |
| `remote` | `MCRemoteDelivery`, `RemoteDelivery.cfg` | `NothingLost`, `OncePerSession`, `ImplementsOwnership`, `PendingIsDelivered` | 2 workers, 2 rows with the same signal, one kept after delivery, 1 acknowledgement attempt, 1 fault (lost, late, crash, stale notice, slow drain) |
| `integration` | `MCIntegrationBroker`, `IntegrationBroker.cfg` | `ExportsMatchDemand`, `ReadyMeansDiscovered`, `ClosedIsForgotten`, `EventsCross`, `CloseSettles` | a producer and two consumers, 2 types, 1 event, 1 failing import, 1 further close attempt |
| `nodes` | `MCLeasedNodeRegistry`, `LeasedNodeRegistry.cfg` | `LeaseKept`, `SnapshotComplete` | two nodes, a third process that reads and cleans up, cleanups of 2 rows, snapshot pages of 1, term 1, time up to 1 |
| `gce` | `MCGceRegistrar`, `GceRegistrar.cfg` | `ClosedLeavesNoRow`, `ConfirmedIsListed`, `ExpiredIsReclaimed`, `LivingIsListed` | the successor of a crashed process and the registrar of another node, cleanups of 2 rows, 1 fault, term 1, time up to 1 |
| `nodes_close` | `MCLeasedNodeRegistry`, `LeasedNodeRegistry_close.cfg` | `CallsJoined`, violated: see [Findings](#findings) | two nodes, cleanups of 2 rows, time up to 3 |
| `integration_mutual` | `MCIntegrationBroker`, `IntegrationBroker_mutual.cfg` | `EventsCross`, violated: see [Findings](#findings) | two contexts that import one type from each other, 2 events, no faults |

Two runs start in the middle of a history to spend their state space on what follows. `gce` starts
with `Crashed` of `MCGceRegistrar`: a process has registered its node and crashed. `integration` starts
with `Begun` of `MCIntegrationBroker`, one of three topologies: the producer and a consumer are still to
open; the producer is open and a consumer still to open; a consumer is still to join the two that are
open. The other context, if any, has closed. Each is a state that the module's own actions reach from
`Init` once those contexts have settled.
`integration_mutual` starts from `Init` itself.

### What the properties say

*Registry.* `LeaseExclusion`: two clients whose sessions are in force (granted, not revoked, not
within the skew of their end) have the same worker. `ImplementsLease`: every step of the protocol is a
step of `ShardLease` or leaves the record alone. `ClosedHandleUnused` and `CloseCompletes`: the
storage handle is closed only when nothing uses it, and always in the end; the second rests on the
bounded retries, since a rival could change the row for ever. `NoTheft`, proved and not run: a row goes
from one worker to another only when the first lease has ended on some clock.

*Supervisor.* `WorkConserving`: a queued shard waits only because it is active or the slots are
taken. `NoEarlyRetry`: after a failed run, observations alone do not queue the shard again before the
periodic recovery. `RecoveryAlive`: until close there is always a timer or an attempt that sets it.
`ClosedIsQuiet`: a closing supervisor has no timer and no queue, a closed one no run, and its stale
sessions were released. `WorkRuns`: undelivered work leads to a run although notifications are
dropped, the observation breaks or a recovery fails. `CloseSettles`: every close attempt does.

*Delivery.* `DrainedMeansDelivered`: a run that ends as drained has dealt with every row that was
stored at a wake it took, except for targets it had to block. `DeferredHasWaker`: while a target is
held back for capacity, the route is remembered as deferred and some turn still holds a slot whose
end will wake it. `NoLeakedSlot`: every slot is held by a turn that runs or by the row under
admission. `AgentsWithinSession`: the session is not released under a running agent.
`InOrderPerEntity`: no row of an entity is delivered ahead of an earlier row on the page.
`CallerIsAnswered`, `StoredIsDelivered`, `CloseSettles` are the liveness counterparts.

*Capacity.* `WorkConserving`: no idle slot while somebody waits. `RefusalIsHeard`: somebody is left to
notify those who were refused. `WaitingEnds`: whether a request is promoted before or after `run()`,
and whatever is aborted around it, it does not wait for ever.

*Delivery server.* `CountsMatch`: the three counters equal what the rows say; one that drifted would
make a later removal throw after it has changed the rows. `WithinLimits`: the limits hold, and a
released record does not outlive its shard's last row. `LastFrameIsCurrent`: what an open stream was
last told of a shard is how the shard stands. `ClosedCommitsNothing`: no commit after close began,
although a flush was scheduled.

*Remote delivery.* `NothingLost`: the effects of every received signal were committed, or a row that
carries it is still pending; rows are removed as duplicates, cleaned up, acknowledged late and by
overtaken drains. `OncePerSession`: one session dispatches a row once, whatever becomes of its
acknowledgement. `ImplementsOwnership`: see `ShardOwnership`. `PendingIsDelivered`: a pending row does
not stay pending, although lost answers, crashes and dropped ownership leave sessions behind that
belong to nobody.

*Integration.* `ExportsMatchDemand`: a settled broker exports exactly what somebody wants.
`ReadyMeansDiscovered`: two contexts whose `open()` has settled know each other. `ClosedIsForgotten`:
no late reply brings a closed context back. `EventsCross`: an event wanted by a ready context is
imported there. `CloseSettles`: a close attempt settles, and succeeds unless an import has failed.

*Nodes.* `LeaseKept`: a row is replaced only under its own identity, and disappears only by its
owner's removal or after its end on some clock. `SnapshotComplete`: a snapshot of several pages has
every node that was live all the while. `NoResurrection`, proved and not run: only a registration
creates a row.

*GCE.* `ClosedLeavesNoRow`: wherever close met the registrar, its row is gone unless the removal
failed. `ConfirmedIsListed`: a confirmed registrar has its row unless the lease it last stored has
run out. `ExpiredIsReclaimed`: the cleanup cursor misses no expired row. `LivingIsListed`: a living
process gets its row, also after a crashed predecessor.

### Why the bounds are enough

They are the smallest at which the cases of the hazard list meet. A second writer between a read and
its compare-and-set needs two clients; an expiry in between needs clocks that pass the end of a lease,
one of them ahead of the other; a give-up after a retry needs two attempts. Overflow needs one more
shard than there are slots, and a repeat of an active shard takes the queue place; three posts give a
first, a repeat and a dropped one. Deferral needs more turns than slots; a wake in the middle of a page
needs a page of two and a row behind it. A moving page boundary needs two rows and pages of one;
several deletions at once, a cleanup of two. A replaced process needs two identities of one node, and a
time at which the first lease has ended. A remote session that is overtaken needs two workers and one
fault that makes the first one late; a duplicate needs two rows with one signal. With one fault, one
acknowledgement attempt is what lets the attempts be exhausted; with `MaxAttempts = 2`, where a retry
follows the fault, the same run passes too. Server limits are
below what the requests ask for, so each refusal happens; a buffer of one frame overflows with a batch
of two. A race of announcements needs two contexts that open at once and a third that hears both; a
partial failure of a replacement needs a consumer of two types.

What depends on larger numbers (more workers, longer leases, larger skews, more agents, rows,
attempts, faults, subscribers) is covered by the proofs, which have no bounds. In the runs of
`LeasedNodeRegistry` all clocks agree; the proofs hold for any `Skew`.

Each bound is a constant that occurs in a guard: `MaxClock`, `MaxTime`, `MaxPosts`, `MaxFaults`,
`MaxAttempts`, `MaxOthers`, `MaxRetries`. Bounded systems stop when their bounds are used up or
everything is closed, so the configurations do not check for deadlock; that nobody waits for ever is
the subject of the liveness properties.

### Fairness, and what justifies it

* Registry: storage answers every call, and Node continues every settled promise (`WF` of each
  client's `Step` and of `CloseHandle`). Nobody is obliged to call an operation.
* Supervisor: timers that are set fire, the remote source answers, entered runs settle, applied
  snapshots are processed. Failures are possible, not fair; nobody is obliged to post or to close.
* Delivery: the run takes its steps, notifications arrive, agent turns end. That an agent turn ends is
  an assumption about the AI model that executes it. A fault or a close excuses `StoredIsDelivered`:
  the rest of the work is then left to a later wake, which this module does not promise.
* Capacity: who reserved a slot runs or releases it (`DirectDelivery` does, `NoLeakedSlot`), scheduled
  starts run, callbacks end.
* Remote delivery: each worker starts drains (its supervisor's periodic recovery does), goes on with
  them, and the server answers; exactly one of the three is enabled at a time, hence one `WF` for
  their disjunction. Time passes, and the supervisors' timer releases expired sessions. Lost and late
  calls, crashes, stale notices are not fair, and neither is the execution of a late call.
* Integration: promise callbacks that can run do (`WF` of `System`). With the bounds every behaviour
  is finite, so this one condition puts off none of them. Opening, posting, closing and failing are
  not fair.
* GCE: time passes, timers fire, storage and metadata answer or fail, and a process that is not
  mortal is started. Crash and close are not fair.

`DeliveryServer` and `LeasedNodeRegistry` are checked for safety only.

## The proofs

| Module | Theorems |
| --- | --- |
| `ShardedWorkRegistryProofs` | `TypeCorrect`, `LeaseInvariance`, `Exclusion`, `NoTheftHolds`, `Refinement`, `ClosedHandleUnusedHolds` |
| `DeliverySupervisorProofs` | `SupervisorInvariance`, `RecoveryStaysAlive`, `CloseIsQuiet`, `QueueInvariance`, `QueueIsWorkConserving`, `FailedShardsRest`, `AdmissionIsBounded` |
| `DirectDeliveryProofs` | `SlotsHeldByTurns`, `AgentsUnderSession`, `DeferralIsRemembered`, `DeliveryKeepsOrder`, `DrainedRunsDelivered` |
| `AgentExecutionCapacityProofs` | `CapacityBounded`, `NoSlotIdle`, `AbortFrees`, `RefusedHasNotifier` |
| `DeliveryServerProofs` | `ServerInvariance`, `CountersAreExact`, `LimitsHold`, `StreamsAreCurrent`, `CloseStopsCommits` |
| `RemoteDeliveryProofs` | `RemoteInvariance`, `OncePerSessionHolds`, `OwnershipRefined`, `NothingIsLost` |
| `IntegrationBrokerProofs` | `IntegrationInvariance`, `ExportsFollowDemand`, `ReadyIsDiscovered`, `ClosedContextsForgotten`, `PublishersOutlastExports`, `ClosedLeavesNothing` |
| `DeploymentProofs`, of the registry | `RegistryInvariant`, `LeasesAreKept`, `NoLeaseResurrects`, `SnapshotsAreComplete`, `RegistryTyped` |
| `DeploymentProofs`, of the registrar | `GceInvariant`, `ClosedIsWithdrawn`, `ConfirmationIsTrue`, `ClosedIsSilent` |

Every invariant and action property of a passing run, and both refinements, are among them.

The assumptions are the named `ASSUME`s of the modules: finite sets of clients, requests, rows and
workers, positive limits, functions with the right domains, the shape of a request, `None` and
`Nobody` different from what they stand against. They hold of every constructor and configuration the
code accepts.

**Registry.** Exclusion is not inductive: it says nothing of operations that stand between their read
and their write. `LeaseInvariant` adds what such an operation knows. `KnowledgeSound`: what a client
read, or the session it holds, is *covered* unless a release came after it, that is, the row still
names that worker with the same or a later time, or the lease has ended on some clock. `Timely`: a
worker's name is written only with a time its own clock has reached. `WriteJustified`: a pending
compare-and-set writes what the record it expects permits, a claim only over a lease that had ended at
the claiming worker's time. A compare-and-set lands only if the record is unchanged, so
`WriteJustified` is about the current record. Two sessions in force are then both covered; neither can
have ended on any clock, because they are further from their end than the skew; so both name the
owner of the one row. `NoTheftHolds` and `Refinement` read off the same invariant which abstract step
each write is. `CloseInvariant` says that `#active` counts exactly the clients that are not idle.

**Supervisor.** `SupervisorInv` joins the two properties with what close relies on (`CloseInv`): in
the drain phase no run is active, or the drain waits to be told of the end of the last one; a drain
without an error has had its stale sessions released; a release under way is one that close will
confirm. The recovery part says that whoever clears the timer is the attempt that will set it again,
or close.

`QueueInv` is about the queue itself. `Good`: no more runs than slots, no more requests than places,
one request for each shard, and none by observation for a shard that failed and rests. `Serving`: a
queued shard has a run or the slots are taken. The second needs the first, since a freed slot is
filled from the queue and the shards found there must be distinct to count against the slots. Neither
is kept by the parts of a step alone: `Repeat` removes a run and may leave a free slot beside a waiting
shard, and `StartWaiting` restores `Serving` from any `Good` queue. What `Without` and `Admitted`
compute is proved for sequences and snapshots of any length by a least counterexample: of the lengths
at which a recursive function failed there would be a least one, and the step before it held
(`FilterExists`, `AdmitsExists`). `AdmissionIsBounded` draws the bounds together: runs within the
slots, requests within the queue, as many queued shards as requests.

**Delivery.** `SlotInv`: a slot is held by a live turn or by the row at the admission step, the
holders are live only in a run that reads or releases. `SlotBound`: the slots in use are within the
limit. `WakerInv`: if a target is blocked for capacity in an open delivery then the route is deferred
and a slot is in use; the interesting step is `RecordDeferred`, where a slot may have been released
since the failed reservation: `moved` is then true and the wake is repeated instead. Together they
are inductive.

Order and completeness need the reading position. `PageInv` types it: what is on the page at which
step, and that a row at `dispatch` is of no blocked target. `ScanInv` says what has been passed:
`PageInOrder`, that every row of an ordinary entity at or before `pos` is settled (no longer stored, or
of a blocked target); `ScannedIsSettled`, that as long as the scan was not woken and has made no
progress this holds of every owed row that it has read at all; `PageIsNext`, that an owed row it has
not read lies behind a full page, so that the last page is known by its being short; and
`DrainedIsSettled`, which carries the result over the release of the session. A row that is stored
during the scan is not owed by it; a wake makes it owed, and sets `woken`, which suspends the claims
until the next scan. `DeliveryKeepsOrder` follows from `PageInOrder` at the row that is acknowledged,
`DrainedRunsDelivered` from `DrainedIsSettled` where the run completes.

**Capacity.** `CapacityInv` joins the type invariant, the shape of the queue (each waiting request
stands in it exactly once, no other does), the history of each request (only the retained ones are
started and so on) and the properties themselves: `WorkConserving` needs the queue's shape to be kept
by `Finish`, which pops as many as there are free slots. The lemmas `PopWithout`, `RemoveWithout` and
`QueueKept` say what removing one request or a prefix leaves of a sequence without repetition.

**Delivery server.** `ServerInv` joins the counters, the limits, the streams and the queue. A counter
is the cardinality of a set of rows, and the code changes it by a difference; `WriteCounts` and
`RemoveCounts` show for any batch, with overwrites and status changes, that the difference is that of
the cardinalities (`DisjointUnion`, `Difference`). The limit on shard records is not inductive alone:
records of released shards are bounded by the retained rows, so a removal must take the record with
the last row (`RemoveLimits`), and a release of an empty shard its record (`ReleaseLimits`).
`PublishSound`: a stream that was not told of a changed shard has been ended by the same step, for any
buffer size. The part about close says that the queue is empty from then on and a running flush does
not reach beyond it.

**Remote delivery.** `OncePerSession` needs to know why a row that was dispatched does not come back.
`RemoteInv` says of each drain: a row it has dispatched is no longer pending at the server, or its
target is blocked for the rest of the drain (`Handled`); a row that its page lists as pending and that
it has yet to reach was not dispatched, or its target is blocked (`Later`); it knows only of received
rows. A received row never becomes pending again (`Monotone`), and an answer under way agrees with what
the server did. `FreshNow` shows by counting that a pickup time is left over which no
session, answer or late call mentions, so a new session is never mistaken for an old one. For
`OwnershipRefined` each step is one of `ShardOwnership` under the mapping (the owner from the shard
record, a confirmation from an answer that is not taken yet) or leaves it alone; the lemmas
`RefinesIf...` name the case, and `ContinueEffect` which of them each continuation of a drain is.

`NothingLost` alone does not say why a removal is safe. `LossInv` adds what each remover relies on:
the signal of a row that the server keeps as delivered was committed, and so was that of a row which a
page shows as delivered, or whose pending state the drain has passed on its page (`Keeping`), of
whatever `recent` holds, and of every row that a late acknowledgement or removal mentions. So each of
the removals under way, of a duplicate, of an expired row, an acknowledgement retried or overtaken,
is of a row whose signal was committed before (`Permitted`), and what the server executes harms no
other (`Harmless`). `committed` never shrinks, so what a stale page shows stays true of it.

**Nodes.** `RegistryInv`: storage is typed, a client remembers in `ends` when the lease it last stored
runs out, an operation that is about to write expects a row of its own identity (`Justified`), and a
deletion under way, also an orphaned one, expects a row that has ended on some clock. A compare-and-set
on the whole row then gives `LeaseKept`; `WriteBlindly` shows why a comparison of the node alone would
not. `SnapshotInv` adds the reader: a node whose lease has not lapsed since the snapshot began has a
row that is live at the snapshot's time, and if the row is at or before the position the reader has
reached, it is among those read (`Reading`). A full page moves the position to its last row and a short
one ends the snapshot, so at the end nothing is left behind it.

**GCE.** `GceInv` adds what each `phase` implies about the registry operation under way
(`PhaseFits`), that a registrar in its removal really gets rid of its row (`RowGoes`), and that what
it was last told agrees with storage (`ToldRight`). `ConfirmationIsTrue` follows from the last,
`ClosedIsWithdrawn` from the second. The invariant holds from `Init`; the state in which the run `gce`
starts is one that `Init` reaches.

**Integration.** The three properties speak of what brokers know once they are at rest; the
invariants say what is on its way while they are not. All of them rest on `LinkInv`: an announcement
under way belongs to the phase its origin is in, there is one of each kind, and a reply waits under the
online frame it answers (`SignalsFit`); what a context has to apply is an announcement that waits for
it (`QueueFits`), and the transition under way is that of the first (`ChangeFits`); a context that has
withdrawn has no online frame left to answer (`PhaseFits`); a context that has announced itself is
attached, one that is not yet attached knows nothing and no announcement is on its way to it
(`GroupFits`).

* `DiscoveryInv`, for `ReadyMeansDiscovered`: of two contexts that have come online, each knows what
  the other wants, or the other's announcement still has to reach it, or it is itself still asking,
  with its online frame or the reply to it under way. Which of two contexts attached first does not
  matter: the one that attached last is answered by the other.
* `ForgettingInv`, for `ClosedIsForgotten`: an origin that has withdrawn is forgotten by whoever
  listens, and while it withdraws, the empty set is on its way or has failed. No reply can follow it:
  a reply waits under an online frame that its author has accepted, and by `PhaseFits` there is none
  once the author withdraws (`WithdrawalsAreLast`).
* `DemandInv`, for `ExportsMatchDemand`: without a transition the publishers are those of the recorded
  demand; during one, those of the demand to be recorded, except for the types still to be removed.
  A transition that only adds types cannot fail, and one that fails leaves a spoiled publisher behind,
  which the property excepts.

Two more theorems state what `close()` promises, where no run checks a property of its own.
`ClosedLeavesNothing`: a closed broker is attached to no channel, has no publisher, and no publication,
callback or transition of it is left. `PublishersOutlastExports`: a context exports one event at a time,
through a publisher that has not closed. Their invariants: `DetachInv`, that a context which has drained
stays so (`Quiesced`), and that no channel has a subscriber twice, or one `close()` would leave it
attached; `PublicationInv`, that the export under way is that of the head of the bus, that a head which
has found its publisher still has it, or is fenced, that an event to be imported is a call waiting for
its bus, and that what a transition has removed is closed. `Released`, which forgets closed publishers,
needs the former for the last: it meets no transition.

The theorems start from `Init`, for any contexts, types and wanted sets; the topologies in which the
run `integration` starts are states that `Init` reaches.

### What is only model-checked

Liveness under fairness, for which the prover has no rule with `ENABLED`: `CloseCompletes`, `WorkRuns`,
`CloseSettles`, `StoredIsDelivered`, `CallerIsAnswered`, `WaitingEnds`, `PendingIsDelivered`,
`EventsCross`, `ExpiredIsReclaimed` and `LivingIsListed`. Where a theorem needs induction over data,
as in the queue functions of the supervisor, it is an argument by a least counterexample.

## Findings

**`nodes_close`.** `LeasedNodeRegistry.close()` is documented to wait for operations that have started
before it closes the storage handle (`src/packages/deployment/REFERENCE.md:44-46`, and the comment of
`close()` at `leased-node-registry.ts:225`). `cleanup()` awaits its deletions with `Promise.all`, which
rejects at the first failure while the others are still running; `close()` then joins only the rejected
promise. The run finds it: a cleanup of two expired rows, one deletion fails, the handle is closed while
the other deletion is under way. No row that is live can be lost by it (`LeaseKept` is proved with
such orphaned deletions); what fails is the promise about the handle.

**`integration_mutual`.** Two contexts may import a type from each other, and "each original event
crosses once" (`src/build-protocol/planning/WAVE_13_EXTERNAL_EVENTS_PLAN.md:819-821`). A domestic
publisher awaits the publication inside the dispatch of its event (`integration-broker.ts:548`), and a
publication awaits the import, which is work behind whatever the receiver's event bus is dispatching.
If both contexts dispatch such an event at the same time, each waits for the other for ever, and every
later signal of both stands behind them. The test
(`src/packages/server/test/integration/integration-broker.test.ts:298`) posts the two events one after
the other.

The modelling also met behaviours for which no run claims a violation:

* Of two publishers that a transition removes, one may be unable to close, because a publication it
  accepted has failed (`message-transport.ts:294`). The other one has then been detached, but the
  recorded demand is the old one (`integration-broker.ts:321`). `ExportsMatchDemand` excepts that case.
  A later `close()` of the broker fails at the same publisher each time it is retried.
* An Admin stream whose generator is not waiting when `close()` comes does not complete: `next()` does
  not look at `#closed` (`admin-service.ts:279`), and the server's `close()` waits for it. In
  `DeliveryServer`, such a stream stays attached.
* Two pickups of a shard by one worker within one millisecond have the same `whenPicked`, the only
  thing that tells their sessions apart. `RemoteDelivery` assumes distinct times, as `Now` says.

## What is not modelled

Of the modelled components:

* Supervisor: the backoff between two observation attempts, log records, option checks.
* Delivery: the limit of 100 failures per run, monitor policies other than the default, the unshared
  `drain()` and `run()`. The capacity is without a queue here; its queue is in
  `AgentExecutionCapacity`. `AgentEnds` merges the end of a turn's slot and its removal from the live
  agents, which the code does in consecutive microtasks. No document or test fixes the order of agent
  rows: a capacity wake in the middle of a page may let a later row of an agent overtake a deferred
  one, and `InOrderPerEntity` is stated for the other entities.
* Delivery server: queries, the decoding of requests, the order in which transports shut down.
* Remote client: the reconnection of the observation stream, batched writes of an inbox, its close.
* Integration: third-party contexts (`publishImported`), an `open()` that fails, the close of the
  transport factory. A queue is a context's event bus; follow-up work and commands are not in it.
* GCE: the relation of the three durations (renewal, deadline, term): an operation may take any time,
  so a lease may run out under a registrar. A second call of `close()`, which returns at once.
* Registry: the values of the retry limit and the lease duration, which are constants here.

Two hazards of `PROJECT.json` have no property: the Admin stream above, where the code fails and its
model shows what it does, and the purge of durable bindings (`durable-subscription-bindings.ts:421`),
which is in the plan.

The modules cover a small share of the repository's lines, and will: most of them are pure computation
(handler metadata, queries, validation, token formats), user interfaces and clients, code generation,
SQL and Datastore adapters whose atomicity is the database's, calls of AI services, build scripts and
examples. They have no interleavings for a model checker to explore. `PROJECT.json` lists every
component with its status and the reason.

## The plan

Done: the modules above. The order of what is left:

1. **Local inbox hand-off** (`local-inbox-handoff.ts`): the loop of eight attempts over
   `DirectDelivery`'s `drainMessage`, and the stale-row case of a poster whose row was delivered and
   removed.
2. **Durable bindings** (`durable-subscription-bindings.ts`): the operations on one subscription, the
   purge of 25 records at a time, the shutdown timeout.
3. **Runtime queue and buses**: follow-up work, drain and close, in the terms of `IntegrationBroker`.
4. **Backend membership**, entity transactions, stand subscriptions, server processes, in that order.

Theorems worth proving next: the refusals of `DeliveryServer` as an abstract store that its mutations
implement; the type invariants and safety properties of the modules to come. The runs stay within a
dozen by joining safety and liveness where the state space allows it.
