# Verification of 44b-relay

TLA+ specifications, TLC model checks and TLAPS proofs for the Nostr relay in `src/`.
The relay is a set of Node.js processes that share one Meilisearch server. Meilisearch
applies one mutation at a time, each of them atomically, but offers no transaction over
two requests; every invariant that spans two documents is kept by protocol, with tokens,
revisions and phases that survive a crash. Those protocols are what is modelled.

## 1. The system

| Part | Source | State | Operations | Interacts with | What is hard |
|---|---|---|---|---|---|
| Manifest pool | `services/event/manifest-pool.js`, `jobs/prune-manifest-pool.js` | counters (`manifestPoolUsage`: bytes, count, token lists, `mutationVersion`), reservations (`manifestPoolReservations`) | reserve, finalize, cancel, recover, account deletions, reconcile, prune | saver, processor, job | five requests per settlement, any of which may be the last; three kinds of actor on one document; a rebuild while everything moves |
| Pending workflows | `services/event/pending-workflows.js` | `pendingOps` records with a phase | upsert with reservation, deletion with accounting | pool, events index, owners | retry from every phase; accounting exactly once |
| EventSaver | `services/event/saver/mdb/index.js` | none of its own | save | pool, `queueOps`, fetcher | old version read long before the new one is written; enqueue with unknown outcome |
| Operation queue and owner limits | `services/event/maintainer/mdb/index.js` | `pendingOps`, popular-pubkey cache | `queueOps`, limits | all producers | cache refresh |
| Pending-operation processor | `jobs/process-pending-ops/index.js` | `__processingState__` records | batches of simple operations, workflows | queue, all indexes | batch re-applied after a crash |
| Prune workflow, owner accounting | `services/event/prune-workflow.js`, `prune-policy.js`, `stored-owner-accounting.js` | prune records with a phase, owners' `usedBytes`, delta tokens | check, promote, apply, account | queue, owners | resume at each phase; coalescing; owner created twice |
| Job scheduler and leases | `models/job/worker.js`, `trigger.js`, `dao.js`, `services/db/tasks.js` | `jobs` records, per process a runtime and a transition chain | acquire, heartbeat, end, take over, activate, deactivate | broadcaster, every job | stalls, late requests, leadership changing under an `await` |
| Cross-process broadcaster | `services/ipc/cross-process-broadcaster.js` | socket ownership, queue of broadcasts | elect, connect, broadcast, close | worker, subscriptions | stale sockets, simultaneous elections, re-queued messages |
| Relay handlers | `services/relay/**`, `REQ-LIFECYCLE.md` | subscriptions and requests per socket | EVENT, REQ, COUNT, CLOSE, AUTH | fetcher, saver, broadcaster | a CLOSE or a replacement during a query |
| Rate limiting | `services/rate-limiting/*` | buckets per socket, IP and pubkey | admit, release | handlers | leases released once |
| Trackers | `services/event/tracker/mdb/*`, `jobs/flush-*` | process-local sketches | record, snapshot, flush | jobs, broadcaster | events recorded while a flush is under way |
| Top-K, top-P | `services/top-k.js`, `top-p.js` | sketches | add, merge, decay | trackers | merge order, evictions |
| Maintenance jobs | `models/job/jobs/*.js` | cursors | page, rewrite, delete | queue, events | paging over a moving index |
| Validation, mapping, filters | `services/event/validator.js`, `models/event/*`, `helpers/subscription.js` | none | pure functions | all | left to unit tests |
| Meilisearch wrapper | `services/db/mdb.js` | task waits | submit, wait, abort on shutdown | all | a task accepted whose wait is aborted |
| Upgrade tool | `bin/mdb/upgrade.js` | the machine: binary, configuration, data, backups, services | inspect, execute, roll back | Meilisearch, pm2, systemd | a command that fails half-way, a rollback that fails, a full disk |
| Topics, HTTP and WebSocket servers, Deta backend, other command-line tools | `services/topic`, `services/servers`, `*/deta`, `bin` | little | I/O | | not modelled |

`PROJECT.json` lists the same parts with their status, and under `hazards` each place where
one of these difficulties bites, with the properties that cover it.

What makes each modelled part correct is stated in section 4; for the others the plan
(section 7) says what will be.

## 2. Modules

```
ManifestCounters          the counters, one operator per Meilisearch function
  ManifestReservations    reservation documents, finalize and cancel
    ManifestPool          savers, processor, job, queue: the whole system
      ManifestPoolProps   properties, fairness
        ManifestPoolInv   inductive invariants
          ManifestLedgerInv     the invariant behind the balance of the counters
            MCManifestPool      instances for TLC
            ManifestPoolProofs  one outcome, no orphaned token, the order of the queue, sums, the balance
JobLease                  a job's record, the task queue, one run of the job
  JobWorker               leadership, activation, timers
    JobProps              properties, fairness
      MCJob               instances for TLC
      JobProofs           the lease excludes, late ends are fenced, timers only in the leader
Subscriptions             one relay process: REQ, CLOSE, AUTH, live delivery, timers
  SubscriptionProps       properties
    MCSubscriptions       instances for TLC
    SubscriptionProofs    the relay and its clients agree
SerialQueue               abstract: what the queue of operations promises
PendingOps                its processor; implements SerialQueue
  PendingOpsProps         properties, the refinement among them
    MCPendingOps          instance for TLC
    PendingOpsProofs      what folds return, nothing vanishes, the refinement
StoredUsage               ordinary owners: saves, deletions, prune checks, stale addresses
  StoredUsageProps        properties
    MCStoredUsage         instance for TLC
    StoredUsageProofs     owners are charged for what they store, idle owners go, checks enforce
IpcElection               who serves the Unix socket
  IpcElectionProps        properties
    MCIpcElection         instance for TLC
IpcDelivery               one process's connection and its broadcasts
  IpcDeliveryProps        properties
    MCIpcDelivery         instance for TLC
    IpcProofs             of both: one server, a way back; folds over a queue, a broadcast in one place, one connection
Publication               EVENT from its arrival to OK, the queue, expiry
  PublicationProps        properties
    MCPublication         instance for TLC
    PublicationProofs     nothing lost, missed, removed or undone without a reason
Upgrade                   the guarded upgrade of Meilisearch
  UpgradeProps            properties
    MCUpgrade             instance for TLC
    UpgradeProofs         the data survive, ends are whole, the checks suffice
```

### The manifest pool

| Model | Code |
|---|---|
| `logicalBytes[s]`, `manifestCount[s]` | the fields of the same name in the counter of scope `s` (`Global`, or an author) |
| `reservationTokens`, `settlementTokens`, `accountingTokens`, `workflowTokens` | the arrays of the same name; elements stand for `<key>`, `<key>:commit`, `<key>:cancel`, an operation's effect key |
| `moved` | `mutationVersion`: which counters have changed since a reconciliation read them |
| `state[r]`, `doc[r]`, `delta[r]`, `settled[r]` | a reservation document: state; event, reserved amounts and rejection scope; actual amounts; `globalSettled`, `authorSettled` |
| `call[a]` | where actor `a` stands in `finalizeManifestReservation` or `cancelManifestReservation` |
| `event[x]` | the manifest stored under address `x` |
| `phase[o]`, `ahead[o]`, `requested`, `selected` | a `pendingOps` record and its place in the queue |
| `pc`, `cur`, `todo`, `page`, `visit`, `seen` | program counters and local variables of savers, processor and job |

One action is one request together with the computation up to the next `await`. The actions
carry the names of the functions they belong to (`SaverGlobal`, `UpsertCheck`, `CallSettle`,
`JobReconcile`, ...); `PROJECT.json` gives the lines of each.

Decisions worth knowing:

- `patchReservation` writes and reads back. The two requests are one step: nobody else writes
  the fields it is asked about between them except in ways the next step sees anyway.
- A page of the recovery pass is read at once (at most 100 documents; larger sets are paged
  by the code with the same effect, since a document is visited at most once per pass).
- The processor is the only writer of manifests in the events index, so its read of the
  current version and the patch that depends on it are one step. The exception is the
  one-time `migrate-irfs-v2` job, which is started by hand.
- Manifest kinds are owned by the relay (`RELAY_OWNED_KINDS`), so no ordinary owner's
  usage is charged in either workflow.
- The queue takes operations already started first and then the oldest
  (`PENDING_OPS_SORT`); `ahead` keeps what the order can tell apart.
- A document is retired 24 hours after it became terminal; `JobRetire` may do so once nothing
  refers to the reservation any more, and not before.
- The job may reconcile after any complete recovery pass: the hour between
  reconciliations is left out.
- An actor may stop between any two steps: savers at any time (`SaverCrash`), processor and
  job `MaxAborts` times. Work resumes from what was persisted.
- `Faults` names two environments the code comments speak of. `"slow_handoff"`: a producer is
  slower than the 60 s orphan lease. `"unknown_enqueue"`: `queueOps` throws although its task
  was accepted. They are off unless a run says otherwise.

### Jobs

| Model | Code |
|---|---|
| `record` | the job's document: running (`endedAt < startedAt`), `lockKey` (its actor), `continuationRequested`, age of the last heartbeat |
| `tasks` | mutations Meilisearch has accepted and not applied, in order |
| `current` | who last read or wrote the present `revision` |
| `run[a]`, `beat[a]`, `aborted[a]`, `resume[a]` | `startJob`: where it stands, its heartbeat, its AbortController, the `continuationRequested` it will write |
| `since[a]`, `pulse[a]` | how long a request, a wind-down or a heartbeat timer has taken |
| `leading` | processes whose broadcaster says they own the socket |
| `chain[w]`, `stage[w]`, `ahead[w]`, `cut[w]`, `runtime[w]`, `retry[w]` | in `init`: the promise chain `transition`, the activation under way and its barrier and controller, `leaderRuntime`, the retry timer |

Whether a job that is not running is due (frequency, `requestedAt`) is left open: it may always be,
which is more than the code does. `maxDuration` (12 hours and more) lies beyond the horizon of the
instances. Requests that fail in transport, `lastError`, ownership metadata and jobs without
a lock are left out.

### Subscriptions

| Model | Code |
|---|---|
| `sub[c][s]` | `ws.nostr.subscriptions[id]`: which object it is, 0 if none |
| `reqs` | the subscription objects with what their handler keeps: filters asked, their `ids` now (`left`), `.filters` (`live`), `sentEventCount`, `cleanupTimeout` |
| `ready` | deliveries between two microtasks: the client and id they stand at, the filters they captured, the entries they have still to visit |
| `idle[c]` | `inactivityTimeout`, and whether `lastActiveAtMs` moved since it was set |
| `user`, `open`, `now` | `ws.nostr.pubkey`, `readyState`, the clock in steps of one `until` |
| `wire[c][s]` | what the client can tell from the messages sent: asked, caught up, over, or something stray |

The process has one thread, so a handler is one action from one wait for the database to the
next. `send` does not wait: the `await` in front of it gives way to microtasks only. Those are
the deliveries of one IPC chunk, which `index.js:70` starts without waiting for any of them;
they take turns at each send, in the order of `ready`, and nothing else happens until they are
through, except that time may pass. Rate limits and invalid requests are one action, `Refuse`,
which may always happen. Language, topic and popularity are part of whether a filter matches and
are left out, as are id prefixes; events are older than any `until`; a handler reads the clock
once (the code reads it twice between `liveFilters` and the next expiration, `req-handler.js:76` and 222; a
filter that lapses in between would get no timer, which this model does not show).

### The queue of operations

`SerialQueue` says what producers rely on: an accepted operation stays pending until it takes
effect, once and in the order of `models/pending-op/order.js`. `PendingOps` is the processor.

| Model | Code |
|---|---|
| `queue`, `started` | the `pendingOps` records, and those whose phase is not `queued` |
| `docs` | documents of the other indexes: the sequence of operations that made them |
| `state`, `seen` | `processedOpIds` of the `__processingState__` records, and the run's copy `systemState` |
| `buffer`, `batch`, `segment` | `opsBuffer`; what `processBatch` has not looked at; the segment `flush` writes |
| `plan` | per index, the deletions and writes of a simple batch and the ids to record |
| `consumed`, `owners`, `spare` | `opsToDeleteFromQueue`, `processedPruneOwners`, `redundantKeys` |

The refinement maps `pending` to `Unapplied`: what is in the queue and in no state document. A
stop comes between two steps; a request that was sent may still take effect, but before the
next run begins, since that begins with a lease of its own and Meilisearch applies tasks in order.

### Owners and their usage

| Model | Code |
|---|---|
| `of[e]` | `ownerType` and owner of a stored event |
| `owner[o]` | the `storedEventOwners` document: `usedBytes`, `accountingTokens`, `lastActiveAt` |
| `queue` | the `pendingOps` records with phase, selected actions, step and limit |
| `drift` | an initial error of `usedBytes`, which a check sets right |
| `done` | which request of a phase was answered last |
| `unchecked` | history: owners of checks that an error used up |
| `mode`, `listed` | whether the relay runs, or which of the operator's two tools does; owners `reconcile-used-bytes` has still to visit |

Sizes are one. A save stands for the delta and the insert that one batch writes (that both
are applied once is `PendingOps`). Popularity is a choice: every process has its own copy, up to ten
minutes old. `cancelPreparedStalePruneIfReactivated` never finds what it looks for, because
only the processor writes owners and a check that began is resumed before anything else, so it is not a step.
An error that is not the network's ends an operation for good: a deletion is compensated (`FailDeletion`), a check that is still queued is
dropped with nothing done (`FailCheck`), and in a later phase the error is thrown again, which is a `Stop`.

`Upkeep` is what `resume-started-workflows.js` is for: with every process of the relay stopped (`assertPm2AppStopped`), the tool resumes
each workflow that was started, step by step as the processor would, and may be stopped as well; then `reconcile-used-bytes` charges
every owner for what it stores, and the relay is started again, perhaps earlier. The job charges while the relay runs, too;
that is observation 8 and kept out. If prune checks are left out of what is resumed, `UsageBalances` fails.

### Between the processes

`IpcElection` has files, locks and connections of several processes: `file` and `lock` are the paths and
who made them, `rec` is where `recoverStaleSocket` stands, `link` a process's connection. Each system
call on a path that others use is a step. Node's `server.close()` unlinks the path it listens on, whoever
has bound it since. `IpcDelivery` has one process: `pending` (`pendingBroadcasts`), `flight` (items by
socket), `sock`, `connection`, `connecting`, `connectionReady`, and each callback is a step; callbacks of
one turn of the event loop come before timers and before what other sockets bring. `hasty` notes the one
case in which a call of the process itself comes in the turn in which its socket broke.

### Publication

| Model | Code |
|---|---|
| `pc[s]`, `hits[s]` | where the handler of message `s` stands, what its deletion found |
| `Key`, `Keyed` | the one-time key in a private broadcast's `s` tag; deletions by such a key (`handlePrivateBroadcastDelete`) |
| `stored[r]` | index `events`, by reference (one for all versions of an address) |
| `queue`, `passed[s]` | the `pendingOps` records that insert or delete, and how many others came in while `s` writes its own |
| `due`, `late` | what `deleteExpiredEvents` has found, and what has expired |
| `live`, `gone`, `known[s]` | history: broadcast, removed, stored ever since the message came |
| `blind` | history: messages whose read of the version before them failed |

A handler's reads and writes are steps of their own, the three searches of an ordinary deletion request among them (`FindPrivate`,
`FindForeign`, `Select`). A request that fails ends the message with an error, with two exceptions: the read of other versions
is taken for an answer without any (`MissVersion`), and the read of the document that a save replaces for its absence, which changes
nothing here (its counters are observation 17). A deletion that the queue has accepted may be used up by an error with nothing done (`Consume`). The socket to the other processes is ready or not,
and delivers or not. Owner limits and manifests are the other modules'.

### The upgrade

`pc` is the phase of `executeUpgrade` or `rollback`, `flags` the fields of `state`, `sys` the machine.
A command that fails has had no effect, all of it, or what it may leave half-way (a partial copy, a configuration
that is half written). `test -e` in the rollback is taken to tell the truth. `plan.obstacles` are the things
`inspectEnvironment` looks for; each does its harm later if it is let through, so that dropping a check is noticed.

## 3. Runs

All runs pass; sizes and times are of two workers.

| Run | Instance | States, time | Shows |
|---|---|---|---|
| `crash` | 2 savers, a manifest and a smaller version of it, limit 3, any saver stops anywhere, processor or job stop once | 2.1M, 2 min | the ledger balances, the limit holds, no token is orphaned, writes only under a reservation, newest version wins |
| `live` | 2 authors with a limit each, a manifest stored at first, 1 saver, 1 deletion of either or both, 1 stop, fairness | 194k, 1.5 min | the same across authors, with rejection after the global counter was charged; everything is settled, reconciliation recurs |
| `ambiguous` | 2 authors, the stored manifest of one of them replaced by a smaller one or a new one of the other saved, 1 saver, 1 stop, `unknown_enqueue` | 663k, 40 s | types hold (no reservation is for a negative amount), a counter still takes one outcome, no reservation token is orphaned |
| `handoff` | 2 processes that may both believe to lead, 1 operator, 2 terms, 1 crash | 2.4M, 1.5 min | one run at a time, timers only in a leader |
| `recurs` | 2 processes, 2 terms, 1 crash, 1 failure, 1 outside request, fairness | 1.5 min | late ends are fenced, the job keeps being run |
| `requests` | 1 connection, 2 ids, 2 requests (two ids in two filters; an open one whose filters lapse one by one), a chunk of 2 events, fairness | 1.5 min | relay and client agree on what is subscribed, nothing is sent late, lapsed subscriptions end, idle connections are timed |
| `ops` | 3 batches out of 5 shapes, one of them late, 2 indexes, 1 key, runs of 4 operations, 1 stop, 1 check that goes on, fairness | 253k, 1 min | `PendingOps` implements `SerialQueue`; nothing vanishes; the queue drains |
| `usage` | 2 events (one a chunk) of 2 authors, one of them on the rise, 1 address, 1 deletion, 1 sweep, usage wrong by one, 1 stop, maintenance of the relay, or error that ends a deletion or a check for good, fairness | 372k, 2 min | usage balances, tokens go, limits are enforced, idle owners go, checks end |
| `election` | 2 processes, 4 starts, 2 crashes, 1 close, 1 lapse (a stolen lock, a probe that times out), fairness | 98k, 40 s | at most one server, a way back for everybody, somebody leads |
| `broadcast` | 2 broadcasts, 1 waiter, a queue of 1, 3 sockets, fairness | 166k, 1.5 min | a message is in one place, delivered to the own clients once; nobody waiting is forgotten |
| `upgrade` | both strategies, each obstacle, 6 sizes of the disk, 3 failures or a kill | 4 s | the data survive, the rollback works, the disk never fills |
| `publication` | 2 messages about 7 events (two versions, a private broadcast of their author, its deletion by key, a deletion by the author that names the older version and the broadcast, a deletion of that deletion, an ephemeral event) after at most one that was settled, 1 failure, fairness | 370k, 2 min | what is accepted is kept, what is missed is told, nothing is removed by who may not remove it, nothing older is undone |

Why these bounds. In the pool every hazard is about one reservation, or about two that touch
the same counter or address: two savers with two versions give duplicates, replacements in
both orders, a refused admission and a reconciliation among them. Sizes 1 and 2 against a
limit of 3 make one admission fail and the difference between versions visible. A second
deletion adds nothing to what a deletion can disturb: deletions only meet in the counters,
where each has its own token. A save and a deletion of one address out of two
authors meet in both counters, `live` has them. In the job instances a tick is a minute, and interval 1 and tolerance 4 are the code's
values (60 s and 240 s). `MaxDelay` and `WindDown` bound the environment: one minute for a
request to be applied and answered and one for a body to notice its signal is the largest
pair for which `OneRunner` holds; `MaxDelay + Interval + WindDown < Tolerance` is the
condition (with 2 in either place TLC finds two runs). It is not a guarantee of the code: an
aborted run sends no more heartbeats, so a body that takes longer than about three minutes to
give up is taken over while it still runs. The `recurs` run uses tolerance 2 and no delays to keep
its state graph small; nothing in its properties depends on the numbers.

In `ops` three batches are one that is being written, one accepted while it is, and one that is
accepted after but ordered before (`Late`); four operations per run separate a batch from the next. In `usage` two events make
a limit of one exceeded, a step that selects one of them, and a promotion beside a removal; two stops, maintenances or errors (`MaxStops = 2`, 814k states) and, before maintenance was added, a 3-event
instance (2.6M states) and, for `election`, 3 processes (7.8M states) passed the safety properties. In `publication` every race of a write
with a check takes two messages: the second may be a deletion that finds what the first stores before, between or after its searches, and the event
stored at first is what either of them may find from the beginning. One failure makes an event stored and not broadcast, and its duplicate the second message; with two (205k states,
without the deletion by key and of a deletion) the properties hold too. In `broadcast` a queue of one fills with two items, and three sockets are one that is destroyed,
one that is in use and one that is dialing. Sizes in `upgrade` are chosen so that every check of the disk passes on one disk and fails on the next smaller.

For subscriptions, two requests are a replacement of the same id or two
neighbours on one connection, two events are the least that interleave, and three clock steps let two filters lapse
apart and a delivery see both of them as past. One identity: see observation 6 for a change of identity.

Fairness. In the pool: an awaited request settles or its process stops; processor and
job are restarted by the scheduler (the `recurs` run is about exactly that) and stop
finitely often; 60 seconds and an hour pass, so the lease and the interval between reconciliations end (strong
fairness of the three steps that depend on them, because other steps may interrupt
them for a while). For jobs: requests are applied and answered, timers fire, bodies end, some
process gets the socket. For owners: an operator who stopped the relay starts it again. For subscriptions: a history read ends, microtasks run, timers fire. For the queue and the owners: the processor's
job is started again whenever it ends (`recurs`). Between processes: timers fire, the kernel delivers the events of a socket,
locks get old, a close ends. For publication: an awaited request settles, or its process stops, and the processor works. For the upgrade: nothing
needs it; the script ends or is killed. Crashes, losses of leadership, deletions and outside requests are never forced.

Mutants: each property of a passing run names in `PROJECT.json` a definition and a plausible
mistake in it (an operator marked `Mutant`) under which TLC finds the property violated.

## 4. Properties

Invariants that belong together are checked as one conjunction, whose named parts are in the properties module.

- `LedgerBalances`: a counter is exactly the stored manifests, those deleted and not charged
  yet, and what reservations hold. This is the property that a double charge, a lost release
  or a reconciliation at the wrong moment breaks.
- `WithinEmergency`: neither what is counted nor what is stored exceeds the limit.
- `ReservationTokensOwned`, `OtherTokensOwned`: no token is left that nobody will remove.
  A single one would defer reconciliation of that counter for ever.
- `StoredOnlyUnderReservation`, `NewestManifestWins`, `OneOutcome`: no write after a
  cancellation, no step back to an older version, no counter that both commits and cancels.
- `PoolInv` is `LedgerBalances`, `WithinEmergency` and `OtherTokensOwned` for the instance with two authors;
  `EventuallySettled` and `ReconciliationRecurs` are the pool's liveness.
- `LeaseInv`: one run of the body at a time (`OneRunner`), its lease is not free meanwhile (`LeaseIsHeld`), and who won a lease runs
  (`WonLeaseIsUsed`). `EndIsFenced`: a late end changes nothing. `RuntimeLeads`: timers only in a leader. `JobRecurs`: while some process
  leads for good, the job is run again and again.
- `SubscriptionInv`: two views of one subscription, the relay's entry and the client's reading of the messages, never differ
  (`NothingStray`, `ClientAgrees`), whichever of six paths drops the entry.
- `IdleIsTimed`, `LapsedEnds`: what nobody waits for any more is taken down.
- `ServesQueue`, `QueueInv` (`LeftItsMark`), `QueueDrains`: batches, state documents and resumed runs look to producers like a
  queue that serves one operation at a time; none vanishes; all are served.
- `UsageInv`: at most one workflow is in hand (`OneAtATime`), usage is what is stored plus what it has done and not charged (`UsageBalances`), and no token is left
  behind (`TokensAreOwned`; keys of checks are used again, so a stray one would make a later charge look applied).
  `OnlyIdleOwnersGo`, `ChecksEnforce`, `ChecksEnd`: what checks are for. The last two except a check that an error used up before it had begun (observation 8),
  and only that one: a check that has begun is not lost.
- `ElectionInv` (`OneServer`, `HasAWayBack`), `Reconnects`, `SomebodyLeads`: the election. `OneServer` holds without closes and lapses;
  observation 9 says why not with them.
- `DeliveryInv`: a broadcast is in one place (`InOnePlace`) and handed to the own clients at most once (`LocalOnce`). `ConnectionInv`: who waits
  for an answer has a timer or a place (`NobodyForgotten`), one connection at a time, and a way back (`NeverStranded`). `FindsServer`: its liveness.
- `PublicationInv` (`AcceptedIsKept`), `SeenOrTold`, `EventuallyStored`: what a client that publishes
  may conclude from its answer, and subscribers from what they see.
- `RemovedForAReason`: what a deletion removes is named by the very request that is carried out, which may remove it (`MayRemove`): by key if it is
  a private broadcast, else by its author, and no deletion. A request may also remove a private broadcast or a deletion of its author that was not in the index all the
  while since it came, because the checks precede the selection (observation 16).
- `PastIsRespected`: no older version over a newer one and no deleted event again, of what was in the index before the message came;
  a message whose read of the versions failed (`blind`) is excepted from the first half.
- `UpgradeInv`: the data survive (`DataIsSafe`). `NothingHalfDone`: an end is the old version with the old data or the new one with all of it
  (`RolledBack`, `Completed`, `Matched`). `ChecksSuffice`: what the checks let through can be done and undone (`RollbackWorks`, `Warranted`,
  `NeverFull`). `WritesKept`: nothing the relay wrote is thrown away.

## 5. What is proved

For every value of the constants that satisfies the assumptions of the modules (ranges of sizes and ranks,
disjoint key sets, `None` and the fixed names outside them), for any number of
reservations, events, deletions, authors and stops:

| Theorem | Statement | Argument |
|---|---|---|
| `Shape` | `Spec => []ShapeOK` | `Control` is inductive: it adds to the types that program counters fit their actors (`PcOK`), that whoever is going to use a document finds it (`DocKnown`), and that the processor's operation, a call's reservation and the job's visit are what their step supposes (`CurOwned`, `CallsOwned`, `VisitOwned`). Without these a step could apply a function outside its domain. |
| `Newest` | `Spec => [][...]` of `NewestManifestWins` | from `Control`: the only write is `UpsertApply`, guarded by `Wins`. |
| `SettledOnce` | `Spec => []OneOutcome` | `OutcomeInv`: a token and its settlement exclude each other in each counter (`Exclusive`), and neither exists before the saver asked (`NotYetIn`). Holds under both faults. |
| `TokensOwned` | `"slow_handoff" \notin Faults /\ Spec => []ReservationTokensOwned` | `TokensInv`: nobody touches a reservation whose saver is early (`Untouched`); a refusing counter holds no token (`Refused`); a token is in the global or its author's counter (`TokenScopes`); a flag is set after the token is gone and a state after both flags (`FlagsAfterTokens`, `CallsInOrder`). Settlement needs `Exclusive`, so the induction runs over `OutcomeInv /\ TokensInv`. With `slow_handoff` the statement is false: a cancelled producer adds its token afterwards. |
| `Balances` | `Faults = {} /\ Spec => []LedgerBalances` | `PoolInvariant`, explained below. |
| `LimitsHold` | `Faults = {} /\ StartsWithin /\ Spec => []WithinEmergency` | only an admitted reservation raises a counter (`Limited`); a counter never shows less than what is stored, because what reservations hold is never negative (`StoredShown`). |
| `OthersHaveOwners` | `Faults = {} /\ Spec => []OtherTokensOwned` | `TokensOneWay` (a settlement token belongs to a document on record) and `DeletionOK` (an announcement to a deletion under way). |
| `PoolSafe`, `PoolTypes` | `[]PoolInv`, `[]TypeOK` under the same hypotheses | the three above; `PoolInvariant` contains the ranges of the amounts. |
| `WritesReserved` | `Faults = {} /\ Spec => StoredOnlyUnderReservation` | `Backed`: a reservation that may still be written has its token in both counters (`ApplyWrites`). |
| `RebuildsConfirm` | `Faults = {} /\ Spec => RebuildConfirms`: a reconciliation that is accepted writes what the counter showed | `ScanExact`. |
| `TimersLead` | `Spec => []RuntimeLeads` | `RuntimeLeads` with the domain of `runtime` is inductive: the look at leadership in `Activate` and the synchronous stop in `Depose` are the two steps that matter. |
| `RequestsAwaited` | `Spec => [](TypeOK /\ RequestInv)` | a request in the queue is one its actor waits for (`TasksAwaited`), and an actor has at most one of its run and one of its heartbeat there (`TasksApart`); a heartbeat belongs to a body or to a run that is stopping (`BeatsInRun`). So what is answered late still finds the run that asked. |
| `EndFenced` | `Spec => EndIsFenced` | from `RequestInv`: the end that is applied is awaited, so its run is at `ending`, and it writes only if `lockKey` is its own. No bound on time is used. |
| `LeaseExcludes` | `Present /\ InTime /\ Spec => [](OneRunner /\ LeaseIsHeld)` | `HeldInv`, explained below. |
| `WonIsUsed` | `Present /\ InTime /\ MaxRequests = 0 /\ Spec => []LeaseInv` | `Used`: the holder of a running lease is in its run, or has an acquisition to read back and still knows the revision. A patch from outside breaks it (observation 4), hence the third hypothesis. |
| `ElectionSafe` | `ElectionSpec => []ElectionInv` | `ElectionIndInv`: a process without a connection has its timer whatever its recovery is about to do, and none after `close()` destroyed the connections (`TimerSet`, more than `HasAWayBack` says); between two calls on shared files a process is up (`BusyIsUp`); while nothing closes or lapses, the path names its server, the lock its live owner, a probe that finds nobody found a file left by a crash, and the path is free at the start and under the owner of the lock only (`OneOwner`). Without the last part `OneServer` is not inductive: a path unlinked for a server that answers would let a second process bind. |
| `KeptOnce` | `Spec => []DeliveryInv` | `ItemInv`: queue and flights share nothing and repeat nothing (`Apart`); who is waited for is held somewhere, who is queued is waited for, and who is in flight was neither delivered here nor reported as sent (`Accounted`). |
| `StaysInTouch` | `Spec => []ConnectionInv` | `ConnInv`: a connection that is set has a usable socket (`Linked`), a process that says it is connecting is (`Dialed`), and, as long as it was not hasty, two sockets are never in use and a dialing one is known (`Single`, of which `OneConnection` is a part that is not inductive: a socket that is gone or destroyed counts until its "close" event). |
| `DataSurvive` | `Spec => []UpgradeInv` | `UpgradeIndInv`: the old database is in place and nothing points elsewhere up to the step that moves or copies it (`Untouched`), whole in the backup after (`BackedUp`), and a rollback that has not restored yet finds it where its flags say (`Restorable`). It needs what was checked at the entrance (`LetIn`): with the backup on another filesystem a move that fails may leave parts at both ends. |
| `EndsWhole` | `Spec => []NothingHalfDone` | `MachineInv`, explained below. |
| `WritesStay` | `Spec => WritesKept` | `Undone`: unless a restart was taken for a failure (`early`), data the relay has written to are met in final states only, which no step of the script leaves. |
| `ChecksAreEnough` | `Spec => []ChecksSuffice` | `ChecksInv`, explained below. |
| `QueueKept` | `Spec => []QueueInv` | `QueueIndInv`, explained below. |
| `QueueServed` | `Spec /\ [][KeepsRecord]_vars => ServesQueue` | each step of the processor is a step of `SerialQueue` or a stutter, over `QueueIndInv` and `OrderInv`; below. `KeepsRecord` says that a run that stops has recorded what it knows to be done; observation 8 shows what happens without it. |
| `OneStopServed` | `MaxStops <= 1 => (Spec => ServesQueue)` | `FirstRun`: the first run finds no record, and what it knows to be done is gone from the queue before it writes the next record, so it always keeps `KeepsRecord`. |
| `AcceptedStays` | `Spec => []PublicationInv` | `PublicationIndInv`; for this part: a key holds an event of that key (`Placed`), and what is about to be broadcast is kept (`Relayable`). The queue is reasoned about as a set of operations (`Accepting`, `Applying`): where among the others an operation is inserted matters to none of the three. |
| `MissedIsTold` | `Spec => []SeenOrTold` | `Covered`: an event that is stored or only queued has been broadcast, or has a message past its own write that was not told OK. A message before its write does not count: it may find the event stored and be answered as a duplicate. |
| `RemovalsJustified` | `Spec => RemovedForAReason` | `Justified`: what a handler or the job found may be removed, and what an operation in the queue names may be removed by the very message it came from (`Warranted`). `Spares` follows an ordinary request through its searches: after the first, no private broadcast of its author that it names has been in the index since it came, after the second no deletion has; what a search has not found and is still known was found by none, as `known` only loses events. Together with `Afterwards` (a deletion takes what is still under its key) no newer version is removed. |
| `NoneStray` | `Spec => [](TypeOK /\ NothingStray)` | `ServedInv`: the client of an entry waits for it, and for its EOSE while its history is read (`Known`); a delivery stands at an open connection, the filters it captured are positions of the entry it will write them to, and of the entries it took along those that are gone have no filters left (`Fit`). So a send never concerns what another delivery has ended (`HitsAreEntries`), and changes nothing the client knows (`Advances`). |
| `ClientsAgree`, `EmptyOnesAreTimed` | `Spec /\ [][KeepsIdentity]_vars => []SubscriptionInv`, `[]IdleIsTimed` | the converse of `Known`, `Told`, and the timeouts, over `ServedInv`. `KeepsIdentity` says that a connection that has an identity keeps or loses it; it holds in the run, which has one pubkey, and observation 6 shows what happens without it. |
| `ChargedOnce` | `Steady => (Spec => []UsageInv)` | `UsageIndInv`, explained below. |
| `IdleOwnersOnly` | `Steady => (Spec => OnlyIdleOwnersGo)` | from `UsageIndInv`: an owner goes when its check ends. A token belongs to the operation in hand (`TokensFit`), so there is none when a check ends before it began, and one that ends after its last phase has cleared its own (`DoneFits`); the charge is then what is stored and an error that is not negative, and code that finds at most zero charged and nothing stored finds exactly that. |
| `ChecksAreKept` | `Steady => (Spec => ChecksEnforce)` | named operations have different names (`Apart`), so a check whose name is gone is the one removed; `EndCheck` and `Finish` remove it after they looked at its owner, `FailCheck` removes one that is still queued, and what else is removed is no check. |
| `PastRespected` | `Spec => PastIsRespected` | `Checked`: what the checks of a message excluded stays excluded until its operation is applied, because `known` only loses events; about versions it says so (`Latest`) unless their read failed; `NewerIsFound`: a more recent version that is stored is under the key the check reads. |

The balance of the pool's counters needs almost everything the pool does. `PoolInvariant` is `OutcomeInv`, `TokensInv` and `LedgerInv`
(module `ManifestLedgerInv`), which has these parts:

- `QueueInv`: an operation whose work has begun, if only in the document of its reservation, is the first of the queue, so at most one is half done.
  Without it a manifest could change between the comparison in `processManifestUpsert` and the charge.
- `WaysInv`: each reservation goes one way. Its document, its operation, its settlements, the copies that runs of finalize and cancel hold, and the
  job's page agree on whether it was written or dropped (`Placed`, `TokensOneWay`, `PageOneWay`, `CallOneWay`); the recorded amounts are within the reserved ones
  (`Covered`) and exact until the write (`Exact`); and who finds neither token has lost to a run that is over (`ClearedLast`, `ProcessorCall`).
- `DeletionsInv`: what a deletion has removed is announced in the global counter until it is charged, and is charged to each counter once.
- `ScanExact`: while a counter has not moved since it was read, the scan shows what the counter shows, and none of its deletions is open. It is what
  makes a reconciliation harmless although its scan, its reading of the counters and its writes are separate requests.
- `LedgerBalances` itself, with `AmountsOK` and the finiteness of token sets.

`Faults = {}` says that an enqueue is known to have succeeded or failed and that no producer outlives the orphan lease; observations 1 and 2 show that the
balance is false otherwise. `StartsWithin` says that what was stored at the start was within the limits. The assumptions on constants that these
proofs add are `AddressAssumption` (an address has one author, and ids are of finite length, so that events are finitely many) and
`MissingAssumption` (a missing field is no amount). Sums are `SumFunction` of the community modules, a fold. The provers cannot unfold a fold for
every input, but the function it recurses through can be characterized: a sum over a finite set is the number of pairs `<<x, i>>` with `1 <= i <= f[x]`
(`SumIsCount`), shown from a least counterexample (`FiniteInduction`), and facts about sums become facts about cardinalities.

That the lease excludes is a matter of time. `HeldInv` follows the age of the last heartbeat through a run: it is at most the time since
the acquisition was sent when that is read back (`Prompt`, `Won`), at most `MaxDelay` plus the time since the timer was set while that runs, at most
`MaxDelay + Interval` plus the time since it was sent while a heartbeat is under way, and the same plus `WindDown` for a body that was aborted (`Young`).
`InTime` says that both sums, `MaxDelay + Interval + MaxDelay` and `MaxDelay + Interval + WindDown`, are below the tolerance; in the code (`trigger.js:11`) the
interval is one minute and the tolerance four unless a job sets its own, so requests may take almost a minute and a half. So nobody finds the lease of a body free
(`YoungIsNotFree`), and whoever found it free before and is still the last to know the revision finds it free when its write is applied (`Takable`).
Without `Takable` the invariant is not inductive: between the reading and the conditional write another process may have begun its body. `Present` excludes
observation 3. Neither hypothesis is used for `EndFenced`.

The script of an upgrade keeps a set of flags, and its rollback reads nothing else. `MachineInv` is `UpgradeIndInv` with what the flags say of the
machine. `Flagged`: what no flag announces has not been touched, and what may have been touched was copied first; `Sound`: what each phase of the
upgrade finds; `Undone`: what each phase of the rollback has put back, and that it does not run under a relay it does not know of. None of the three is
inductive without the others: `Sound` gives the flags with which a rollback begins, `Flagged` what they mean at each of its steps. `ChecksInv` adds three
more. `Inspected` keeps what `inspectEnvironment` found, as the plan does not change. `Unfailing` says how the machine stands in a rollback no command of which
has failed (the server off until it is started again) and in an upgrade none of whose commands has. `Room` follows the free space: at each phase it is at least
what the remaining ones use, given that `DumpImportRequired` and `Required` were free when they were looked at; it is linear arithmetic with two
roundings (`Rounding`), over any sizes.

`requeueInFlight` and `flushQueue` are folds over a queue of any length, which the provers cannot unfold, and a theorem about a recursive definition is out of
their reach. `RequeueFolds` and `FlushFolds` therefore first show that the function the fold of the community modules recurses through exists, on the subsets of
the positions, and `RequeuesAll` and `FlushesInTime` say what comes out: nothing twice, nothing lost from the queue, nobody put back who was answered, at most `MaxQueue`.
Each supposes a least set of positions for which it fails (`SubsetInduction`). Items and waiters are different (`DeliveryAssumption`); attempts stop at the number of
sockets there are, which the instance never reaches.

The charge of an owner is compared with sets, without sums. `UsageIndInv` says that at most one operation is in hand (`Apart`) and, of an owner it has still to
charge, that `usedBytes` is the number of events the owner `Had` before the operation began: those the operation takes from it, and those it has and the operation does
not touch. Removing an event, or passing it on, does not change this set, so stops in the middle of the removal are harmless; at the charge the difference
between what an owner had and has is exactly `Delta`, and from then on its token says that it `Has` what it is charged for (`Balanced`). For this each
event selected must be with the owner it was selected from or where the phase has brought it (`Meets`), no save in the queue may bring back an event that a
workflow removes (`Apart`), and a token must belong to the operation in hand (`TokensFit`), which is why keys can be used again. When the operator
reconciles, nothing is in hand. `Steady` says that an event whose deletion may be requested cannot pass to its author: such a deletion keeps the owner it found when it was
requested (observation 8) and would charge the address for what the author stores by then. The instance satisfies it.

The processor works out in memory, for a whole segment, what `SerialQueue` does one operation after the other; both are folds over a set of
operations, from the first to the last. `DoneStep` and `EvaluatedFits` first show that these folds are what their last operation makes of the rest
(`RecursionExists`, from `SubsetInduction`, and `RecursionAgrees`). `Fits` then says of a plan and the documents it was made for that, key by key, the planned
writes and removals are what the operations make of the document. It is kept by the dispatch of one more operation (`DispatchFits`), by
the first of the two requests, which removes documents (`AfterRemoval`: after a removal it does not matter what was there), and by batches accepted
meanwhile (`AfterStays`). The rest of `QueueIndInv` says what a run holds at which place (`Placed`), that segments are beginnings of batches (`Segmented`),
and what is recorded as done (`Recorded`): nothing that is planned has been recorded, and whatever is queued and recorded is known to the run or planned. Without `Recorded`
an operation that was applied before a stop could be applied again. `Marked` is `LeftItsMark` for everything that is done, whether it has left the queue or not.

For the refinement the order matters as well. `OrderInv`: an operation that is pending and comes before one that the run took was taken too, unless it is a check or
was accepted later; this is what a sorted page (`FirstIsDownward`), merged into what was fetched before, is for. So the operations of a segment
overtake only later arrivals, and a check is reached after the writes of its batch: these come before it in the batch (`DeferredFacts`), so they were taken
with it or before. It also holds of a check that was left in a phase by a stop (`Ready`). `ShapesAssumption` (no empty batch; no index in which documents are both merged and removed) is
used where the code needs it, see observation 15.

Only model-checked: everything under fairness, that is the ten liveness properties (`EventuallySettled`, `ReconciliationRecurs`, `JobRecurs`, `LapsedEnds`,
`QueueDrains`, `ChecksEnd`, `Reconnects`, `SomebodyLeads`, `FindsServer`, `EventuallyStored`): liveness and `ENABLED` are out of the prover's reach, as are
`RECURSIVE` operators. No module here declares one. Every other property that a run checks is stated by a theorem.

## 6. Observations

Behaviours met while modelling that a reader of the code should know. Where a constant is named, changing it in
the instance shows the behaviour; the others follow from the lines given.

Pool and jobs:

1. When an enqueue is accepted but reported as failed (`Faults = {"unknown_enqueue"}`), the saver's cancellation and the processor's commit divide
   the two counters between them; finalization then throws on every recovery pass (`manifest-pool.js:681`), and the manifest is stored
   and never charged, although the comment at `recordManifestUpsertFailure` counts on recovery. `StoredOnlyUnderReservation`
   and `OtherTokensOwned` fail too.
2. With `Faults = {"slow_handoff"}` recovery cancels the reservation of a producer that is under way, which the comment at
   `manifest-pool.js:693` rules out. The lease is measured from a time stamp the producer writes before it begins to wait for its own requests, without limit.
3. `putJobByKey` (`trigger.js:29`) replaces a record that appeared after it was looked for: with `Present = FALSE` in `handoff`, two run.
4. A conditional write of a lease is judged by a later read (`dao.js:63`); any patch in between turns a win into a loss:
   `WonLeaseIsUsed` fails with `MaxRequests = 1`. The job then rests until the tolerance has passed (`recurs` shows that it resumes).

Subscriptions:

5. Two deliveries that interleave each write back the filters they captured (`event-handler.js:254`). A filter whose ids were
   all delivered returns without ids, and such a filter matches everything (`subscription.js`).
6. `authenticate` replaces the subscriptions by an empty object when the identity changes: no CLOSED is sent, timers stay,
   and no inactivity timeout is set. `ClientAgrees` and `IdleIsTimed` fail with two elements in `Pubkey`.
7. `AllRequestedEventsWereFound` compares counts (`req-handler.js:81`): with ids {a, b}, a delivered live and found again in the
   history, the request is closed as completed before b was seen. A delivery that resumes on a subscription another one has ended
   throws, and the clients it had not come to never get the event.

Queue and owners:

8. With two stops (`MaxStops = 2`) `ServesQueue` fails: the state document is overwritten with the ids of the second batch only
   (`process-pending-ops/index.js:519` and 554), so a batch whose removal from the queue failed may be applied again. The test "should
   handle idempotency (skip processed ops)" covers one stop. In `StoredUsage`: a deletion keeps the owner found when it was
   requested, also when the event is promoted before its turn; a replacement subtracts the old version it read, also when that has
   gone since; two saves of one event that are both queued are charged twice; `reconcile-used-bytes`, `maintain-storage-tiers` and
   `handleNoActions` write a `usedBytes` they read earlier; a stop between the compensation of a failed deletion and its
   removal leaves both, and the compensation charges again once the tokens of the first are cleared.
   `Deletable` and the order of saves keep these out of the run.
  A prune check that meets an error which is not the network's while it is still queued is removed with nothing done
  (`pending-workflows.js:417`), and its owner stays over its limit until something queues another check: `ChecksEnforce` and `ChecksEnd` name the
  exception.

Processes:

9. A leader that closes unlinks its path twice: `server.close()` does, and `close()` again after it (`cross-process-broadcaster.js:634`).
   A process that bound the path in between loses it, another one binds it, and two lead, contrary to the tests
   "elects exactly one leader and fails over" and "recovers a stale socket with one elected server".
   A lock that is stolen from a slow owner has the same effect. The robbed server never connects to the other one, and only servers register `close` with the process.
10. A broadcast in the turn of the event loop in which the connection broke begins a second connection (`hasty`), and a
    process with two gets messages twice. A broadcast that timed out in flight may still be delivered; one that is made while the queue is being flushed
    overtakes it, and what goes back from several writes goes back in reverse.

Publication and upgrade:

11. An event whose broadcast failed after it was stored is answered with a retry; the retry is a duplicate with OK and is never relayed
    (`event-handler.js:83` and 108). `SeenOrTold` names the exception.
12. Checks read the index and not the queue: of two versions in flight the older may be written last, a
    deletion that races with a save may miss it. `PastIsRespected` speaks of what was in the index before the message came. The check for a former deletion asks for
    one by the event's author, so a private broadcast that was deleted by key (kind 3560) can be stored again.
13. `pm2 restart` that takes effect but reports failure (`upgrade.js:1574`) is rolled back under a relay that runs (`early`).
14. Reactions to one event share a key (`mapper.js:150`), and so do deletions of one author with the same d tag (`mapper.js:128`), but versions are
    compared for other events with a d tag only (`saver/mdb/index.js:66`, 87): an older reaction that comes late replaces the newer one, and a
    deletion replaces another with all that it named. In `Publication` such events share `Ref` and are not in `Newer`. A deletion that a
    former deletion names is stored: `PastIsRespected` leaves deletions out, a condition the proof asked for.

Queue, met while proving:

15. While the removal of a document is planned, `getDoc` (`process-pending-ops/index.js:161`) answers that there is none, also when a merge
    of the same segment has written it since; of two merges after a removal the first is lost. Only events are removed through the
    queue (`generate-localized-topic-assertion-events.js:269`), and merges write to other indexes, so it does not happen today.
    `ShapesAssumption` says so; the proof of `DispatchFits` asked for it.

Publication, searches and failed reads:

16. "Ordinary NIP-09 authorization never applies to private broadcasts" (`saver/mdb/index.js:408`), but a request is checked by two
    searches (411, 424) and selects what it removes in a third (431): a private broadcast of its author that is applied in between is removed without the
    key, and a deletion likewise. Without `e \notin known[s]` in `MayRemove` TLC shows both for `RemovedForAReason`.
17. A version read that fails is taken for the answer that there is no other version (`models/event/dao.js:12` catches every error,
    `saver/mdb/index.js:91` does not look at `error`): the message is stored, and may put an older version over a newer one. The read of the
    document it replaces (108) is treated alike; then that version's counters and its owner's usage are not given back.

## 7. Plan

| Step | Module | Properties | Theorems |
|---|---|---|---|
| 5 | `RateLimits`, `PruneSelection` (`findBoundaryScore`) | what is counted is given back; a selection frees enough and prefers what nobody asks for | bounds |
| 6 | `RejectionMetric`, legacy counters | a rejection is counted once | |
| 7 | `StorageTiers`, trackers | flush loses nothing that was recorded | |

## 8. Not modelled

Of the pool: the rejection metric, the trigger of capacity pruning and the choice of what to prune, and counters or events from before
the pool existed. Of saving: engagement counters and co-occurrence statistics. Of owners: popularity levels, storage tiers, and
`reconcile-used-bytes` while the relay runs. Of the IPC: the server's relaying to several clients, partial lines, the leadership handlers' own work
(`JobWorker` has it). Of the upgrade: downloading and checksums beyond success or failure, the parsing of configuration files.
Not at all: rate limits (counters in sliding windows, each request one synchronous step; a refusal is a choice. Read and not
checked: a connection is counted at the handshake, and again by AUTH under its pubkey, `auth-handler.js:31`; the release that follows a
refusal, `web-socket-request-limiter.js:71`, gives back one place whoever took it), sketches and statistics (estimates), validation, mapping
and filters (pure data conversion, left to unit tests), topic detection and images, HTTP and WebSocket servers (I/O), diagnostic commands
(they only read), `migrate-irfs-v2` and the initialization of indexes in `mdb.js` (run once), and the Deta backend, which the configuration does not select.

## 9. Running

```
tlc -workers 2 -config MCManifestPoolCrash.cfg MCManifestPool
tlc -workers 2 -config MCPublication.cfg MCPublication
tlapm StoredUsageProofs.tla
```
