# TLA+ models of TundraLibs

TundraLibs is a monorepo of nineteen cross-runtime TypeScript packages. This
directory models the parts of it whose correctness depends on the order in which
asynchronous steps happen, checks them with TLC on small instances and proves
their main safety properties with TLAPS.

## How the code runs, and how it is modelled

All packages run on one JavaScript thread. Code between two `await`s, and a
callback of a timer or a socket, runs to its end without interruption; what
happens at an `await` depends on every other task of the process. So an action of
a module is one synchronous segment of a function, from the entry, an `await` or
a callback to the next `await` or return, and everything that is awaited (a
factory, a validation, a socket close, a timer, another call) ends in an action
of its own, in any order.

## Inventory

| Component | State | Operations | Interacts with | What is hard |
| --- | --- | --- | --- | --- |
| drivers: `ConnectionPool` | idle list, active set, hand-off set, pending count, waiter queue, idle timers, draining flag | acquire, release, destroy, ensureMin, drain, idle eviction | engine hooks (create, destroy, validate), the lifecycle | every operation awaits; capacity is counted across buckets; a drain overtakes anything |
| drivers: lifecycle (`poolLifecycle`, `ConnectionEngine`) | status | connect, disconnect, ping | the pool | connect and disconnect overlap; warm-up fails half way |
| drivers: `SQLEngine` | transaction registry, busy flags, timers, savepoints | execute, begin, commit, rollback, savepoints, timeout, disconnect | the pool, the database | a timeout or disconnect lands during a statement |
| rpc: `Client`, `Server`, pub/sub | pending calls, reconnect timers, subscriptions, sockets | call, cancel, subscribe, reconnect, dispatch | WebSocket | loss, reconnection, late answers |
| slogger | handler queues, buffers, file rotation | log, flush, finalize | files, sockets, HTTP | batching across awaits, back-pressure |
| tracer | span buffer, export in flight | end span, flush, shutdown | exporter | export overlaps shutdown |
| cronus | jobs, running flags, timer | add, tick, start, stop | user callbacks | overlap policies, stop during a run |
| cacher | entries, expiry, connection | get, set, delete, expire, init, finalize | Redis, Memcached | expiry against read |
| utils | once, memoize, throttle, events, options | call, emit | everything | concurrent first calls, failures |
| norm | schema registry, migrations, repositories | migrate, diff, CRUD | drivers, oql | one migration of several fails |
| metro-man | counters, windows | inc, observe, collect | | window rotation |
| doctor | vials, scopes | inject, dispose | | cycles, scoped lifetimes |
| pact | sessions, permissions, tokens | login, verify, refresh | crypt | stale keys, bit masks |
| restler | request, retry, rate state | call | HTTP | timeout against answer, retry |
| radrouter | radix tree | add, find | | pure algorithm |
| ambient | async-local context | run, get, set | runtime | |
| id | counters | next | clock | rollover |
| guardian, oql, crypt, compat | none of their own, or the runtime's | | | pure data transformation or runtime adapters |

What makes each of them correct: a pool never exceeds its size, lends a
connection to one caller at a time and serves whoever queues; an engine never
stays open over a draining pool; a transaction gives its connection back once,
clean, sends one request at a time and tells its caller the truth; an RPC call
settles once; a span is exported at most once, a log record acknowledged at most once,
and neither forgotten; a
job's overlap policy holds; a cache never returns an expired entry; a migration
is recorded exactly when it was applied.

The project covers the parts where those sentences depend on the order of events:
`packages/drivers`, on which the persistent half of the repository rests, with its
three layers (pool, lifecycle, transactions); the migrator of `norm`; the client and
server of `rpc`; and the background work of `tracer`, `slogger` and `cronus`.

## The modules

| Module | Models | Builds on |
| --- | --- | --- |
| `ConnectionLeases` | what a pool promises its callers, without saying how | |
| `ConnectionPool` | `ConnectionPool.ts` | shown to implement `ConnectionLeases` |
| `PooledEngine` | `poolLifecycle.ts`: connect, disconnect and use of the pool | extends `ConnectionPool`; its pool implements `PoolSpec` |
| `SQLTransactions` | the transactions of `SQLEngine.ts` | assumes of the pool what `ConnectionLeases` says |
| `Migrations` | `Migrator.ts` and `FileLock.ts` of norm: processes that migrate one database | the database and its advisory lock as `executor.ts` uses them |
| `RPCChannels` | subscriptions and requests of `rpc/Client.ts` at `rpc/Server.ts` | a connection that breaks |
| `RPCConnection` | connect, close and reconnect of `rpc/Client.ts` | sockets |
| `SpanBatches` | `BatchSpanProcessor.ts` of tracer | an exporter |
| `LogBatches` | `HTTPHandler.ts` of slogger | an endpoint |
| `Cronus` | `Cronus.ts` | timers and user actions |
| `MC...` | symmetry sets, the label functions, plans and sizes, for TLC; `MCServices` puts the last four beside each other | |
| `ConnectionPoolProofs` | sizes, counters and the queue | `ConnectionPool` |
| `ConnectionOwnershipProofs` | who has which connection, drain, the refinement | `ConnectionPoolProofs` |
| `ConnectionEvictionProofs` | the idle timers | `ConnectionOwnershipProofs` |
| `PooledEngineProofs` | that the engine drives its pool rightly, its status against the pool's, the queue | `PooledEngine`, `ConnectionEvictionProofs` |
| `SQLTransactionsProofs` | who holds a connection, who ends a transaction, what is told of it, who sends on it, which savepoints exist | `SQLTransactions` |
| `MigrationsProofs` | the two locks, the history and the checkpoints | `Migrations` |
| `RPCChannelsProofs` | subscriptions at the client and what the server confirms of them, hooks at the server | `RPCChannels` |
| `ServiceProofs` | the four components of `MCServices`, each by itself | `RPCConnection`, `SpanBatches`, `LogBatches`, `Cronus` |

An operator whose name says what goes wrong (`ParkCountsLate`,
`ServeWithoutShift`, `ConnectWarmedBlindly`, ...) is no part of a specification. It stands
before the definition it distorts, the way a plausible mistake would, and
PROJECT.json names the property that notices.

### ConnectionPool

The fields of the class are variables of the same names: `idle` (`__idle`),
`active`, `waiters`, `idleTimers` (the keys of the map), `pending`, `handoff`,
`draining`. The other variables are the suspended calls: `pc[c]` and `res[c]` say
where the `acquire` of caller `c` is and which connection it has;
`backfill`, `warm[w]` and `warmDrop[w]` are the factories of `__createForWaiter`
and `__createWarm` in flight and the closes of the latter; `destroying` and
`forgetting` are the closes of `destroy` and of the places that only close;
`drainQ[h]` is what is left of a `drain`'s local list.

- `acquire`: `Acquire` runs to the first await (validation of an idle
  connection, the factory, or the queue); `AcquireValidated`, `AcquireInvalid`,
  `AcquireDiscarded` (the close of the dead one, then around the loop without a second look at
  the draining flag), `AcquireCreated`, `AcquireCreateFailed` and
  `AcquireTimeout` are its continuations.
- `release`: `Release`, which leads to `HandToWaiter` or `HandToWaiterInvalid`
  when there is someone to serve and parks the connection (`Park`: the push and
  the idle timer) when not.
- `destroy`: `Destroy`, then `DestroyDone`, which runs `__pumpWaiters`;
  `BackfillDone` and `BackfillFailed` end the factories it started.
- `ensureMin`: `Reopen` (the setter and the call, as the lifecycle makes them),
  `WarmCreated`, `WarmDropped`, `WarmFailed`.
- `drain`: `Drain` takes the idle list and rejects the queue; `DrainStep` closes one
  connection after another.
- `OnIdleTimeout` closes one idle connection and starts the background `ensureMin`.

A closed connection's name is used again: names are no bound on the number of
connections a run opens. `PoolSpec` lets any caller and any host act whenever the
class allows it, so what holds of it holds under every engine.

### PooledEngine

`status` is `_status`; `op[h]` is where an invocation of `connect` or
`disconnect` is suspended. `Connect`, `ConnectWarmed`, `ConnectFailed`,
`ConnectCatch`, `Disconnect` and `Closed` are the segments of the two functions.
`Operate` is everything an engine does with the pool.

### SQLTransactions

`transactions` is the registry `_transactions`, `tx[t]` the `TxRecord` of task
`t`'s transaction. `run[t]` is where `transaction(fn)` of the task is, `job[s]`
one asynchronous call on a scope (a statement, a nested block) or an `execute`
outside any, `scope` the record a `TransactionScope` is pinned to, `alarm` a
timeout callback that awaits its ROLLBACK and `closer` the loop of
`rollbackAllTransactions`. Two things are outside the file: the pool of
`ConnectionPool.ts` (`lent`, `dead`) lends what nobody has, or refuses; the database (`open`, `marks`) has a
transaction and its savepoints per connection, and may fail any request. A
database request and its answer are two actions, so a timeout, a disconnect or
another statement may come between.

The constants name what a program can do to the engine: use one id for several
tasks (`Label`), begin under one id at the same time (`BeginsRace`), not await its
statements, so that COMMIT or RELEASE may be sent over one (`Overlaps`), call disconnect (`Disconnects`); and the options
`autoRollbackOnFailure` and `transactionTimeout`. `CommitSticks` says whether a
failed COMMIT can leave the transaction open on the server, which depends on the
database.

### Migrations

`file[h]` is whose token `migrator.lock` of a host carries, `age[h]` how many statements
have ended since it was stamped (time is counted in statements: a dialect's `staleMs` is
how many of them `lockStaleMs` outlasts), `advisory` the holder of the server's lock; `history`,
`progress` and `schema` are `_norm_migrations`, `_norm_migration_progress` and what is
really in the database. `call[p]` is where the `apply()` or `rollback()` of a process is.

- `FileLock.acquire`: `Probe`, `Create`, `ReadBack` (after the settle time), or `Judge`
  and `Reclaim`; `Stamped` is `touch`, `Release` deletes the file if it is still ours.
- `__withAdvisoryLock`: `WithAdvisoryLock`, `AdvisoryTimeout`, `Unlock`.
- `apply`: `Apply`, `MakePlan` or `Refuse`; `rollback`: `Rollback`, which reads the head
  before the locks, and `RollbackPlan`.
- One version where DDL is transactional: `Begin`, a `TxStatement` for each statement, over
  which the lock file only gets older, and `Transaction`, the commit; elsewhere `ReadProgress` or
  `PlanChanged`, then `Ddl`, `WriteProgress` and `TouchLock` per statement, `Record` and
  `ClearProgress`. `NextVersion` re-stamps and goes on, `Fail` is a refused statement.
- `Crash` kills a process at any await; what goes with it (the session, its advisory lock
  and transaction) and what stays (the file) is outside the code.

Three constants say what those who deploy keep to; the code sees to none of them, and "What
the code does not guarantee" tells what happens otherwise. `SettleSuffices`: no look, write
or deletion of the lock file is still under way when the settle time of another contender
has passed. `RollbackAlone`: a rollback runs beside no other call. `WholeVersions`: it starts
when no version is half applied. `LocksWork` adds to the first that, on a dialect without an
advisory lock, `lockStaleMs` outlasts all the statements of a transactional version.

A statement creates or drops an object with the clauses the dialects emit: tables
`IF NOT EXISTS` and `IF EXISTS`, columns without, so that running one twice fails.

### RPCChannels

The client's `_subscriptions`, `_pending` and `_pendingUnsubs` are `subs`, `pending` and
`pendingUnsubs`; `server[k]` is what the server's state of connection `k` is subscribed
to. `in` and `out` are the frames under way, `authz`, `revoking` and `working` the
frames whose hook or handler is awaited, which the server does for many frames at once.
`app[c]` is where the user of a channel is, `presence` the calls of `onSubscribe` less
those of `onUnsubscribe`. `Open` includes `_resubscribeAll`; `Break` ends a connection,
and `ClientClose` and `ServerClose` are the two close events, each in its own time, with
what their `_handleClose` rejects and fires. `Subscribe`, `Unsubscribe` and `Call` are
the client's operations, `Dispatch...` its answers to the three kinds of frame,
`Timeout` the request timer, after which the answer may still come. `HandleSubscribe` runs to the await of `authorize`,
`Authorized`, `Refused`, `Revoked`, `AuthorizeThrew` and `AuthorizedTooLate` are how it
goes on, by what `may[c]` says that the hook answers, which `Regrant` changes: with `Steady`,
only while nothing about the channel is under way. `HandleUnsubscribe`, `HandleCall`, `RefusePublish` and `HandlerDone` are the rest.

### RPCConnection

`state`, `ws`, `closeRequested` and `attempt` are the fields; `sock[s]` is what a
socket does and `opener[s]` whose `_openSocket` waits for it: a `connect()`, one that
cancelled a backoff, or the backoff itself. `parked` calls of `_scheduleReconnect` sleep;
a `connect()` or `close()` makes them `woken`, and they go on (`GoOn`) after the caller's
synchronous part. `Opened`, `OpenFailed`, `HandleClose` and `Aborted` are the events of a
socket with the continuations they resolve.

### SpanBatches, LogBatches, Cronus

`SpanBatches`: `Export` of one span, as `Tracer` calls it, the timer's callback,
`ForceFlush`, `Shutdown` and `ShutdownExporter`; `Flush` is `__flush`, whose exporter may throw.

`LogBatches`: `Handle`, `Finalize`, `SendLogs` and the three ways a request ends: `Delivered`;
`Failed`, which did not reach the endpoint or was refused; and `Unheard`, which the endpoint
took though the handler learns of a failure (the reply is lost, or `cancel()` of its body
rejects) and sends again. `Restored` is what the catch does. `chain` is `__sendChain`, one
request after another; `taken` is what the endpoint received, `delivered` what it
acknowledged. `headersOk` says whether the configured headers can be built: if not,
`SendLogs` throws between emptying the buffer and the `try`. Records are numbered.

`Cronus`: `Add`, `Remove`, `SetEnabled`, `Trigger`, `Start`, `Stop`; `Tick` takes the
snapshot, `Visit` is one job of it, `Rearm` the end of the tick. Actions and listeners
may call any of these from inside a tick. `Run` is `__run` up to the action and `Finish`
the rest. `kept` and `runs` only remember what happened, for `JobsKept`.

## What the runs check

| Run | Instance | Shows |
| --- | --- | --- |
| `pool_waiters` | 3 callers, no hosts, `min` 0, `max` 2; factories do not fail | away from warm-ups, drains and failed factories nobody queues beside an idle connection and a queued caller is served |
| `engine_safety` | 3 callers, 2 hosts, `min` 1, `max` 2, 4 names; evictions, timeouts, failing factories, connect and disconnect at any time | never more than `max` connections, counted with the factories in flight (`CapacityBound`, `PendingExact`); a connection is in one place and in one caller's hands (`Ownership`); the queue is exactly the callers that wait (`QueueExact`); nothing is parked in a drained pool (`DrainedHoldsNoIdle`); eviction can always get down to `min` (`UntimedWithinFloor`); the pool implements `ConnectionLeases` (`LendsCorrectly`); the lifecycle uses the pool as any host may (`DrivesPool`); a pool that drains under an engine that is not CLOSED has a call under way that will close or reopen it (`DrainingIsClosing`) |
| `engine_one_host` | 2 callers, 1 host, `min` = `max` = 2 | with connect and disconnect one after another, a failed warm-up included, a CLOSED engine holds no idle connection, a drain empties the pool and a connect settles |
| `tx_safety` | 2 tasks with ids of their own, 2 calls, 2 connections, 2 savepoints, timeouts | a connection out of the pool has one owner who will return it (`NothingLeaks`); one request at a time on a connection; the engine's savepoints exist on the server (`SavepointsExist`); no connection returns to the pool with a transaction open (`CleanHandover`); a resolved `transaction(fn)` committed and a rejected one did not (`OutcomeHonest`) |
| `tx_shutdown` | the same without timeouts, 1 savepoint; callbacks that overlap their statements and end over them, disconnect at any time | `NothingLeaks` and `OutcomeHonest` still hold |
| `tx_ends` | 2 tasks under one id that race, failing COMMITs, no automatic roll back | every registered transaction leaves the registry, though its callback hangs |
| `migrations` | 2 processes on one or two hosts, every dialect, 3 versions (a table; another table and a column on the first; a column on the second); crashes and failures at every await | no two processes migrate at once (`OneMigrator`); of each version, the schema holds what the history and the checkpoint say and, where DDL is not transactional, at most the statement a retry begins with is ahead of them (`SchemaAccountedFor`); a version that is recorded is there in full, however often it was resumed (`AppliedInFull`); no version is left out below the head (`HistoryHasNoHole`); a killed process's lock file is reclaimed (`OrphanReclaimed`) |
| `rpc_channels` | 1 channel, 2 connections, 2 frame ids, request timers that may fire | a subscription lasts until its user gives it up or is told (`HandleBacked`); when a channel is quiet, what the client believes the server confirms (`NoSilentLoss`); the hooks pair up (`PresenceBalanced`); every call settles, with no timer assumed to fire (`CallsSettle`) |
| `services` | 3 sockets, 2 attempts; 4 spans, 2 exports, queue and batch 3/2 and 2/3; 5 records, batch 2, buffer 3, 4 records at the endpoint when a reply is lost; 2 jobs, 2 names | one socket whatever connects, closes and backs off (`OneSocket`), and a lost connection is replaced or given up (`ReconnectSettles`); spans leave the queue (`SpansLeave`) and the exporter is shut down last (`ExporterOutlivesExports`); the endpoint first sees the records in order and acknowledges each at most once, none is lost uncounted while the headers can be built, and `finalize()` means it (`LogsDelivered`); one chain of ticks (`OneTicker`); no job runs beside itself or loses its name to an older one (`JobsKept`) |

Three more runs expect a violation; they are below.

### Bounds, and why they are enough

- Three callers on a pool of two: one more than there are connections, so that a queue
  of one exists while both connections are out; one caller can time out while another is
  handed the connection. The waiters are served first in, first out by the head
  only, so a longer queue adds no new kind of step. The theorems do not depend on it.
- Two hosts: two invocations of connect or disconnect overlap. A third sees the
  same statuses as the second.
- `min` 1 with `max` 2 separates the floor from the limit; `min` = `max` = 2 makes
  a warm-up of which one half fails while the other succeeds.
- Four names with `max` 2: two live and two that are still being closed. Where there
  are no names left a factory stays in flight, which is one of its behaviours.
- Two tasks are the least with which one reuses the other's id. Two slots are a
  nested block and a statement in it, or two overlapping statements. Tasks, slots
  and connections are used again for later calls, so the number of transactions
  in a run is not bounded. `MaxSavepoints` bounds those one transaction creates.
- Two migrators: the lock is about two contenders, one of which may be dead, come back
  and contend again. Three versions, two statements in the second, give a checkpoint in the
  middle, versions of one statement, a rollback of several, and two versions that were
  interrupted one after the other. Lock files outlast one statement, on SQLite two, which is
  the longest version; one more statement and a live holder is reclaimed.
- Two connections: the one that closed at the client and lives on at the server, and its
  successor. Two frame ids are as many requests under way at once; an id that nothing
  refers to is used again, so the number of requests of a run is not bounded. A `sub` behind
  the `unsub` and the `sub` of two requests that timed out needs a third id: with
  `Ids = {1, 2, 3}` the three invariants still hold, in four million states, and the theorems
  have them for any number of ids. One channel is enough
  because channels share no state but the connection and `_pending`.
- Three sockets: one that closes, one that opens and one a mistake would open beside it.
- A buffer of three and batches of two make a failed batch meet a full buffer, whose
  overflow then falls into the restored batch. Five records and an endpoint that has up to
  three when a reply is lost let a batch come again twice, alone or with later records.
- Two jobs and two names make an old run finish after its name was given to another job.
- `MCServices` follows one of its four parts in each behaviour: they share nothing, so a
  product would only multiply the states.
- Symmetry is used for callers, names and hosts (tasks, slots and connections
  in the SQL module) in the runs without liveness properties. The SQL module's
  `CHOOSE`s pick an index of a sequence and not an element of a symmetric set.

`CHECK_DEADLOCK` is off in `MCServices.cfg` only: records are bounded by `MaxLogs`, and
a span processor that has shut down does nothing more. Every other instance has a step in
every reachable state.

### Fairness

- `Settles`: every promise the pool awaits settles (a factory answers or fails, a
  validation says yes or no, a close returns, which `__safeDestroy` ensures by swallowing
  errors), and a caller gives back what it holds by `release` or `destroy`,
  which every engine does in a `finally` or in both branches. JavaScript
  resumes the continuation of a settled promise.
- `MostlyHealthy` (strong fairness of `Release` and of a successful hand-off):
  only for `WaiterServed`. With connections that all die, `destroy` frees the slot
  before it looks at the queue and a newcomer may take it, again and again.
- `FairEngineSpec`: an awaiting connect or disconnect resumes when what it awaits is there.
- `FairSpec` of `SQLTransactions`: the driver answers or fails what it was sent, and
  armed timers fire. Nothing is assumed of the callbacks.
- `MigFairness`: a call under way goes on (its statements and file operations return),
  and the stamp of a file nobody touches gets old. A killed process need not come back.
- `RPCFairness`: while frames are on a connection that works or the client has to see one
  close, one of these happens; hooks and handlers return, each by itself. Timers are not assumed.
- `ConnFairness`: timers fire, woken continuations run, an opening socket opens or fails.
- `SpanFairness`: the timer fires and the exporter settles what it is given.

## What is proved

Every theorem is about all values of the constants, infinite sets included. The named
`ASSUME`s say what the constants are: sizes that `validatePoolOptions` and the batch
processors accept, special values such as `None` that are nobody's name, Boolean options.
"Needs" lists what a theorem assumes besides; each is a case the code does not guard
against, and the next chapter tells what happens in it.

| Theorem | States | Needs |
| --- | --- | --- |
| `TypeCorrect` | `PoolSpec => []TypeOK`: `__pending` never goes below zero | |
| `CapacityHolds` | `PoolSpec => []CapacityBound` | |
| `PendingIsExact`, `QueueIsExact` | `PoolSpec => []PendingExact`, `[]QueueExact` | |
| `OwnershipHolds` | `PoolSpec => []Ownership` | |
| `DrainedStaysEmpty` | `PoolSpec => []DrainedHoldsNoIdle` | |
| `LendingIsCorrect` | `PoolSpec => LendsCorrectly`, the refinement of `ConnectionLeases` | |
| `TimersAlwaysBelong` | `PoolSpec => []TimersBelong` | |
| `EvictionReachesFloor` | `PoolSpec => []UntimedWithinFloor` | |
| `NoIdleWhileWaitingHolds`, `NoLostWakeupHolds` | `HealthyPoolSpec => []NoIdleWhileWaiting`, `[]NoLostWakeup` | no warm-up, drain or failing factory: `HealthyPoolSpec` |
| `EngineDrivesPool` | `EngineSpec => DrivesPool`: the engine implements `PoolSpec` | |
| `EngineKeepsPool` | all of the above in the engine | |
| `DrainingIsClosingHolds` | `EngineSpec => []DrainingIsClosing` | |
| `EngineTypesHold` | `EngineSpec => []EngineTypeOK` | |
| `ClosedHoldsNoIdleHolds` | `EngineSpec => []ClosedHoldsNoIdle` | `OneHost`: connects and disconnects do not overlap |
| `TxTypesHold` | `Spec => []TxTypeOK` | |
| `NothingLeaksHolds` | `Spec => []NothingLeaks` | `~BeginsRace`, or ids that differ |
| `OutcomeHonestHolds` | `Spec => []OutcomeHonest` | ids that differ (`LabelsApart`) |
| `CleanHandoverHolds` | `Spec => []CleanHandover` | ids that differ, `~CommitSticks` |
| `OneRequestAtATimeHolds` | `Spec => []OneRequestAtATime` | ids that differ, `~Overlaps`, `~Disconnects` |
| `SavepointsExistHolds` | `Spec => []SavepointsExist` | ids that differ, `~Overlaps`, `~Disconnects` |
| `OneMigratorHolds` | `MigSpec => []OneMigrator` | `LocksWork`: an advisory lock, or else `SettleSuffices` and a `lockStaleMs` that outlasts a transactional version |
| `HistoryHasNoHoleHolds` | `MigSpec => []HistoryHasNoHole` | `LocksWork`, `RollbackAlone` |
| `SchemaAccountedForHolds`, `AppliedInFullHolds` | `MigSpec => []SchemaAccountedFor`, `[]AppliedInFull` | `LocksWork`, `RollbackAlone`, `WholeVersions` |
| `MigTypeOKHolds` | `MigSpec => []MigTypeOK` | the same |
| `PresenceBalancedHolds` | `RPCSpec => []PresenceBalanced` | |
| `HandleBackedHolds` | `RPCSpec => []HandleBacked` | |
| `NoSilentLossHolds` | `RPCSpec => []NoSilentLoss` | `Steady` |
| `OneSocketHolds` | `ConnSpec => []OneSocket` | `AwaitsClose` |
| `ExporterOutlivesExportsHolds` | `SpanSpec => []ExporterOutlivesExports` | |
| `LogsDeliveredHolds` | `LogSpec => []LogsDelivered` | |
| `OneTickerHolds`, `JobsKeptHolds` | `CronusSpec => []OneTicker`, `[]JobsKept` | |

### The pool

1. `Sized` is the inductive invariant of `ConnectionPoolProofs`. That
   `pending` is a natural number is not inductive by itself: every decrement is a
   factory that ends, so one must know that `pending` counts exactly the factories
   in flight. `Shape` has the types with `pending` in `Int`, the queue, and that a caller
   at work has a connection; `Finite` that the two sets whose sizes the code adds up
   are finite; `Counted` that `pending` is the cardinality of `InFlight`. From these
   follow `pending >= 0` and that the end of a factory moves one unit from
   `pending` to `active` or `idle`, which `CapacityBound` needs.
2. `Ownership` is inductive beside `Shape`. It is proved as `Hands` (`active` is
   what the callers have, no two the same) and `Places` (the buckets and the
   connections being closed are disjoint); the lemmas `HandsTake`, `HandsKeep`,
   `HandsDrop` and `HandsEmpty` are the four ways a step moves a connection.
3. The refinement maps `live` to the connections the pool counts and `lease` to
   the callers' hands. Every step is `Granted`, `GivenBack` or `TurnedOver`, and
   `LiveBound` turns `CapacityBound`, a sum, into the size of a union.
4. `TimersBelong` needs `HeadsUntimed`: `drain` clears the timer of the connection it
   closes next, so what leaves the head of its list has none.
5. For `UntimedWithinFloor`, every step on the idle list parks one connection,
   takes some away or gives one a timer (`IdleStep`). A parked one goes without
   a timer only when at most `Min` are idle with it.
6. `NoIdleWhileWaiting` is inductive where the pool stays open (`HealthyStep`). For
   `NoLostWakeup`, `FullIsBusy` turns a full pool without idle connections into a
   connection that somebody holds or is working on, whose end looks at the queue.

### The engine

A step of `connect` or `disconnect` is one of the pool's or leaves the pool alone
(`EngineStep`), so `EngineKeepsPool` inherits what is proved of `PoolSpec`.
`DrainingIsClosing` is inductive beside `OpTypes`. `ClosedHoldsNoIdle` is not: a warm-up
left over from an earlier connect may park its connection at any time, so `ClosedInv` adds
that the pool of a CLOSED engine drains, or is as new; `DrainedHoldsNoIdle` does the rest.

### Transactions

1. `TxInv` is `TxTypeOK` in parts, with what makes the parts inductive: a registered
   record and a begin under way have a connection, only a block has a scope.
2. `NothingLeaks` counts holders. `hold` makes them a function from the places that can
   hold a connection (a registered id, a begin, an execute outside a transaction) to what
   they hold, and `HoldInv` says no two hold the same and what they hold is what is out.
   A step takes (`TakesHold`), drops (`DropsHold`) or passes on (`PassesHold`): `BeginDone`
   is the only one that passes, and needs that the id it registers under is still free,
   `BeginPart`. Two begins under one id break just that.
3. `OutcomeHonest` needs to know who ends what. `LeaveInv` says of each of the four that
   may await the end of a transaction (its own `transaction(fn)`, its timeout, a failed
   statement, disconnect) that its record and connection are those it started with and
   its state is still the one it set; and that nobody ends a transaction that begins.
   With one id for two tasks this is false, which is the finding `false_commit`.
4. `CleanHandover` follows from `OpenInv`: a transaction open on the server is that of a
   registered record, unless its connection is destroyed.
5. `OneRequestAtATime` is `HoldInv` and one sender for each record. `busy` alone does not
   give that: commit and rollback ignore it, and whoever frees a turn frees it for all.
   `SendInv` adds that the calls in a transaction form a stack (`StackPart`), of which every
   call but the innermost waits in its block; that a call with a request out holds the turn
   of its own record (`JobSends`); that `transaction(fn)` sends COMMIT or ROLLBACK only with
   an empty stack (`RunSends`) and the timeout only with none of it at work (`AlarmSends`).
   `StackStep` is the lemma that a call begins, goes on or ends on top of the stack only; it
   needs callbacks that await each call. A timeout that finds the turn taken destroys the
   connection, which is why the property speaks of live ones.
6. `SavepointsExist` compares the engine's stack with the server's. `SaveInv` says of an
   active record that both stacks increase (names count up) and stay below the counter, and
   that the engine's is within the server's; only a deadlock, which empties the server's, is
   an exception, for as long as the ROLLBACK TO that will fail on it is under way
   (`Undoing`). A block trims the engine's stack at its own savepoint whether or not the
   server has done so, which is harmless because nothing on the stack is newer: every
   savepoint the engine has belongs to a call that is open, and the savepoint of a call is
   newer than that of the block around it (`SavedCall`), so that of the innermost call is
   the newest of all (`NewestCall`, over `StackPart`). `TrimRises` and `AppendRises` say
   what the three operations make of an increasing stack; `Leaves` is what a step has to
   establish of the one transaction it moves in, and `OwnConnection` that the others' marks
   stay. Without `AutoRollback` a deadlock goes unnoticed and the property claims nothing.

### Migrations

`LockInv` carries `OneMigrator`: who is between winning the lock file and releasing it is
named in it, the file is not old enough for another to reclaim, nobody else of that host
is about to write or delete it, and past `__withAdvisoryLock` he is its holder too. That the
file is not too old is where `LocksWork` comes in: within a version it has the age of the
statements run since it was stamped, one at most where each is followed by a stamp, all of
them in a transaction. `VersionInv` says the version at work is one of those on disk, and `HistoryInv` which
are applied while a process is at version `v`: those below it before its row is written,
those up to it after, for a rollback the other way round.

`SchemaAccountedFor` is inductive only with the order of the statements. `BooksInv` says,
version by version, that the schema holds a prefix of the version's plan (`Part`), as long as
the books say (`Booked`) or, where DDL is not transactional, longer by the statement an
`apply` was killed after, shorter by the one a rollback was (`Slack`); that a checkpoint is that of an interrupted operation (`RowKept`);
and, of the process at work (`CallBooks`), that the checkpoint of its version says what it has
done, with the schema one statement ahead between a statement and its checkpoint, and that a
rollback has left nothing of the versions above. The last part is what makes a drop remove
only its own object: no column of a later version is on the table any more. It needs that
`RollbackAlone` keeps history without a hole and that `WholeVersions` lets no rollback begin
below a half-applied version. `PlanAssumption` says of the plans what
`diff.ts` makes of them: no object twice, a table before what is on it. For a statement that
is run again after a crash, `IF NOT EXISTS` and `IF EXISTS` leave the prefix alone, and a
column that is already there makes the statement fail, which changes nothing. `AppliedInFull`
follows: when the row is written, the checkpoint of the version says that the whole plan has run.

The property speaks of each version by itself. Over all versions the difference is not
bounded by one statement: a rollback that is killed between its statement and the checkpoint
leaves its version in the history, so a later `apply` goes on with the next one and may be
killed likewise. TLC finds this with a version of one statement below one of two, which is
why the instance has three versions.

### RPC

`PresenceBalanced` is inductive over the types. `HandleBacked` is not: the ack of an unsub
whose request timed out long ago must not take a channel out of the map that was subscribed
again. `UnsubInv` says why it does not: every unsub of this connection, as a frame or as its
ack, has an id of its own in `pendingUnsubs`.

`NoSilentLoss` speaks of quiet channels; `LossInv` says what leads there while they are not.
While `authorize` says yes, handling what is under way in any order leaves each channel of the
client's map subscribed: the last `sub` has no `unsub` behind it (`Subscribing`). While it
refuses or throws, the channel is subscribed with nothing on its way that could change that
(`Settles`), or a request that would take it out of the map waits for an answer that is still
to come or says that it failed (`Answering`). The second part needs that nothing else carries
the id of such a request (`IdsApart`) and that no ack is under way then (`AcksMeanYes`): an
ack of an earlier frame would settle the request by its channel. That is where `Steady` is used.

### The services

`TickerInv` and `JobsInv` for `Cronus` (a registered job knows its name, the running
flag counts the runs under way); `ConnInv` for the sockets (state, socket, opener and
sleeping backoffs agree); `SpanInv` for the processor (the queue stays below a batch, so a
flush empties it, and after `shutdown()` what is in flight is awaited); `OrderInv`, `TakenInv` and `FinalizeInv` for the
log handler. What was acknowledged, the batch under way and the buffer increase and follow
one another, and nothing in the latter two was dropped. Of what the endpoint received,
repeats included, the first of each is in order (`FirstsInOrder`), which a restored batch
keeps because each record of it and of the buffer has come before or is newer than all the
endpoint has seen (`TakenInv`). What `finalize()` waits for bounds the buffer.

### Only model-checked

- Liveness (`WaiterServed`, `DrainEmpties`, `ConnectSettles`, `TransactionEnds`,
  `OrphanReclaimed`, `CallsSettle`, `ReconnectSettles`, `SpansLeave`) is out of the prover's
  reach.

Every safety property that a passing run checks is stated by a theorem.
`NoLostWakeup`, `TimersBelong`, `EngineTypeOK` and `MigTypeOK` are stated without a run.

## What the code does not guarantee

Three runs end in a violation of something the repository says of itself:

| Run | The code | The repository says |
| --- | --- | --- |
| `false_commit` | after its callback `transaction(fn)` looks its id up again; if it timed out and another task reused the name, it commits the other's transaction and resolves | "a resolved `transaction(fn)` always means the work committed" (`Drivers-SQLEngine.md:271`) |
| `stale_rollback` | `rollback()` reads the head, the target and the snapshots before it takes a lock; if an `apply()` gets the locks first, it reverts a version below the new head and leaves a hole | "The plan is computed **inside** both locks: a plan computed before waiting on a concurrent apply would be stale by the time it ran" (`NORM-Migrations.md:451`) |
| `false_failure` | `_dispatchSubAck` returns for a channel that is no longer in the map before it settles the request: unsubscribe during a resubscription, subscribe again, and the old request's timeout drops the new subscription | "without this, its timeout would later fire a false resubscribe failure" (`Client.ts:1131`) |

Others have no run of their own; each appears when a cfg is changed as said. Drivers:

- *Idle beside a queue.* `__createWarm` parks its connection without a look at the queue,
  though acquire "Returns an existing idle one if available" (`ConnectionPool.ts:257`).
  `NoIdleWhileWaiting` fails under `EngineSpec` with one host, two callers, `Min` = `Max` = 1
  and timeouts.
- *A stranded waiter.* A factory that fails in `acquire` frees its slot and wakes nobody;
  whoever queued behind it waits beside an empty pool, though a freed slot backfills a
  waiter "rather than being left to time out" (`ConnectionPool.ts:434`). `NoLostWakeup` fails in
  `MCConnectionPoolWaiters.cfg` with `PoolSpec` and `CreateMayFail = TRUE`.
- *Racing begins.* `beginTransaction` checks the name, awaits, then registers; two calls
  under one `options.name` pass and the first connection is lost, though it "can never
  leak from the pool" (`SQLEngine.ts:660`). `NothingLeaks` fails in `MCSQLFalseCommit.cfg` with
  `BeginsRace = TRUE`.
- *Overlap on the wire.* commit and rollback ignore `busy`, though an overlapping op "is
  refused rather than allowed to interleave on the socket" (`SQLEngine.ts:609`).
  `OneRequestAtATime` fails in `MCSQLTransactions.cfg` with `Overlaps = TRUE`.
- *A queue on a drained pool.* `acquire` looks at `draining` at its entry only. If
  its idle connection is dead and a drain ends during the close, it queues on the
  drained pool and is left to its timeout.
- *A closed engine with an idle connection.* With two hosts in
  `MCPooledEngineOneHost.cfg`, `ClosedHoldsNoIdle` fails: a disconnect
  whose drain ends after a new connect reopened the pool sets CLOSED over it, and
  the warm-up then parks a connection that no later disconnect closes.
- *A bypassed waiter.* `destroy` gives the slot back before it awaits the close and pumps
  the queue after it; a newcomer can take the slot. Without `MostlyHealthy`,
  `WaiterServed` fails.
- *Disconnect over a statement.* With `Disconnects = TRUE` in
  `MCSQLTransactions.cfg`, `OneRequestAtATime` fails:
  `rollbackAllTransactions` sends ROLLBACK whatever is running.
- *A statement that outlives its transaction.* After an overlapped ROLLBACK, or that of a disconnect, the connection may go
  back to the pool and into another task's transaction with the old statement still
  running on it. If that statement deadlocks, the server drops the new owner's
  savepoints: `SavepointsExist` fails in `MCSQLTransactions.cfg` with either constant
  `TRUE`, which is why its theorem assumes neither.
- *A connection handed over in a transaction.* With `CommitSticks = TRUE` in
  `MCSQLTransactions.cfg`, `CleanHandover` fails: after a failed COMMIT the
  connection returns to the pool, whether or not the server ended the transaction.
- *A scope that changes hands.* With one id for two tasks and timeouts, the failure
  path of a statement looks the id up again and may end the other task's transaction.

Migrations:

- *A crash between a statement and its checkpoint* makes the retry run the statement
  again; a column then "already exists" and the version needs a hand.
- *A crash between the history row and the clearing of its checkpoints* leaves rows under
  the other direction's hash, and the next rollback of that version ends in PLAN_CHANGED.
- *A rollback over a half-applied version.* With `WholeVersions = FALSE` in
  `MCMigrations.cfg`, `AppliedInFull` fails. `rollback()` starts at the recorded head and
  looks at no checkpoint above it (`Migrator.ts:551`): the checkpoint of version 2 outlives the
  rollback of version 1, a later apply resumes behind the statements that were lost with the
  table and records version 2, though "the next `apply()` resumes from that point rather than
  re-emitting statements that already succeeded" (`NORM-Migrations.md:247`) is meant to make the
  retry safe. Rolling back is a natural answer to a version that fails half way.
- *A long version on SQLite.* With `Dialects <- HastySQLite` in `MCMigrations.cfg`,
  `OneMigrator` fails. A transactional version is not stamped between its statements
  (`Migrator.ts:488-494`, `590-596`), so `lockStaleMs` has to outlast the version; its doc says
  that "this only has to outlast the slowest single uninterruptible operation" of what is stamped
  "per action" (`Migrator.ts:92-95`). SQLite's own write lock then makes the second
  transaction wait or fail.
- *A slow contender.* With `SettleSuffices = FALSE` in `MCMigrations.cfg`, `OneMigrator` fails:
  looking for the lock file and writing it, and judging it stale and deleting it, are two file
  operations each, and whoever is slower between them than `SETTLE_MS` (`FileLock.ts:41`) takes
  a lock that another has won.

RPC:

- *Acks go by channel.* `_dispatchSubAck` resolves a subscription by its channel, whatever
  request it answers. With `Steady = FALSE` in `MCRPCChannels.cfg`, `NoSilentLoss` fails: an
  earlier ack confirms a later subscription, whose refusal then reaches nobody. It takes an
  `authorize` that says yes to one frame and no, or throws, on another one that is under way
  for the same channel.
- *Two users of a channel.* A second `subscribe()` to a channel whose first is not
  acknowledged replaces its handler and returns at once (`Client.ts:353`). The model has
  one user per channel.
- *An unsub overtakes.* The server does not wait for `authorize` of one frame before it
  serves the next: an unsub can be served while the sub of an earlier, timed-out
  `subscribe()` is still in `authorize`, and the server keeps a subscription the client
  no longer has.
- *A connection lost during a resubscription* drops the subscription, though the next
  connection could restore it; the user is told through `onSubscriptionError`.
- *connect() during close().* With `AwaitsClose = FALSE` in `MCServices.cfg`, `OneSocket` fails:
  the old socket's close event resets the state of the new one.
- *A backoff after close().* When close() aborts an opening socket of the backoff, the
  catch schedules one more sleep, which then finds `closeRequested` and ends.

Log handler: `_sendLogs` empties the buffer, then builds the headers outside its `try`
(`HTTPHandler.ts:285-290`), and the constructor checks only that `headers` is an object. A name
or value that `Headers` refuses loses the batch uncounted, though "The batch is only removed
from the queue once the request succeeds" (`HTTPHandler.ts:264`). Without `headersOk =>` in
front of `NothingLost`, `LogsDelivered` fails. Delivery is at least once: a request whose reply is lost,
or a `cancel()` that rejects (`HTTPHandler.ts:307`), sends the batch again.

Tracer: an `export()` of several spans at once can leave some in the queue without a timer
(`BatchSpanProcessor.ts:130`). `Tracer` exports one at a time, as in the model.

## What is not modelled

In the modelled files: statistics, events, error texts and option parsing; the
`ping` results; the `connect()` that `execute` awaits when the engine is not READY
(`SQLEngine.ts:227`; the modelled calls find it READY); the `@internal` handle form of transactions, whose functions are the ones the
callback form calls; named parameters and the OQL surface, which end in `execute`.
The wire protocols of the engines (`packages/drivers/engines`) are callers of the
pool. A validator that throws is left out, because no engine's does.

`Migrations` leaves out `snapshot()` (whose cached version list may be stale when two
processes snapshot), table rebuilds that die midway, the `CREATE SCHEMA` that runs before a
version's transaction, key rotation and drift detection, which only refuses. `RPCChannels` leaves
out `client.close()` with calls and subscriptions under way (`Client.ts:446-492` rejects
what is pending at once; the module's connections close from outside), middleware, the fan-out of publications and
its adapters, back-pressure and server shutdown. In `RPCConnection` a `new WebSocket` that throws
(`Client.ts:529-535`) is the socket that fails at once: the state and the rejection are those
of `OpenFailed`. `Cronus` leaves open which minutes a
schedule matches. The file and socket handlers of slogger are not modelled.

Of the other packages, `guardian`, `oql`, `crypt` and `compat`, with more than half of the
repository's lines, transform values or wrap the runtime and hold no state to interleave;
`ambient` wraps the runtime's asynchronous context. They, and the repositories and
compiler of norm, are the reason why the modelled lines are a small share of all lines.

## Plan

Modules that would come next:

1. The file handler of slogger: writes, rotation and finalize on one chain.
2. The memory engine of cacher, and `once`, `memoize` and `throttle` of utils, whose
   failures and expiries race with concurrent calls.
3. Algorithms against a reference: the radix tree of radrouter, the counters of
   id at their width, histogram buckets, permission masks.
