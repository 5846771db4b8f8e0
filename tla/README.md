# A verification project for stackyrd

stackyrd is a Go service framework: an Echo HTTP server with lazily connected
infrastructure, services and middlewares that are discovered at startup, a
terminal UI, and libraries for resilience, background work, events and web
sockets. What is hard to get right in it, and hard to reach with a unit test,
is what lies between two lines of a handler: goroutines that share a map or a
channel, a pool that is created by its first user and closed by its last, a
retry of what has already been done, a table that changes between a look-up and
a write, a shutdown that starts before the startup is over. This project models
these parts in TLA+, checks them with TLC and proves most of their safety
properties with TLAPS.

## Inventory

| component | source (`src/`) | state | hard behaviour | correct means |
|---|---|---|---|---|
| Circuit breaker | `pkg/resilience/circuit_breaker.go` | state, failures, probes, last failure | late results; re-entrant callbacks; panics | probes are rationed, episodes end |
| Worker pool | `pkg/infrastructure/async.go` from 210 | job channel, stopChan, workers | Submit against Stop; jobs that submit jobs | accepted jobs run once, Stop waits for them |
| Cron manager | `pkg/infrastructure/cron_manager.go` | jobs, cron's entries, lazy pool | updates in several steps while cron fires; getPool against Close | registry and cron agree, no worker is left |
| WebSocket hub | `pkg/websocket/handler.go` | two maps, three channels, Send channels | four places close a Send channel | maps agree, no double close, pumps end |
| Event broadcaster | `pkg/utils/broadcast.go` | clients, streams, drop counts | sends under a read lock, eviction after it | no panic on a channel, laggards leave |
| Broadcast service | `internal/services/modules/broadcast_service.go` | generators | a generator is stopped while it broadcasts | a stopped generator ends |
| Infrastructure initialization | `pkg/infrastructure/{async_init,registry}.go` | registry, status, cache, WaitGroup | hung health checks; stale snapshots | ready means checked, initialization ends |
| Server and application | `internal/server/server.go`, `cmd/app/*.go` | dependencies, main's select | shutdown during startup; hung Close; the UI's loop | a signal ends the program, nothing stays open |
| Dependencies, service registry | `pkg/registry/*.go` | sealed map, service states | part of startup | part of the former |
| Async results, batches | `pkg/infrastructure/async.go` to 209, the `...Async` methods | Done channels, semaphores | cancellation, panics, completion in three places | set once, closed once, no token lost |
| Infrastructure managers | `redis.go`, `kafka.go`, `postgres.go`, `mongo.go`, `minio.go`, `grafana.go` | clients, pools, cached status, buffers, offsets | Close against jobs; two misses of one cache; shared scan buffers; rebalances; retries | clients open while used, rows not mixed, no message skipped |
| Webhooks | `pkg/webhook/handler.go` | handlers, semaphore | handlers that trigger; lost responses | Trigger returns, every handler runs |
| Retry, timeout, health | `pkg/resilience/{retry,timeout,health}.go` | attempts, late goroutines, checks | an answer after its timeout | it reaches nobody |
| Rate limiter | `internal/middleware/ratelimit.go` | visitors; a Redis set | clean-up under two locks; pipelines that overlap while the clock goes on; a key that expires | no more than the rate in a window, but for what each can miss |
| Cache | `pkg/cache/*.go`, cache service | items with expiry | change of locks in Get | no expired answer, no fresh item lost |
| Middleware chain | `internal/middleware/*.go`, error handler | chain, pooled writers | any order; errors answered on the way out | the client gets the answer that was meant |
| Other services | `internal/services/modules/*.go` | tables, users, key | concurrent requests; lost connections; rotation; paging | the answer tells what was done |
| Local files | `pkg/infrastructure/logfile.go` | the day's file | rotation, crash, failing calls | no accepted line is lost |
| Terminal UI | `pkg/tui/{live,terminal}.go`, dialogs | log pane, dialogs, sidebar | messages between a dialog's opening and its answer | the screen shows what is there |
| the rest | MCP, configuration, utilities, generated docs | | | see "Not modelled" |

How they interact. `application.go` starts `Server.Start` in a goroutine and
waits for a signal, a server error or the UI. Start runs the component factories
and the health checks, seals the dependencies and hands them to the service
factories. The managers own a worker pool each and use the same asynchronous
results, whose semaphore the whole program shares. The broadcast service's
generators are producers of the broadcaster, HTTP handlers are the readers of the
broadcaster and of the status cache. A request passes the middlewares (the limiter is
one) before its handler reads a table, a cache or a manager. Every log call goes to the
terminal's event loop, if there is one. Breaker, retry, webhooks and the hub are library
packages of the framework.

`PROJECT.json` lists under "hazards" where such behaviour bites, at its line, with the
properties that watch it.

## Modules

| module | models | composed with |
|---|---|---|
| `CircuitBreaker` | one breaker and any number of callers | |
| `JobPool` | abstract: what a pool promises | |
| `WorkerPool` | the pool, step by step | implements `JobPool` |
| `CronManager` | the registry, cron and the lazy pool | `INSTANCE WorkerPool` |
| `WebSocketHub` | the hub and both pumps of each connection | |
| `EventBroadcaster`, `BroadcastService` | the broadcaster, its readers; generators and requests | the second extends the first |
| `InfraInit`, `AppLifecycle` | component registry, checks, status; startup, main, shutdown, UI | the second extends the first |
| `Promise` | abstract: what an asynchronous result promises | |
| `AsyncOps` | ExecuteAsync and batches | implements `Promise` |
| `ClientManagers` | creation, pools, look-up and Close of the managers | relies on `JobPool`'s promise |
| `StatusCache` | the managers' cached GetStatus | |
| `RowCursor` | raw queries and their pooled scan buffers | |
| `KafkaConsumer` | the consumer loop, group sessions, Close | |
| `GrafanaClient` | requests that are retried, and the server they change | |
| `WebhookManager` | Register, Trigger, Handle, Send | |
| `GuardedCall`, `HealthChecker` | retries around timeouts; health reports | |
| `RateLimiter`, `MemoryCache` | the limiter in memory and in Redis; one key of a cache | |
| `PagedLists` | lists read page by page | |
| `ServiceHandlers` | handlers over a tenant's table | |
| `CipherService` | encryption while the key rotates | |
| `MiddlewareChain` | discovery and the way of a request in and out | |
| `FileLogger` | the daily log file on a disk that outlives the process | |
| `TerminalUI` | log pane, dialogs and sidebar of both screens | |
| `MCCalls` | composes AsyncOps to HealthChecker above | |
| `MCRequests` | composes RateLimiter to TerminalUI above | |
| other `MC...` | the instances of the first nine | |
| `CircuitBreakerProofs`, `WorkerPoolProofs`, `CronManagerProofs`, `WebSocketHubProofs`, `BroadcastServiceProofs`, `AppLifecycleProofs` | theorems about the module they name | |
| `CallProofs`, `RequestProofs` | theorems about modules of `MCCalls` and `MCRequests` | |

Conventions. Variables and actions keep the source's names where they have one.
What runs under one mutex from end to end is one action; what is done after the unlock is
another. A channel is a sequence, or a number where its contents do not matter,
with its capacity as a constant. A timer may fire at any moment, except where a property is
about time: there a clock ticks (breaker, limiter, cache, status cache, log file). Variables marked
"history" are read by properties only. An operator whose comment begins "Bug:" is a plausible
mistake in the definition that follows it; no action uses it. `PROJECT.json` pairs each property
with one of them: the property fails when that definition is replaced, so none of the
properties is idle.

`MCCalls` and `MCRequests` hold parts that call each other nowhere and share no state. A behaviour
has one `scenario`, the part that moves; the others stay in one initial state. So the state
spaces add up instead of multiplying. No fair action of an idle part is enabled in its initial
state, so its fairness asks for nothing.

### CircuitBreaker

`AllowRequest` is split by its cases (`AllowWhileClosed`, `AllowFirstProbe`,
`AllowNextProbe`; a refusal changes nothing). `LockAndRecord`, `RecordSuccess`,
`RecordFailure` and `Unlock` are the two Record methods with the lock made
explicit (`mu`), because a question of the model is whether the callback
runs outside it; `Callback` is notify, and may re-enter. `Panic` is the protected function's
panic, which Execute passes on without recording a result. `probes` and `lost` are history variables.

### WorkerPool and JobPool

`Submit` is split into the attempt and its two outcomes, since Go picks at random
when the queue has room and stopChan is closed. `Take`, `SeeStop`, `DrainJob`
and `Exit` are the branches of `worker`; `Return` is the end of a job, a recovered
panic included. A job may submit another one (`Child`), as the wrapper of an
asynchronous cron job does. `StopBegin` closes stopChan, `StopReturn` is wg.Wait's
return and, for a second caller, the wait in sync.Once. `JobPool` has three phases and no queue; the
mapping `Promise` reads them off the workers: closing once stopChan is closed, closed once all
have exited, and a job counts as accepted from the moment it is in the channel.

### CronManager

cron (the library) fires its own entries and is modelled from its use; therefore
UpdateJob's steps between cron.AddFunc, cron.Remove and c.jobs are actions of their own, with
`op` holding c.mu. `GetPool`, `RunDirectly` and the closer's states are getPool, its fallback
when the manager is closed and Close. The pool is an instance of `WorkerPool` whose stoppers are the callers of Close.

### WebSocketHub

`HubRegister`, `HubUnregister`, `HubBroadcast` are the branches of Run, each under h.mu.
The pumps are two processes per connection. `mishaps` records a Go panic on a
closed channel instead of ending the model, and `overtaken` the connections whose unregister was served before
their register.

### EventBroadcaster and BroadcastService

A producer holds the read lock for the length of its loop (`Deliver`, `Drop`, `Count`, one
client at a time), then evicts under the write lock. `LockWanted` keeps new
readers out while a writer waits, as sync.RWMutex does. Handlers are `streamEvents`; a
generator's goroutine is `Generate` and `GeneratorEnds`.

### InfraInit and AppLifecycle

`RunFactory` and `Launch` are Initialize and the start of the health goroutines, whose
steps are `UpdateStatus`, `InvalidateStatusCache` and one of `HealthCheckAnswers` and
`HealthCheckTimesOut`. GetStatus takes two locks one after the other and is four actions:
`StatusHit` or `StatusMiss`, `CopyStatus`, `StoreStatus`. A request to `/health` reads `ready` first and calls GetStatus
twice, as the handler does. `Server.Start` is the sequence of values of `server`; `main` is the main goroutine
of either mode; `closer` has one goroutine per component of Shutdown. `how` records why
main left. The unsynchronised read of s.dependencies
in Shutdown is modelled as a read of its current value. In TUI mode a log call is a send to an
unbuffered channel that the terminal's loop reads; `LogReturns` says whether it can return, and
a step that logs is guarded by it: a tick of the loop asks every component for its status, and one that does not
answer stops the loop for good.

### AsyncOps and Promise

A call of ExecuteAsync waits in the goroutine's select for a token or for its context (`TakeSlot`, `GiveUpOnSlot`),
settles (`Settle`: an end of its operation, or the recover) and frees its token (`FreeSlot`). What a manager's
operation does with a cancelled context (`HeedsContext`) and how many of a batch it runs at once (`BatchLimit`,
divided by `Scale`) depends on the manager. A batch's caller takes tokens itself, one operation after the other
(`StartOp`), and completes those it skips (`SkipOp`). WaitAll reads the results in order. The mapping to
`Promise` is the identity on results and on what the waiters were told.

### ClientManagers, StatusCache, RowCursor, KafkaConsumer, GrafanaClient

`ClientManagers` has one `manager` per behaviour, of a kind with one client or with a connection manager.
CloseAll (`CloseStep`) holds the connections' lock while it stops each pool, waits for it and closes
the client; `Seekers` are jobs that look a connection up while it does. Redis starts its pool on first use, in two
steps (`StartPool`, `PublishPool`), either of which may come after Close looked.

In `StatusCache` an answer is the moment the server was asked: `seen` when the ping answered, `cached` and
`expiry` what `StoreStatus` left. Grafana's long TTL and postgres's ping without a deadline are entries of a table. `PingTime` bounds all that a miss asks: one deadline of five seconds, and for mongo two, since dbStats
follows the ping with a deadline of its own.

In `RowCursor` a cell's value is the query it came from, so a row that is read from a buffer of somebody else shows.
`ScanFails` tells the difference between the queries that return an error and the one that skips the row.

`KafkaConsumer` is the job in the pool: it joins sessions (`JoinSession`), each claim handles and marks
(`DeliverMessage`, `HandlerReturns` or `HandlerFails`, `MarkMessage`), a session ends when a claim returns, the group rebalances or the context ends
(`EndSession`, which may or may not commit what was marked). sarama and the broker are external.

`GrafanaClient` sends a request again after a lost request, a lost response or a 5xx (`RequestLost`, `ResponseLost`,
`GiveUp`), and the server (`ServeRequest`, external) may carry it out each time. `Intruder` stands for a dashboard that was there before.

### WebhookManager, GuardedCall, HealthChecker

`StartHook` runs a handler in a goroutine while there is a slot and in the caller otherwise; `Recurse` is a handler's own
Trigger. `SendWebhook`, `HandleWebhook` and the delivery's states are Send against the Handle of a manager with the
same secret. `GuardedCall` is RetryWithContext around WithContext: `fn` goes on in its goroutine when `GuardTimesOut`;
`RetrySeesContext` and the sleep are the loop's looks at the outer context. `HealthChecker` runs a snapshot of the checks at once,
each with its timeout, and makes one report (`EndReport`); checks come, go and replace one another meanwhile.

### RateLimiter, MemoryCache, PagedLists

Memory: `IsAllowed` under the lock, `CleanupCollects` and `CleanupDeletes` under two others. Redis: a pipeline
that is no transaction (`BeginVisit` takes the stamp; `Prune`, `AddMember`, `CountMembers` and `Expire` are the commands, `PassOn` is Exec's
return, or `FailOpen` at any point). `LimiterTick` moves the clock whatever is under way, so pipelines with different stamps
overlap, and one that lingers may be pruned by a later one before its request is let through. `KeyExpires` takes the whole set,
also between somebody's ZADD and EXPIRE. What holds then is `PipelinesKept`: of the requests that *begin* in a window at most the rate are granted, save
those whose member went with the key (`lost`), and in a window pass no more than these and those that were under way when it
began (`underWay`) or were lost in it (`caught`). The plain rate does not hold: with rate 1 and window 2 a request
stamped 1 and counted at once may return at 2, one stamped 3 prunes its member, and both pass within a window. One clock serves for the program's stamps and for
Redis' time to live: it is assumed that they agree and that none is set back. The window is whole seconds, as EXPIRE wants it. That go-redis
sends a failed pipeline again, and that Redis may finish one whose client has given up, is left out; either adds members
and takes none away but the expired, so it can only refuse more. The cache is one key, since keys share
only the lock; `GetReads`, `GetSeesExpired` and `GetDeletes` are Get's two critical sections, and every clock is read outside them.
`PagedLists` is a client that walks a list (`ListUsers`, `ListDashboards`, or `CountRows` and `FindRows` for a table) while rows come and go; `FarWalk` starts at a page
so far that the offset overflows the scaled int.

### ServiceHandlers, CipherService, MiddlewareChain

A handler is a sequence of named steps (`Plans`); a step goes on, or answers and ends the handler, except where the code
goes on (`ResolveTenantDB` answers and returns nil for error and connection, so that `UseNil` may follow). `issued` are the ids a database
has given out; it gives out none twice, so an order that was found is not another tenant's when it is updated. `CipherService` takes the key under the lock and works outside
(`EncryptTakesKey`, `Seal`, ...). `MiddlewareChain` puts the enabled middlewares in any order, since the registry
ranges over a map; `PassIn`, `Guard` and `Gzip` are the way in, `LeavePlain`, `LeaveWatching` and `LeaveGzip` the way out, `AnswerLate` is Echo's
error handler after all of them.

### FileLogger, TerminalUI

The disk (`plain`, `gz`) outlives a `Crash`; rotation is four steps, `Rotate`, `CompressFile`, `RemoveOld` and `Reopen`, with
`SetCurrentDate` between, and each file system call may fail. `Midnight` may pass between any two of them. In `TerminalUI` Update handles
one message at a time, so an action is a message: a key, a log line (`LogArrives`), a report, a tick or a resize. A command's report is
on its way (`reports`) while other messages arrive. Long lines take two in a narrow pane (`Narrow`), that of a small window or beside the
sidebar, so a resize and the sidebar's commands wrap the log anew; `ResizeTerminal` clamps the offset to the new lines.
`ScreenHeight` is a constant beside `PaneHeight`, since a terminal of less than nine lines leaves its pane five all the same.

## Runs

| run | question | bounds |
|---|---|---|
| `breaker` | are probes rationed whatever arrives late, does an episode end? | 3 callers, threshold 2, allowance 2, timeout 1 |
| `pool` | is nothing accepted lost or run twice, do Stop and Submit return, is `JobPool` implemented? | 1 worker, queue 2, 5 jobs of which 2 nest, 2 stoppers |
| `cron` | do registry and cron agree, is a worker left after Close, do waits end? | 2 jobs, 2 entry ids, 4 runs, 1 worker, 1 closer |
| `cron_wedge` | does RunJobNow always get to its command? **no** | the same |
| `hub` | do the maps agree, is nothing closed twice, do pumps end? | 2 connections that ask for one id, buffers 1, 1, 2 |
| `hub_send` | can SendToClient panic? **yes** | the same |
| `broadcast` | no channel panic, laggards leave, handlers and generators end? | 2 clients on 2 streams, 2 generators, 1 request, buffer 1, limit 0 |
| `lifecycle` | does ready mean checked, do startup and shutdown end, is all closed? | 2 components, 1 reader, 3 services, both modes |
| `lifecycle_wedge` | can a component that hangs keep initialization from completing? **yes, in TUI mode** | the same |
| `calls` | ten parts that everything calls, below | below |
| `requests` | eight parts that serve requests or show them, below | below |
| `tenant_nil` | are the handlers guarded against a missing tenant connection? **no** | `requests`' handlers alone |

Most properties are conjunctions of what belongs together and would need the same run.
`BreakerConsistent` joins the ration of probes, the threshold and the way out of half-open; `AcceptedJobsKept` the account of
the jobs, the drain and Stop's wait; `EpisodesAndCallsEnd`, `WaitsEnd`, `CallsReturn`, `ConnectionsEnd`, `StoppedEnds`,
`StartupAndShutdownEnd` are each component's liveness.

| part of `calls` | properties | bounds |
|---|---|---|
| calls, batch | `OperationsAccounted`, `ResultsArePromises`, `CancelledEnds` | 2 calls, semaphore 1; batches up to 3, limits divided by 10 |
| managers | `ClientsOpenWhenUsed`, `CloseAllReturns` | 2 connections, 2 jobs of which 1 looks a connection up |
| status | `StatusAgesOut` | 2 askers, TTLs 1 and 2, ping 2, clock to 4 |
| rows | `RowsAreTheQuerys` | 4 queries (2 share 2 buffers), 2 rows |
| kafka | `NoMessageSkipped`, `CancelFreesClose` | 2 partitions of 2 messages, 3 sessions |
| grafana | `RetriesHold` | 2 requests, 1 retry |
| webhook | `TriggersReturn`, `NothingUndelivered` | 2 handlers, 1 slot, 2 triggers, 1 retry |
| retry | `VerdictIsOfItsAttempt` | up to 3 attempts, first delay 2, ceiling 5 |
| health | `ReportIsTrue` | 2 names, each registered as simple, critical or without a function, and replaced |

| part of `requests` | property | bounds |
|---|---|---|
| limiter | `AllowanceHolds` | rate 2, window 2, clock to 3, 2 requests at once, which differ in nothing (symmetry), 1 member of a moment before another begins |
| cache | `FreshItemsStay` | 2 Gets, 2 Sets, a Cleanup, TTL to 1, clock to 3 |
| pages | `WalkCoversList` | 3 entries, 1 more, pages of up to 3, int to 9 |
| handlers | `AnswersAreTrue` | 2 requests, 2 tenants, 2 rows |
| cipher | `RoundTripUnlessRotated` | 2 users, 2 keys |
| chain | `AnswersKept` | 2 requests; logger, gzip and permission_check in every order, with or without each |
| logfile | `NoLineLost` | 3 lines, 3 days |
| pane, sidebar | `ScreenIsTrue` | 2 messages, 4 lines kept, panes of 3 and 4 lines, 1 report under way; the sidebar beside a log that grows and is scrolled |

Why the bounds are enough to be interesting. Every capacity is the smallest at
which both "room" and "full" occur with a second actor waiting. The pool has
one worker so that two nesting jobs can wedge it. Two connections with one id are the case in
which the hub's maps can part. Two producers on one stream with a drop limit of zero make
the two steps of the drop count interleave around the limit. In `lifecycle` one
component may fail or not answer and the other hangs in Close, which are the four cases
of a component. A semaphore of one and a batch of three (limit 1 or 2 after scaling) have a waiting, a running and a finished operation at once. A ping
that outlasts the TTL lets two misses overlap. Two queries and two buffers let a buffer change hands while
another is in use (`OneScansAlone` keeps queries that share nothing from multiplying). Three sessions are a start, a rebalance
and a join after it. Two handlers with one slot and a recursive trigger fill the semaphore from inside. Three
attempts have two delays, of which the second reaches the ceiling only with jitter. A clock to 3 with a window of 2 has a window that
spans a clean-up, a request under way across the beginning of a window, a member pruned before its request passes, and a key that expires;
the bound of `AllowanceHolds` is reached in it and false without any of its terms. Requests of a limiter are interchangeable and `AllowanceHolds` names none
of them, so symmetry over `Visits` is sound; no temporal property of the run quantifies over them. Three middlewares are one that only watches, one that takes a pooled writer and one that refuses.
Three days let the clock pass midnight during a rotation. The small pane has room for fewer lines than are kept, which
are fewer than can be logged; the large one is exactly full of lines that do not fit the small one. `MaxId`, `DropMax`, `Horizon`, `MaxMoment`, `MaxMembers`, `CacheEnd`, `MaxSessions`, `MaxTriggers`, `LastDay`, `MaxEntries` and `Reports`
bound what would grow for ever.

Deadlock is checked in `breaker` and `hub`. It is not elsewhere, where the system may stop: a pool, a manager or
the program that has ended, a clock at its bound, requests that have been answered.

### Fairness

Weak fairness stands for the Go scheduler: a goroutine that can go on does. Strong
fairness is assumed in two places, both for the runtime's choice among several that wait: in the
breaker for acquiring cb.mu and for its callback (Go's mutex hands over to a waiter that starves), and
for a select of a generator whose stopChan stays closed (select picks at
random and cannot prefer the ticker for ever). Timers fire (the breaker's clock,
the health check's ten seconds, Shutdown's thirty, the cache's TTL). In `lifecycle` fairness holds while the
process is alive, and a step that logs is only fair while the terminal's loop reads (`LogReturns`). In `calls` the
jobs of a manager's pool, CloseAll, kafka handlers and webhook handlers end by themselves, as do operations that heed a cancelled
context; others need not. Nothing is assumed of
the environment: nobody has to connect, subscribe, submit, cancel, send a signal, read from a socket,
or answer a health check, and a component in `HangsOnClose` never has to close. Temporal
properties are only checked under these assumptions. `requests` has no liveness and no fairness: its parts answer or fail in a
bounded number of steps of their own.

## What the checks found

Four of the runs look for something the code's own words promise and TLC refutes;
`PROJECT.json` quotes the line for each.

- RunJobNow of an asynchronous job occupies a worker that waits for room in its own pool's queue; enough of them wedge it.
- A broadcast evicts a slow client from `clients` but not from `clientsByID`: a later SendToClient sends on a closed channel.
- The terminal asks every component for its status inside its event loop. One that hangs, or grafana's, which logs from there, stops the
  loop, every log call and with them the health checks and the shutdown.
- tenantDB answers a missing connection itself and returns nil for it and for the error: the handler goes on and panics.

Seen while modelling; the models behave this way, and no run is made of them:

- A successful probe does not close a breaker whose allowance is more than one; all of them have to succeed.
- A job whose Submit wins the select against a closed stopChan may land in a queue nobody drains again; Stop called from a job of
  the pool never returns; a redis pool first used after Close looked is never stopped.
- An exit confirmed in the two seconds before main reaches its select is dropped; the UI ends and the server goes on.
- A status snapshot copied before an update can be cached after its invalidation (async_init.go:164), for up to 500 ms.
- The last client of a stream leaves an empty slice under the stream's id.
- A middleware's place is that of its name in a map's iteration, which differs from start to start, where DESIGN.md names an order.
- gzip's deferred Close sends a 200 before Echo answers an error, and the late answer goes to a writer that is back in the pool.
- A webhook's Send signs into a field of the body it sends, not into the header, and re-marshals the body: the Handle of a manager with the
  same secret refuses it.
- The file logger's numbered files never come to be, so `maxFiles` limits nothing; a file whose compression failed is removed; Close leaves the
  closed file in place, so that every Write fails until the next day.
- A job of a pool that looks up a connection while CloseAll waits for that pool blocks both, and everybody who looks one up after them.
- An unregister that the hub serves before its register leaves a client nobody removes.
- A shutdown during a slow startup sees no dependencies, or some, and leaves the others open.
- A client that walks a list page by page while it changes misses entries or sees some twice: count and page are two statements.
- The limiter in Redis lets more than its rate pass in a window when pipelines linger, as described above.
- A sidebar that is shown or hidden wraps the log anew and clamps no offset.
- The live screen does not clamp its offset to a new size. Who has scrolled to the end and enlarges the window sees a pane that is
  full only if it holds all lines, and the first line more then takes him back to the stale offset. `NobodyDisturbed` and the last
  part of `PaneIsTrue` are therefore about offsets that leave enough lines; the terminal screen clamps, for it that is always so
  right after a resize.
- refreshStats lists disabled components before connected ones, unlike its comment (terminal.go:1513); "Sidebar shown" is said also
  when the window is too small for it.

## What is proved

For every value of the constants that satisfies the modules' assumptions. `PROJECT.json` lists the theorems; each
safety property of a run that has one in the list holds beyond the run's bounds.

**CircuitBreakerProofs.** Assumptions: the three configuration values are integers
(the constructor clamps the others) and the callers are a finite set.
`BreakerInv` is the conjunction of `TypeOK`, `ProbesRationed`, `ClosedBelowThreshold` and
`HalfOpenHasWayOut`, and inductive as it stands; each action preserves it in a lemma of its own. The one fact it
needs about data is that a caller joining or leaving `probes` moves its
cardinality by at most one. From it `BreakerIsConsistent`.

**WorkerPoolProofs.** Assumptions: finitely many workers, at least one; each job's child
is a job or none. `JobsAccounted` and the drain property are not inductive. `PoolInv` adds
`EarlyLanded` (what landed before Stop is queued, running or done), `DrainsStopped` (a worker
drains or has exited only after stopChan is closed) and `StopperInv` (a Stop that waits has closed it, one
that returned has seen every worker exit). The heart of the argument is that a worker exits only when it
has seen the queue empty after stopChan was closed, and that early jobs can only leave the queue. From it:
`AcceptedJobsAreKept`. `KeepsPromise` is the refinement:
each step of the pool is, under the mapping, a step of `JobPool` or a stutter.

**CronManagerProofs.** `RegistryInv`: new entry ids are fresh, and the operation under way (`op`) tells exactly how cron's entries
differ from c.jobs, so that each step of an update moves from one difference to the next. `CloseInv`: a Close that has come
past poolMu has marked the manager closed, so no pool is created behind it, and one that has returned has seen every worker
exit. From them `CronRegistryConsistent` and `CronClosesItsPool`.

**WebSocketHubProofs.** `RegisterInv`: a connection passes the register queue once, and one that waits there is in no map and its
channel was never closed. That is what lets Run treat what it receives as new. With the properties themselves it is inductive; from it `HubMapsAgree` and
`SendIsClosedOnce`.

**BroadcastServiceProofs.** `TargetsRegistered`: whom a producer still has to offer an event to is registered, because whoever
removes a client needs the write lock. With the type invariant, and that newcomers are unknown, it gives `NoChannelEverPanics`.

**AppLifecycleProofs.** Assumptions: the factories that may fail, hang or hang on Close are factories, the
enabled and the declining services are services, and what a service needs are names of
factories; nothing is assumed finite. `LifecycleInv` has a half for each module, so that a step of one
leaves the other's half alone: `InfraInv` says that before `Launch` the registry is empty and
nobody waits for it (`LaunchInv`) and that `status` is how far the goroutines are (`CheckerInv`), which with
`ReadyMeansChecked` is inductive; `ProgramInv` says that the Dependencies, once sealed, are the registry
(`ServerInv`) and that a shutdown that did not come too early has a closer for each of them (`ShutdownInv`). The
two meet in one lemma, `RegistryGrows`: a step of the initialization changes the registry only while
it is empty and unpublished. From it: `ReadyIsChecked`, `ShutdownClosesAll`.

**CallProofs**, one invariant per part:

- `AsyncInv`: a call has a result exactly when its operation is over, the tokens out are those of the calls and
  operations that hold one, and what is pending is the number of results that are missing. The finite-set theorems count. From it
  `OperationsAreAccounted`, and, step by step, the refinement `PromisesAreKept`.
- `ManagersInv`: until Close begins every pool is one of an open client (`OpenInv`); afterwards a job that was accepted in time
  keeps its client open, because Close comes to the client only when the jobs of the pool are done (`EarlyInv`). Hence `ClientsAreOpenWhenUsed`.
- `StatusInv`: a ping with a deadline is no older than that, its answer lies between its beginning and now, and the cache expires a
  TTL and a ping after its answer: three ages that add up to `StatusesAreFresh`.
- `CursorInv`: a buffer is in the pool or held by one query, which finds in it what it scanned; the rows built are the query's own and as
  many as were read. Hence `RowsAreNeverMixed`.
- `DeliveryInv`: what is before a claim's position is handled, marks stay behind that, commits behind marks. Hence `DeliveredAtLeastOnce`.
- `GrafanaInv`: a response exists only after its effect, and what is done stays done, so that each step of a create finds no dashboard or
  its own. Hence `RetriesAreSound`.
- `WebhookInv`: a handler that a Trigger read is started or still to be started. Hence `WebhooksAreDelivered`.
- `HealthInv`: a check that is healthy was answered so in time, and when the report is made every check of the snapshot has its
  verdict, which is final. Hence `ReportsAreTrue`.
- `RetryInv`: attempts are made one after the other, and an attempt's answer is final, whatever its function does
  afterwards. Hence `VerdictsAreOfTheirAttempts`.

**RequestProofs**:

- `LoggerInv`: the current date lags behind the clock during a rotation, archives are of past days, and what is about to be removed is
  archived or spoilt. So an archive is begun once for a day, and no second rotation truncates one that holds lines. Hence `NoTakenLineIsLost`.
- `CipherInv`: the key a call took, or a box was sealed with, is the service's unless a rotation was acknowledged since. Hence `RoundTripsHold`.
- `CacheInv`: a Get that is told has an answer that was right during the call, an item about to be stored is one, a sweep's clock is in
  the past. Hence `CacheAnswersRight`, an invariant and an action property.
- `HandlersInv`: until its handler ends a client has changed nothing, and has been answered by nobody but `tenantDB`; whoever is about to
  update an order has found it. It rests on a lemma about the plans, `PlansAreWell`: each writes in its last step only, and
  resolves its connection once. Hence `HandlersTellTheTruth`.
- `MiddlewareInv` (with `ChainInv`: no name twice in the chain): how far each request is (`HitInv`). Inside the chain nothing is written but what its guard or
  its handler answered (`Told`, `Untold`), and a writer taken from the pool is in nobody else's hands until its request has come out through gzip
  (`WritersApart`). So an answer that strays into another response can only be Echo's to a request that failed (`OnlyLateStray`). Hence `AnswersAreKept`.
- `LimiterInv`: in memory a visitor is counted for at least what was let through since the window began or cleanup last took him
  (`CountedAllowed`). In Redis what was granted since a window ago, and what is about to be counted or granted, is in the set unless it was
  lost with the key, and the set stays for a window after each EXPIRE (`GrantedInv`); who was let through in a window began in
  it and was granted in it, or was under way when it began, or was lost in it (`PassedInv`). What was counted since a
  moment is a difference of sums over the clock (`Sums`); lemmas about those (`SumsStep`, `SinceAdds`, `SinceCompares`, ...) come first. Hence `AllowanceIsKept`.
- `PagedInv`: what has been seen is the list up to the page asked for next (`SeenSoFar`), and users only grow (`UsersGrow`). That the last
  page told is the last that has entries is arithmetic of `\div` and `%`; that a page whose offset would overflow shows nothing follows
  from the clamp on the page. Hence `WalksCoverTheList`.
- `TerminalInv`: the filtered lines are those of the filter (`PaneInv`); a dialog that is open holds no result (`DialogInv`), so that keys that edit
  decide nothing; the sidebar is hidden when it should be (`SidebarInv`). What is drawn is a cut of the lines (`CutIsTrue`), which a line more does not
  move (`CutOfMore`, `LinesAreStill`). Hence `ScreenStaysTrue`, two invariants and an action property.

Sums over the clock, the filtered and the rendered lines are recursive functions on an initial segment of the naturals. The library's
induction theorems take an operator, but well-foundedness of the naturals and the existence of minimal elements (`WFMin`) are facts about
sets: `NatSetInduction` derives induction over a set of naturals from them, and `SumsDefined`,
`MatchingDefined` and `LinesDefined` show with it that these functions exist.

Assumptions made for the proofs, and why the code justifies them: `Registered` is finite and names middlewares there are; `Visits` is
finite, and rate and window are positive; the limiter in Redis reads one clock with Redis that is never set back, while nothing is
assumed of how long a pipeline takes; a list holds an entry at least and the last ordinary page of a list does not overflow an int (2^63 - 1 against lists of memory's size);
a pane has three lines at least (live.go:300, five in terminal.go:326), and a screen one, and four more than its pane at most (terminal.go:325-328).

**Only model-checked.** All liveness (`EpisodesAndCallsEnd`, `WaitsEnd`, `CallsReturn`, `ConnectionsEnd`, `LaggardEvicted`, `StoppedEnds`, `StaleStatusAgesOut`,
`StartupAndShutdownEnd`, `CancelledEnds`, `CloseAllReturns`, `CancelFreesClose`, `TriggersReturn`), which is outside the prover's reach. Every
other property of a passing run is stated by a theorem. The type invariants of the small modules are collected in
`CallsTypeOK` and `RequestsTypeOK`; they hold in both instances, and are not listed in the configurations because most of
them are part of a proved invariant.

## Not modelled

- **Contents**: of messages, events, jobs and rows; formatting, encoding and validation rules; cryptography (what was sealed
  opens with the same key).
- **Client libraries and servers** are external: their calls return, fail, hang or repeat an effect as the code must expect. Single calls of a library
  without state of the program's own (Get, Insert, GetObject) are left out.
- **HTTP server**: what it does to long-lived streams (its write timeout cuts a stream after 30 s, which for a handler is one more way for the
  client to leave).
- **Guards of the middlewares**: tokens, origins and path patterns are a choice of the environment.
- **`shardIndex`** of the sharded cache: an arithmetic function of a key's characters, whose index gets negative for long keys; only a benchmark uses it. The
  **float arithmetic** of the retry's delay; the model's is an integer with a ceiling.
- **MCP server**: stateless handlers that read the registry and the status; in the model they are readers of `InfraInit`.
- **Configuration**: loaded before anything else starts. **Utilities and test helpers**: pure conversions without shared state. **Generated
  documentation**. Of the **terminal UI** the boot animation, charts, themes and the screens the program does not start.
- What the program does not call: SetComponent, CloseAll and WaitForInitialization of the component registry, BootService.

## Plan

Done: all parts above, with proofs of every safety property. Left, in this order: the type invariants of
`TerminalUI` and the small modules that no proved invariant contains; the safety parts of the liveness arguments (what a
waiter waits for exists); the two-way composition of `ClientManagers` with `WorkerPool` instead of its promise; the MCP handlers, if they come to keep state.
