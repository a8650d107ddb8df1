# A TLA+ model of dtx-framework

dtx-framework (Go) is a set of in-process buses: an **event** bus with
synchronous and asynchronous subscribers, a **command** and a **query**
dispatcher, a registry for each of them, and a transactional **outbox** that
puts events into a database table and retransmits them. This directory models
its concurrency, its crashes and its failures in TLA+, checks the models with
TLC on small instances and proves the main safety properties with TLAPS.

Paths below are relative to `src/`.

## Inventory

| component | state it keeps | operations | modelled by |
|---|---|---|---|
| event local provider, `bus/event/local_provider.go`, `task.go` | `mu` (RWMutex), `subscriptions` (id to subscription), `pool` | Publish, Subscribe, the unsubscribe closure, Shutdown | `LocalProvider` |
| worker pool, `bus/event/worker_pool.go` | `tasks` (buffered channel), `stopCh`, `wg` | run, enqueue, worker, stop | `WorkerPool` |
| event registry, `bus/event/registry.go` | `mu`, `buses` (topic to bus) | Bus, Shutdown | `Registry` |
| bus facade and options, `bus/event/bus.go`, `options.go`, `noop.go` | the wrapped provider | NewBus and delegation | `Registry` (NewBus and its panics, a direct Shutdown), `LocalProvider`, `Middleware` |
| event middleware, `bus/event/middleware.go` | none of its own; writes the event's metadata map | Wrap, Publish, Subscribe | `Middleware` |
| command / query provider, `bus/{command,query}/provider.go`, `dispatcher.go` | `mu`, `handler` | Dispatch, Register, Shutdown (empty) | `Dispatcher` |
| command / query registry, `bus/{command,query}/registry.go` | `mu`, `dispatchers` | Dispatcher, Shutdown | `Registry` with `kind = "dispatcher"` |
| command / query middleware and options | none of its own; the command's metadata map | Wrap, Dispatch, Register | `Middleware` |
| outbox middleware, `bus/outbox/middleware.go` | none; a row in the table | Publish | `Outbox` |
| retransmitter, `bus/outbox/retransmitter.go` | `ticker`, `done`, the batch in hand | Start, Stop, processBatch | `Outbox` |
| PostgreSQL storage, `examples/outbox/postgres` | the table `outbox` | Save, Fetch, MarkProcessed | `Outbox` |
| `sync.RWMutex` (Go) | readers, waiting readers, the writer | RLock, RUnlock, Lock, Unlock | `GoRWMutex` (external) |

How they interact. A bus is a provider wrapped in middleware. `Publish` takes
the provider's read lock, ranges over the map of subscriptions and, for each,
either calls the handler on the caller's goroutine **with the lock held** or
sends a task to the pool's channel **with the lock held**. One worker goroutine
(`newWorkerPool(1, 10, 100)`) runs the tasks. `Subscribe` and the closure it
returns take the write lock; subscriber middleware is applied under it. Handlers
and middleware are callbacks: they may call back into the provider, the registry
or a dispatcher. `Registry.Shutdown` holds the registry's write lock while each
bus waits for its worker. Dispatchers run the one handler under their read lock.
The outbox middleware replaces `Publish` by an INSERT in the caller's
transaction; a retransmitter polls the table with a ticker, publishes each
message on the real bus and marks the batch PROCESSED in one UPDATE.

What is hard here:

* callbacks under a lock (re-entry), and Go's rule that a waiting writer holds
  back new readers: a nested `Publish` or `Dispatch` may deadlock although it
  only reads;
* a bounded queue filled under a lock, emptied by a worker that stops without
  emptying it, on a channel nobody closes;
* ids taken from the size of a map that shrinks;
* double-checked locking, and a `close` that panics the second time, in the
  middle of a loop over all buses;
* a metadata map that belongs to a message object, which every call that uses the
  object writes and reads without a lock;
* crashes, panics and statement failures between the three steps of the outbox
  (fetch, publish, mark), several loops on one table (of several retransmitters,
  or of one that was started twice), and a bus that is shut down underneath them;
* user code (options, middleware constructors) that runs under the registry's lock
  and may panic or call back.

What makes each component correct: the provider calls every subscription that
was there when a Publish began, never one that was unsubscribed, an async one
once and in order, writes its map only when nobody reads it and hangs only
through re-entry; the pool runs nothing after Shutdown; the registry has one
bus for a topic and stops them all; a dispatcher has one handler; the outbox
delivers what was committed and nothing else, at least once, the cause before its
effect unless Fetches overlap or the bus refuses the cause, and not without end; the middleware ends every span, keeps a handler in the trace of its own message
object and tells of every error. `PROJECT.json` lists, under `hazards`, every line where this can go wrong
and the properties that would show it.

## Modules

**`GoRWMutex`** is Go's `sync.RWMutex` as three sets: `readers`, `queued`
(an RLock that waits behind a writer) and `writers` (the writer slot, at most
one call). `Lock` is two steps: `Announce` takes the slot, and `Holds` is true
once the readers have left. `Unlock` lets all queued readers in. The lock has no
owner, so a nested RLock is a reader like any other. It is external: nothing of
it is under `src/`.

**`WorkerPool`** is `worker_pool.go`: the channel `tasks`, what each worker is
`running`, whose goroutine has `exited`, and `stopCh`. A select with several
ready cases takes any. `accepted` and `finished` are history variables. Its
actions are used by `LocalProvider` through `Pool == INSTANCE WorkerPool`.

**`LocalProvider`** is the provider with its pool and its lock. Each call of
the program is an identifier that is used at most once, and `pc[c]` says where it
is. The actions follow the code:

| code | action |
|---|---|
| `p.mu.RLock()` of Publish | `PublishCall` (it queues behind a writer) |
| the range loop reaches an entry | `Visit`, in any order: Go randomises it |
| `p.pool.enqueue(task)` | `Enqueue`, not enabled while the queue is full |
| a synchronous handler returns / panics | `HandlerReturn` (calls `errorHandler`) / `HandlerPanic` |
| the end of the loop and the deferred RUnlock | `PublishReturn` |
| `p.mu.Lock()` of Subscribe and of the closure | `LockAnnounce`, then the lock is held once the readers left |
| the rest of Subscribe | `Register`; the id is `SubID(size of the map)`, with `string(rune(n))` computed for the code points that are no characters |
| an option or a middleware of Subscribe panics | `RegisterPanics`: the deferred Unlock, and nothing is registered |
| `delete(p.subscriptions, subID)` | `Delete` |
| `close(p.stopCh)`, `p.wg.Wait()` | `ShutdownCall` (panics if closed), `ShutdownReturn` |
| the worker's select and handler | `WorkerTake`, `WorkerReturn`, `WorkerPanic`, `WorkerExit` |

A subscription is named by its Subscribe call, so `subscriptions` maps ids to
Subscribe calls. The calls in `Nested` may also be made by user code that runs in
the provider (a handler, or subscriber middleware under Subscribe's lock);
`parent` remembers the frame, which stays where it is until the call has
returned. `Panicking` are the subscriptions whose handler or whose middleware may
panic. A panic in a synchronous handler goes to the caller, who recovers; one
on the worker's goroutine ends the process (`crashed`).

**`OrderedDelivery`** is what the pool promises to Publish: a task is sent at most
once, the tasks are handled one after the other in the order of the sends, none is
skipped, and none is handled once the pool is closed. `LocalProvider` implements it
with the one worker that the code starts (`DeliversInOrder`); `open` is mapped to "no
Shutdown has returned", because until then the worker may go on.

**`SubscriberTable`** is what Publish, Subscribe and the closures promise when they
race: every call uses the table of subscribers in one step between its start and its
return, and a Publish reaches exactly who is in the table at that instant. As ids are
not unique, a Subscribe may drop one other subscriber and a closure may remove
another one than its own, or none, but never more than one. `LocalProvider`
implements it (`PublishesAtOneInstant`): a Publish takes effect at its deferred
RUnlock, Subscribe and the closure where they write the map.

**`Registry`** is `registry.go` of the three packages. The variable `kind`, fixed
for a whole behaviour, is "event" or "dispatcher": a command or query registry has
the same code without the check for an empty topic, over dispatchers whose
Shutdown does nothing. A bus is named by the Bus call that made it, and of a bus
the module keeps whether its worker has `started`, is `stopped`, is `busy` in
a handler and has `exited`. The actions follow the code:

| code | action |
|---|---|
| `RLock`, the lookup, `RUnlock` | `BusCall`, `Check` |
| `Lock`, the second lookup | `LockAnnounce`, `LookAgain` |
| `NewBus`: options, provider (its worker starts), middleware | `MakeProvider`, then `Store`; either may end in `MakePanics`, and options that call the registry are calls made in `Making` |
| the loop of Shutdown over event buses | `CloseBus`, `WaitReturns`, `ClosePanics`, `ShutdownReturn` |
| the same loop over dispatchers | `VisitDispatcher` |
| a program that shuts a bus down itself | `StopDirectly` |

**`GetOrCreate`** is the abstract specification of a registry: the lookup of a key,
and the creation of its entry when there is none, are one atomic step; an entry is
never replaced and serves callers of its own type only. `Registry` implements it
(`GetsOrCreates`). **`MCRegistry`** adds to `Registry` the symmetry of its topics, types and
calls for TLC.

**`Dispatcher`** is the provider of the command and of the query package, which
differ in names only. A handler is named by the Register call that brought it.
**`HandlerSlot`** is what it promises: each Register and each Dispatch takes effect
in one step between its start and its return, on a slot that the first Register
fills for good. `Dispatcher` implements it (`FillsOneSlot`).

**`Outbox`** is the outbox with its PostgreSQL storage and the bus behind it.
`tx[e]` is the business transaction of event e (`Publish` takes the next event that was
not used, as every call makes a new id; one that was rolled back stays `"aborted"`), `status[e]` its row, of which others see the committed ones, and `older[e]`
the rows whose `created_at` is before its own. Every Start makes a loop, a goroutine
g of `Loops` that has an `owner`, and in `processBatch` a `batch` and
`processedIDs`; a second Start of one retransmitter makes a second loop. `done`
holds the retransmitters whose channel Stop has closed. There is no ticker:
there may be a tick whenever a loop is at its select, which includes what a
replaced or a stopped ticker leaves behind. A statement is one atomic step, except for
the `SELECT ... FOR UPDATE SKIP LOCKED` of Fetch, which runs on a connection of its own next
to those of other loops: `FetchCall` takes the rows it sees (`scan`), `LockRow` locks the
oldest that is left, `SkipRow` passes over one that another Fetch under way has locked, that
an UPDATE has or that is not PENDING any more, and `FetchReturn` is at `Limit` rows or at
the end. So its `LIMIT` may fill with younger rows while another loop has the
older ones, and this loop may publish first. As there is no transaction around the statement, its
row locks are gone when it returns; the UPDATE of `Mark` waits for them (`Free`). Rows get increasing
times (ties of `time.Now()` are left out; they would only make the order of a
batch arbitrary). `async` and `unreadable` say, for a whole behaviour, whether the
bus' subscriber is async and which payloads do not unmarshal. The bus has its queue
of `QueueSize` and one worker (`Handle`), which `BusShutdown` ends and whose
queue stays behind; `queue` holds the tasks in the channel and the one in the worker's hand. `SyncPanics` and `AsyncPanics` are handlers that panic on the
loop's and on the worker's goroutine, where nothing recovers them; they and `Crash`
kill the process, which starts again with the table only. Faults (a failed statement
or publish, a death of the process) are bounded by `MaxFaults`. `earlier`,
`handled`, `deliveries` and `leftOut` (what the bus refused or a Fetch left to another one
before it was ever delivered) are history variables.

**`AtLeastOnce`** is what an outbox promises: an event is accepted, then delivered,
perhaps again, then acknowledged, and nothing of that is taken back. `Outbox`
implements it (`DeliversAtLeastOnce`), with the committed transactions as what is
accepted and the PROCESSED rows as what is acknowledged.

**`Middleware`** is logging, metrics and tracing of the three packages, all
configured and in their default order, around an event bus with one subscription
(async or not, for a whole behaviour) and a dispatcher with one handler. A call
uses a message object; several calls may use the same one, and `meta[m]` is the
publish span that tracing has put into the object's map. A call has two spans,
`<<c, "publish">>` and `<<c, "process">>`. For an event, `PublishCall` starts
the first one, `PublishInject` writes the map, `HandOver` is the provider
calling the handler or its worker taking the task, and `ProcessStart` reads the map
and starts the second one under what it finds there. For a command it is the
other way round: `DispatchStart` reads the map and starts the process span, and
the handler that Register wrapped starts the publish span under it (`HandlerCall`) and
writes the map (`HandlerInject`). The other actions are the ways out: an error, a
panic, no handler. `WithoutMap` are messages whose `Metadata()` returns nil, on
which Inject panics; `Plain` commands have no such method (a value type whose
`Metadata` has a pointer receiver, say). Accesses to one map at the same time are
undefined in Go: `ConcurrentMapAccess` ends the process, and without it one access
comes first. A map begins empty or, in an event that was read from the table
of an outbox, with the trace context that `retransmitter.go:109-113` restores
(`Restored`). `overtook[c]` is a history variable: the calls that have written to the map of
`c`'s event since `c` did and before its handler began. `counted`, `consumed` and `logged` are what
metrics and logs say of a call, for commands the deferred log line of an error, too. The provider of the event bus is the local one, whose Publish returns
nil.

The modules whose name ends in `Proofs` hold the theorems, together with
`LocalProviderHangs` (when the provider hangs) and `LocalProviderProgress` (that it
gets on until then), which build on `LocalProviderProofs`, and `CallForest`, lemmas about calls made from inside other
calls: they form a forest, and of any of them one has none of the others
inside. Definitions whose
comment begins with "A faulty variant" are the slips against which the
properties were tested; no specification uses them.

## Runs

| run | what it shows |
|---|---|
| `LocalProvider_safety` | the provider in every interleaving of two publishes, two subscriptions (one async, both may panic), an unsubscribe and two shutdowns, three of them also called from handlers: who is dispatched to, as if each call took effect at one instant, no livelock, what alone can hang |
| `LocalProvider_live` | three publishes to one async subscription over a queue of two, an unsubscribe and a Shutdown: the tasks are handled in the order of the sends, each once; with handlers that return and do not call back, every call returns and every accepted task is handled until a Shutdown, and a Shutdown returns |
| `LocalProvider_ids` | violated: subscription ids are unique |
| `LocalProvider_errors` | violated: the error of an async handler reaches its error handler |
| `LocalProvider_stopped` | violated: Publish returns, also after Shutdown |
| `Registry_safety` | three racing Bus or Dispatcher calls, two topics and the empty one, two types, a Shutdown, calls made by handlers, options and middleware constructors, which may panic: one bus per topic, typed results, an atomic get-or-create, every worker stopped that ran when Shutdown began, hangs by re-entry only |
| `Registry_shutdown` | violated: a Shutdown that is over has stopped every bus |
| `Dispatcher_safety` | three dispatches and two racing registrations, some made by handlers, which may panic: one handler, found once registered, an atomic slot, and calls return unless a handler re-enters while a Register waits |
| `Outbox_safety` | one retransmitter started once or twice, two events of which either or both may be unreadable, a synchronous or async subscriber, a shutdown of the bus, one fault, Fetches that overlap and pass over each other's locked rows: events are delivered at least once, a bounded number of times, and marked after that; an effect before its cause only in the ways that `DeliveredInOrder` names; what is lost with the process is no more than a queue and the task in hand for each fault, and nothing with a synchronous subscriber; Stop ends both loops |
| `Outbox_parallel` | violated: parallel retransmitters do not select the same messages |
| `Outbox_async` | violated, without any fault: an event marked PROCESSED is handled or in the queue of a living worker |
| `Middleware_safety` | three calls, one of them perhaps from a handler, of two events and two commands, with nil maps, errors, panics, an async subscription and maps that an outbox has restored: the trace a handler runs in, open spans, what metrics and logs say of events and commands, races on the map |

Seven invariants have a theorem and no run of their own, because properties that are
checked cover them: `AsyncOnce` follows from `DeliversInOrder`, `OneBusPerTopic` from
`GetsOrCreates`, `OneHandler` and `RegisteredIsFound` from `FillsOneSlot`, and the
outbox' `OnlyCommittedDelivered` from `DeliversAtLeastOnce`. Calls that are over and
have kept the provider's lock (`LockHeldByActiveCalls`) show in
`HangsOnlyByReentryOrStop`, because others wait for it then.
`AsyncInOrder` says of the tasks that were handled what `DeliversInOrder` says; that the
others are in the worker's hand or in the queue is seen by `AcceptedIsHandled`, which
fails when one is dropped.

Every violated run checks one statement that a comment, a test or a README of the
repository makes; `PROJECT.json` quotes it under `findings`.

Bounds, and why they are enough. A call is made once, so a run's sets of calls bound
everything. Two publishes are what it takes for a writer to wait between
two readers and for two senders to contend for the queue, of size 1 so that it
fills; one worker is what the code starts. A task can overtake another only when two of
them are in the queue at once, so `LocalProvider_live` has a queue of two and three publishes, one
of which is in the worker's hand (the theorem `OneWorkerDeliversInOrder` has any number of
either). That run has one Shutdown and no synchronous
handler; two Shutdowns that meet, and handlers that run or panic under the lock, are in
`LocalProvider_safety`. One unsubscribe and two Subscribes
make an id free and reused; three are needed only for the violated run. Two
shutdowns make `close` panic. Three Bus calls, two of them for one topic, race
for the double check while a third keeps another bus for the Shutdown to visit; the
handler of one bus calls back. Topics that are not empty, types, and
calls that no handler makes are interchangeable, so `Registry_safety` uses their
symmetry (its properties are invariants and a refinement, none of them about
liveness). Two loops race for the
same rows; for a loop it makes no difference to the table whose it is, so
`Outbox_safety` has both started by one retransmitter (which Stop has to end)
and `Outbox_parallel` by two, and the theorems hold for any number of either. Two
events are a batch with an order and, with one unreadable row, a batch that is in
part skipped; `unreadable` is any set of the two, and both of them fill every batch; one is published after the other committed, or before. One fault is a
crash, a panic, a failed statement or a failed publish at every point, and the bound
`DeliveriesBounded` counts it. The channel of size 1 is full when two events were
delivered, one of them in the worker's hand. `Limit` is 2, so that one unreadable
row does not fill a batch; a table with as many unreadable rows as the limit does starve
the others, which the premise of `CommittedIsDelivered` says. Two loops with two rows are
what it takes for one Fetch to pass over the older row and go on to the younger one.
Three calls of the middleware are two uses of one message object and a call nested
in one of them; of the messages, one event has a nil map and one command no map.
Deadlock checking is off where a program that has made its calls is at rest;
`HangsOnlyByReentryOrStop`, `HangsOnlyByReentry` and the liveness properties say
instead which hangs are possible. They are about `CanMove`, which lists what a call
under way and a worker wait for (the lock, room in the queue, the workers, user code
that has returned). `WaitsForNothingElse` compares that list with the
actions: something can move exactly when `ENABLED Progress`. So TLC checks that nothing
is missing from the list, and that nothing on it is not so; the theorems reason about
the list, and `MovesAsNamed` proves of all three modules that nothing is missing.

## Fairness

Only the liveness properties use it. `LocalProvider`, `Dispatcher`: weak fairness
of every call under way and of every worker: Go runs each goroutine
that can run, RWMutex lets readers and writers in by turns, and handlers are assumed to
return. Nobody has to start a call. `Outbox`: weak fairness of each loop under
way (its ticker fires, statements and the bus answer, handlers return) and of the
bus' worker; nobody has to start a retransmitter, to commit or to stop anything, and
`CommittedIsDelivered` has as its premise that from some time on a retransmitter is
at work and its bus is up. Ending the loop has strong fairness, because a ticker
may go on firing (Stop before Start, a second Start) and then the select has two ready
cases again and again: Go chooses uniformly, so it does not refuse `done` for ever. `StopEnds` and
`CommittedIsDelivered` have the form `[]<>(all of them)`: as what is reached is kept (a loop
stays ended while the process lives, a delivered event delivered), it says of each what one
leads-to for each event and loop would say, and TLC checks it at a fraction of the cost.

## Theorems

All are proved for every value of the constants that satisfies the named
assumptions (disjoint sets of calls, `QueueSize` and `Limit` at least 1, at least one
worker, finite sets of events and of loops) and what a theorem adds to them, with no bound on calls, workers, topics, loops or faults.

`LocalProviderProofs`

* `TypeCorrect`. `TypeInv` adds to `TypeOK` that the map is finite (so the size
  is a number) and that a Publish that dispatches is at an entry.
* `LockNotLeaked`, from `LockInv`: besides `LockHeldByActiveCalls`, a
  Publish in its loop is in `readers`, so nobody leaves the loop without
  an RUnlock.
* `MapStable`: Register and Delete need `Holds`, which excludes readers; by
  `LockInv` those are the Publishes in their loops.
* `SilentAfterUnsubscribe`, from `EntryInv`: a Publish that dispatches is at an
  entry that is in the map now, and once a closure has returned its subscription
  is not in the map. The second part is where ids matter: a subscription is in the
  map only under its own id, so deleting that id, whoever owns it, removes it.
* `QuietAfterShutdown`, from `PoolInv`: an exited worker runs nothing, and a
  Shutdown that is done has seen all workers exit.
* `OrderKept`: `AsyncInOrder` is inductive as it stands, and the work is in
  three lemmas about sequences: a send appends to the queue, a receive moves its
  head into the worker's hand, a return moves that to the finished tasks.
* `SentOnce`, from `OnceInv`: what was sent is among the entries its loop has
  visited, and what a Publish is about to send was not sent yet.
* `SubscribersReached`, for finitely many, at most 55,296, subscriptions, from
  `ReachInv`: as long as nobody unsubscribes, the ids are the numbers below the
  number of subscriptions made, so the next id is new, nothing is replaced, and
  what was made before a Publish began is in the map when its loop ends. The bound
  keeps `string(rune(n))` below the code points that are no characters.
* `IdsUnique`, under the same bound and from the same invariant: two subscriptions
  have different ids as long as nobody has unsubscribed. `LocalProvider_ids` shows that
  the premise is needed.
* `OneWorkerDeliversInOrder`, if there is one worker: `LocalProvider` implements
  `OrderedDelivery`. An `Enqueue` is a Send, for the first time by `OnceInv`; a return
  of the worker is a Handle, of the task that follows the finished ones by
  `AsyncInOrder`; the first `ShutdownReturn` is Close.
* `PublishIsAtomic`: `LocalProvider` implements `SubscriberTable`. `VisitInv` says
  that what a loop has visited is in the map as long as it holds the lock, and that a
  Publish which waits has visited nothing; with the guard of `PublishReturn`, that
  nothing in the map is left to visit, this is equality. A subscription is under its
  own id only (`EntryInv`), so a Register replaces and a Delete removes at most one
  (`RegisterReplacesOne`, `DeleteRemovesOne`).

`LocalProviderHangs`

* `HangsExplained`. The calls nest as a forest (`NestInv`), and each waits for the
  lock, the queue or the workers only (`WaitInv`). If nothing can move and no call that
  was made by user code waits, the innermost call of the forest still under
  way waits for nothing that user code holds up; what is left is a Publish on the
  full queue of workers that were stopped.
* `NoDeadlock`, if no call is made from a handler: a provider that runs and is not
  shut down never gets stuck, whatever the number of calls and the capacity.
* `MovesAsNamed`: no action is taken in a state that `CanMove` calls stuck.

`LocalProviderProgress`

* `NeverInCircles`: the action property `NoLivelock`. `Past` is what calls and workers
  have behind them, in seven sets; no step shrinks one, and every step of the provider or
  of a worker, unless it kills the process, adds to one. By `BehindInv` a Publish is at
  an entry it has reached, so leaving it is new, too; by `LockInv` only a writer that is
  over gives the slot back.
* `StepsAreFinite`, for finitely many calls and workers: the sizes of the seven sets
  never add up to more than `MostSteps`, which is a number that the calls settle, and each
  step adds to the sum. `OnceInv` bounds the accepted tasks, and `CountInv` (what was
  accepted is queued, running or handled) the handled ones, for any number of
  workers. With `HangsExplained` this says without any fairness how a provider ends
  up: after a bounded number of steps all calls have returned, or it hangs in one of the two
  ways, or a panic has ended the process.
* `BlockedForGood`: once the workers have ended and the queue is full, a Publish that waits
  for room waits for ever, and as it has the read lock, the map never changes again.

`RegistryProofs`, for all three registries

* `TypeCorrect`, `LockNotLeaked`: panics of options, middleware and `close` leave
  the lock, and only its holder makes or waits for a bus (`LockInv`).
* `UniqueBus`, `TypedResults`, from `MapInv`: a bus in the map sits under its own
  topic, a topic whose bus is being made has none, entries are never overwritten,
  and every result is an entry, because `LookAgain` runs with the lock held.
* `ShutdownComplete`: the workers of every bus the loop has visited have ended, but
  for the one it waits for; a worker without a bus in the map belongs to a bus in
  the making or to one whose NewBus panicked (`WorkerInv`); and the loop ends only
  when it has visited every topic that has a bus.
* `LookupIsAtomic`: `Registry` implements `GetOrCreate`. `Check` or `LookAgain`
  that finds an entry is its Get, `Store` its Create; the rest are stutters.
* `HangsExplained`, from `WaitInv`: who waits for the lock waits for its writer,
  and the writer for nothing but user code: its own options and middleware, or a
  handler on the worker it has stopped. `MovesAsNamed`, as for the provider.

`DispatcherProofs`: `TypeCorrect`, `ExactlyOneHandler`, `HandlerFound`,
`DispatcherLock`, and `Implements`, the refinement of `HandlerSlot`. Every result is
the stored handler, which never changes once it is set (`HandlerInv`).
`HangsExplained`, from `NestInv`: the innermost dispatch under way is in a handler
that can return, unless a call that a handler made waits behind a Register.
`MovesAsNamed`, as for the provider.

`OutboxProofs`

* `TypeCorrect`; `NoGhostEvents` and `MarkedAfterDelivery`, from `DeliveryInv`: a
  batch is committed, and a committed transaction stays so; `processedIDs` were
  delivered, and only they are marked.
* `NoLoopStuck`: a loop can always go on with the batch it has, because `created_at`
  puts the rows in a strict order (`SortedInv`), so that a finite set of them has an oldest one
  (`FirstOfOrder`, by counting what is before each): a Fetch under way has a next row, to lock
  or to pass over, or it returns, and a batch has a next message.
* `CausalOrder`, from `RowInv` and `OrderInv`. `RowInv`: `created_at` orders the
  rows, and what was committed before an event was published is older. `OrderInv`:
  what is earlier than a row that a Fetch has yet to come to is yet to come, too, or
  locked, or settled (delivered, unreadable, or left out: refused by the bus, or passed over
  because another Fetch had it), and what is earlier than a message of a batch is in that
  batch or settled. So of all that racing loops, failed messages and deaths of the process
  do, only these three ways lose the order; the last one does lose it: that is
  the price of loops that do not wait for each other (`postgres.go:38-39`).
* `DeliveryCount`, from `CountInv`: the deliveries of an event, and the loops that
  may deliver it once more before the next fault, are together at most the number of
  loops times the faults plus one. A loop that has delivered an event has it among
  its `processedIDs`, and then the row is PROCESSED: only a fault gives it
  another delivery.
* `LossIsBounded`: what the bus took and its subscriber never got is at most
  `QueueSize + 1` events for each fault (the queue and the task in the worker's hand), and nothing
  with a synchronous subscriber. An event
  that is delivered is handled, or in the queue, until the process dies, which drops
  at most those (`QueuedCount`).
* `Implements`: `Outbox` implements `AtLeastOnce`. A commit is Accept, a publish on
  the bus, also one whose handler kills the process, is Deliver, the UPDATE is
  Ack, also one that reports a failure.

`MiddlewareProofs`: all five invariants, from one inductive invariant. `CallInv`
says what a call that has not begun leaves alone; `EventInv` and `CommandInv` say
for each place of a call which of its spans are started and ended; `MetaInv`
says that the span in a map is that of a call that used the message.

* `TracesKept`. For a command it needs `MetaInv` and that the message of a call under way does
  not change (`TraceKept`). For an event `InjectedInv` says more: from its Inject until its handler
  extracts, the map holds the span of the Publish itself or of a call in `overtook`, never that
  of an earlier user of the object.
* `RestoredTraceIsLost`, from `RestoredInv`: what a retransmitter put back is in maps of
  events only, and in none of which a call is past its Inject; so no span is ever started in it.
* `ErrorsShow`: `ErrorsObserved` for events and commands. A handler that returns an error shows
  it in the counter, in the log line and in its span; a Dispatch without a handler, too; a
  Dispatch is counted as an error exactly when it is logged as one.
* `OneCallNeverRaces`, from `EventInv`: a handler is not handed anything before Inject is
  through. `NoOpenSpan` and `TypeCorrect` need the places only.

Only model-checked: liveness (`CallsReturnUnlessStopped`, `AcceptedIsHandled`,
`ShutdownReturns`, `CallsReturnUnlessReentered`, `CommittedIsDelivered`, `StopEnds`)
and, of `WaitsForNothingElse` of `LocalProvider`, `Registry` and `Dispatcher`, the half
that says "when `CanMove`, then `ENABLED Progress`". Liveness and ENABLED are out of the
prover's reach; the other half needs no ENABLED and is `MovesAsNamed`.

## Not modelled

* Of the middleware: names, durations, attributes and the wording of log lines, the
  log lines of Register, and middleware that is not configured (a no-op).
* Contexts, apart from the span in one: the code passes them on and does not look at
  deadlines or cancellation.
* The payload and the metadata of a message, apart from whether it unmarshals; the
  migration of the table. `Outbox` has one event type, as `retransmitter.go:37-39`
  presupposes: `Fetch` of the PostgreSQL storage does not select by topic, so that
  retransmitters of two types that share its table would take each other's rows.
* Row locks that a backend holds on to whose client has died: at a death of the process
  the model drops them at once.
* `maxWorkers` of the pool and the case of a closed `tasks` channel, which the code
  never reaches.
* A second Stop of a retransmitter: it panics in its caller and changes nothing that
  the loops see.

## Where code and texts differ

The six violated runs are listed under `findings` in `PROJECT.json`. Two more differences came up
that no run is about:

* The row of the outbox keeps the publisher's trace context «для трассировки»
  (`bus/outbox/message.go:21`), `event.go:9-11` gives events their metadata for that,
  and `retransmitter.go:109-113` copies it into the event. But the tracing of the real bus starts a root span in Publish and writes its context
  over the restored one before a handler extracts it: the publisher's trace ends at the table.
  `HandlerInItsTrace` does not call that right or wrong, it allows a handler to continue the restored
  trace; the theorem `RestoredTraceIsLost` says that none does.
* `command/middleware.go:238` and `258` say that Dispatch injects the trace and that Register
  extracts it; the code does it the other way round, and so does `Middleware`.

## Plan

What could be added, in this order:

1. `System`: the outbox in front of a bus with its real pool and several
   subscriptions, in the order a program shuts down in, from `Outbox` and
   `LocalProvider`.
2. An abstract readers-writer lock, implemented by the providers' use of `GoRWMutex`, and
   the proof of that refinement.
3. For `Registry` and `Dispatcher` what `LocalProviderProgress` proves of the
   provider: that finitely many calls take finitely many steps.
