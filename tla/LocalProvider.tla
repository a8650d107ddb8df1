---------------------------- MODULE LocalProvider ----------------------------
(***************************************************************************)
(* bus/event/local_provider.go: the in-process provider of an event bus.   *)
(*                                                                         *)
(* Every call of the program is an identifier that is made at most once: a *)
(* Publish, a Subscribe, an unsubscribe (the closure Subscribe returned)   *)
(* or a Shutdown.  A subscription is named by the Subscribe call that made *)
(* it, an event by the Publish call that publishes it.  The calls in       *)
(* Nested may also be made by user code that runs inside the provider: a   *)
(* handler, or a subscriber middleware applied under Subscribe's lock.     *)
(***************************************************************************)
EXTENDS Naturals, Sequences, FiniteSets

CONSTANTS
    Publishes, Subscribes, Unsubscribes, Shutdowns,
    Nested,         \* the calls that a handler or a middleware may make
    Async,          \* the subscriptions made WithAsync
    ErrorHandled,   \* the subscriptions made WithErrorHandler
    Failing,        \* the subscriptions whose handler may return an error
    Panicking,      \* those whose handler, option or middleware may panic
    Workers, QueueSize, None

Calls == Publishes \cup Subscribes \cup Unsubscribes \cup Shutdowns

\* The stacks on which user code runs.
Frames == Publishes \cup Subscribes \cup Workers

ASSUME CallsAssumption ==
    /\ Publishes \cap (Subscribes \cup Unsubscribes \cup Shutdowns) = {}
    /\ Subscribes \cap (Unsubscribes \cup Shutdowns) = {}
    /\ Unsubscribes \cap Shutdowns = {}
    /\ Workers \cap Calls = {}
    /\ Nested \subseteq Calls
    /\ Async \cup ErrorHandled \cup Failing \cup Panicking \subseteq Subscribes

\* newWorkerPool(1, 10, 100).
ASSUME PoolAssumption == QueueSize \in Nat \ {0} /\ Workers # {}

ASSUME NoneAssumption ==
    /\ None \notin Calls \cup Workers \cup Nat
    /\ None \notin [event : Publishes, sub : Subscribes]

VARIABLES
    pc,             \* where each call is
    parent,         \* the frame whose user code made the call, if any
    before,         \* history: the subscriptions made before a Publish began
    visited,        \* the entries the range loop of a Publish has reached
    cur,            \* the entry it is at
    subscriptions,  \* p.subscriptions: a function from ids to subscriptions
    subID,          \* the id each Subscribe call computed
    target,         \* the subscription an unsubscribe closure belongs to
    failed,         \* history: the tasks whose handler returned an error
    reported,       \* history: the tasks whose errorHandler was called
    crashed,        \* a panic left a worker goroutine: the process is gone
    readers, queued, writers,                               \* p.mu
    tasks, running, exited, stopCh, accepted, finished      \* p.pool

Mu == INSTANCE GoRWMutex
Pool == INSTANCE WorkerPool WITH NoTask <- None

callVars == <<pc, parent>>
publishVars == <<before, visited, cur>>
mapVars == <<subscriptions, subID, target>>
errorVars == <<failed, reported>>
muVars == <<readers, queued, writers>>
poolVars == <<tasks, running, exited, stopCh, accepted, finished>>
vars == <<callVars, publishVars, mapVars, errorVars, crashed, muVars, poolVars>>

\* Task{event, handler}: an event for a subscription.
Task(p, s) == [event |-> p, sub |-> s]
Tasks == [event : Publishes, sub : Subscribes]

Registered == {subscriptions[i] : i \in DOMAIN subscriptions}

Ended == {"done", "panicked"}

Init ==
    /\ pc = [c \in Calls |-> "idle"]
    /\ parent = [c \in Calls |-> None]
    /\ before = [p \in Publishes |-> {}]
    /\ visited = [p \in Publishes |-> {}]
    /\ cur = [p \in Publishes |-> None]
    /\ subscriptions = [i \in {} |-> None]
    /\ subID = [s \in Subscribes |-> None]
    /\ target = [u \in Unsubscribes |-> None]
    /\ failed = {}
    /\ reported = {}
    /\ crashed = FALSE
    /\ Mu!MuInit
    /\ Pool!PoolInit

-----------------------------------------------------------------------------
(* Calls.                                                                  *)

\* User code runs on frame f: a handler, or a middleware under Subscribe.
InUserCode(f) ==
    \/ f \in Publishes /\ pc[f] = "handler"
    \/ f \in Subscribes /\ pc[f] = "lock" /\ Mu!Holds(f)
    \/ f \in Workers /\ running[f] # None

\* A call made on frame f has not returned: f is not at its next statement.
Busy(f) == \E c \in Nested : parent[c] = f /\ pc[c] \notin Ended

\* Call c starts, on a goroutine of its own (None) or in user code on frame f.
Start(c, f) ==
    /\ pc[c] = "idle"
    /\ f # None => c \in Nested /\ InUserCode(f) /\ ~Busy(f)
    /\ parent' = [parent EXCEPT ![c] = f]

Goto(c, label) == pc' = [pc EXCEPT ![c] = label]

-----------------------------------------------------------------------------
(* Publish.                                                                *)

\* Publish, its first line: p.mu.RLock.
PublishCall(p, f) ==
    /\ Start(p, f)
    /\ Goto(p, "range")
    /\ before' = [before EXCEPT ![p] = {s \in Subscribes : pc[s] = "done"}]
    /\ Mu!RLock(p)
    /\ UNCHANGED <<visited, cur, mapVars, errorVars, crashed, poolVars>>

AtRange(p) == pc[p] = "range" /\ p \in readers

\* A faulty variant of Visit: it may reach an entry it has reached before.
VisitAgain(p, s) ==
    /\ AtRange(p)
    /\ s \in Registered
    /\ visited' = [visited EXCEPT ![p] = @ \cup {s}]
    /\ cur' = [cur EXCEPT ![p] = s]
    /\ Goto(p, IF s \in Async THEN "send" ELSE "handler")
    /\ UNCHANGED <<parent, before, mapVars, errorVars, crashed, muVars, poolVars>>

\* The range loop reaches an entry it has not reached yet, in any order: an
\* async one goes to the pool, for another one the handler is called.
Visit(p, s) ==
    /\ AtRange(p)
    /\ s \in Registered \ visited[p]
    /\ visited' = [visited EXCEPT ![p] = @ \cup {s}]
    /\ cur' = [cur EXCEPT ![p] = s]
    /\ Goto(p, IF s \in Async THEN "send" ELSE "handler")
    /\ UNCHANGED <<parent, before, mapVars, errorVars, crashed, muVars, poolVars>>

\* p.pool.enqueue(task): waits, with the read lock held, while it is full.
Enqueue(p) ==
    /\ pc[p] = "send"
    /\ Pool!enqueue(Task(p, cur[p]))
    /\ Goto(p, "range")
    /\ cur' = [cur EXCEPT ![p] = None]
    /\ UNCHANGED <<parent, before, visited, mapVars, errorVars, crashed, muVars>>

\* The synchronous handler returns, with or without an error; the errorHandler
\* of the subscription is called on an error.
HandlerReturn(p, err) ==
    /\ pc[p] = "handler"
    /\ ~Busy(p)
    /\ err => cur[p] \in Failing
    /\ failed' = IF err THEN failed \cup {Task(p, cur[p])} ELSE failed
    /\ reported' = IF err /\ cur[p] \in ErrorHandled
                   THEN reported \cup {Task(p, cur[p])} ELSE reported
    /\ Goto(p, "range")
    /\ cur' = [cur EXCEPT ![p] = None]
    /\ UNCHANGED <<parent, before, visited, mapVars, crashed, muVars, poolVars>>

\* A faulty variant of HandlerPanic: the RUnlock is not deferred.
PanicKeepsLock(p) ==
    /\ pc[p] = "handler"
    /\ ~Busy(p)
    /\ cur[p] \in Panicking
    /\ Goto(p, "panicked")
    /\ cur' = [cur EXCEPT ![p] = None]
    /\ UNCHANGED <<parent, before, visited, mapVars, errorVars, crashed, muVars, poolVars>>

\* The synchronous handler panics: the deferred RUnlock runs and the panic
\* goes to the caller of Publish, which recovers it.
HandlerPanic(p) ==
    /\ pc[p] = "handler"
    /\ ~Busy(p)
    /\ cur[p] \in Panicking
    /\ Goto(p, "panicked")
    /\ cur' = [cur EXCEPT ![p] = None]
    /\ Mu!RUnlock(p)
    /\ UNCHANGED <<parent, before, visited, mapVars, errorVars, crashed, poolVars>>

\* A faulty variant of PublishReturn: the loop ends after its first entry.
ReturnAfterFirst(p) ==
    /\ AtRange(p)
    /\ Registered = {} \/ visited[p] # {}
    /\ Goto(p, "done")
    /\ Mu!RUnlock(p)
    /\ UNCHANGED <<parent, publishVars, mapVars, errorVars, crashed, poolVars>>

\* The loop is over: the deferred RUnlock runs and Publish returns nil.
PublishReturn(p) ==
    /\ AtRange(p)
    /\ Registered \subseteq visited[p]
    /\ Goto(p, "done")
    /\ Mu!RUnlock(p)
    /\ UNCHANGED <<parent, publishVars, mapVars, errorVars, crashed, poolVars>>

-----------------------------------------------------------------------------
(* Subscribe and the unsubscribe closure.                                  *)

SubscribeCall(s, f) ==
    /\ Start(s, f)
    /\ Goto(s, "lock")
    /\ UNCHANGED <<publishVars, mapVars, errorVars, crashed, muVars, poolVars>>

\* string(rune(n)): the code points that are no characters become U+FFFD.
SubID(n) == IF n \in 55296..57343 \/ n > 1114111 THEN 65533 ELSE n

\* A faulty variant of Register: it keeps the lock.
RegisterKeepsLock(s) ==
    /\ pc[s] = "lock"
    /\ Mu!Holds(s)
    /\ ~Busy(s)
    /\ LET id == SubID(Cardinality(DOMAIN subscriptions)) IN
       /\ subID' = [subID EXCEPT ![s] = id]
       /\ subscriptions' = [i \in DOMAIN subscriptions \cup {id} |->
                               IF i = id THEN s ELSE subscriptions[i]]
    /\ Goto(s, "done")
    /\ UNCHANGED <<parent, publishVars, target, errorVars, crashed, muVars, poolVars>>

\* The critical section of Subscribe: the id is the size of the map.
Register(s) ==
    /\ pc[s] = "lock"
    /\ Mu!Holds(s)
    /\ ~Busy(s)
    /\ LET id == SubID(Cardinality(DOMAIN subscriptions)) IN
       /\ subID' = [subID EXCEPT ![s] = id]
       /\ subscriptions' = [i \in DOMAIN subscriptions \cup {id} |->
                               IF i = id THEN s ELSE subscriptions[i]]
    /\ Goto(s, "done")
    /\ Mu!Unlock(s)
    /\ UNCHANGED <<parent, publishVars, target, errorVars, crashed, poolVars>>

\* An option or a middleware of the subscription panics: the deferred Unlock runs,
\* nothing is registered and the caller recovers.
RegisterPanics(s) ==
    /\ pc[s] = "lock"
    /\ Mu!Holds(s)
    /\ ~Busy(s)
    /\ s \in Panicking
    /\ Goto(s, "panicked")
    /\ Mu!Unlock(s)
    /\ UNCHANGED <<parent, publishVars, mapVars, errorVars, crashed, poolVars>>

\* The program calls the closure of a Subscribe that returned; it may call the
\* same one again.
UnsubscribeCall(u, s, f) ==
    /\ pc[s] = "done"
    /\ Start(u, f)
    /\ Goto(u, "lock")
    /\ target' = [target EXCEPT ![u] = s]
    /\ UNCHANGED <<publishVars, subscriptions, subID, errorVars, crashed, muVars, poolVars>>

\* Faulty variants of Delete: the entry made last, whosever it is; no lock.
DeleteLast(u) ==
    /\ pc[u] = "lock"
    /\ Mu!Holds(u)
    /\ subscriptions' = [i \in DOMAIN subscriptions \ {Cardinality(DOMAIN subscriptions) - 1} |->
                            subscriptions[i]]
    /\ Goto(u, "done")
    /\ Mu!Unlock(u)
    /\ UNCHANGED <<parent, publishVars, subID, target, errorVars, crashed, poolVars>>

DeleteUnlocked(u) ==
    /\ pc[u] = "lock" /\ u \notin writers
    /\ subscriptions' = [i \in DOMAIN subscriptions \ {subID[target[u]]} |->
                            subscriptions[i]]
    /\ Goto(u, "done")
    /\ UNCHANGED <<parent, publishVars, subID, target, errorVars, crashed, muVars, poolVars>>

\* The critical section of the closure: delete(p.subscriptions, subID).
Delete(u) ==
    /\ pc[u] = "lock"
    /\ Mu!Holds(u)
    /\ subscriptions' = [i \in DOMAIN subscriptions \ {subID[target[u]]} |->
                            subscriptions[i]]
    /\ Goto(u, "done")
    /\ Mu!Unlock(u)
    /\ UNCHANGED <<parent, publishVars, subID, target, errorVars, crashed, poolVars>>

\* p.mu.Lock, of Subscribe or of the closure: the writer slot is taken.
LockAnnounce(c) ==
    /\ pc[c] = "lock"
    /\ Mu!Announce(c)
    /\ UNCHANGED <<callVars, publishVars, mapVars, errorVars, crashed, poolVars>>

-----------------------------------------------------------------------------
(* Shutdown and the workers.                                               *)

\* Shutdown: p.pool.stop closes stopCh, or panics when it is closed.
ShutdownCall(d, f) ==
    /\ Start(d, f)
    /\ \/ Pool!CloseStop /\ Goto(d, "wait")
       \/ stopCh /\ Goto(d, "panicked") /\ UNCHANGED poolVars
    /\ UNCHANGED <<publishVars, mapVars, errorVars, crashed, muVars>>

\* wg.Wait returns once every worker has ended.
ShutdownReturn(d) ==
    /\ pc[d] = "wait"
    /\ Pool!AllExited
    /\ Goto(d, "done")
    /\ UNCHANGED <<parent, publishVars, mapVars, errorVars, crashed, muVars, poolVars>>

WorkerTake(w) ==
    /\ Pool!TakeTask(w)
    /\ UNCHANGED <<callVars, publishVars, mapVars, errorVars, crashed, muVars>>

\* An async handler returns; the worker throws its error away.
WorkerReturn(w, err) ==
    /\ ~Busy(w)
    /\ Pool!FinishTask(w)
    /\ err => running[w].sub \in Failing
    /\ failed' = IF err THEN failed \cup {running[w]} ELSE failed
    /\ UNCHANGED <<callVars, publishVars, mapVars, reported, crashed, muVars>>

\* An async handler panics: nothing recovers it on the worker's goroutine.
WorkerPanic(w) ==
    /\ running[w] # None
    /\ ~Busy(w)
    /\ running[w].sub \in Panicking
    /\ crashed' = TRUE
    /\ UNCHANGED <<callVars, publishVars, mapVars, errorVars, muVars, poolVars>>

WorkerExit(w) ==
    /\ Pool!Exit(w)
    /\ UNCHANGED <<callVars, publishVars, mapVars, errorVars, crashed, muVars>>

-----------------------------------------------------------------------------

\* The program decides to call the provider.
Call(f) ==
    \/ \E p \in Publishes : PublishCall(p, f)
    \/ \E s \in Subscribes : SubscribeCall(s, f)
    \/ \E u \in Unsubscribes, s \in Subscribes : UnsubscribeCall(u, s, f)
    \/ \E d \in Shutdowns : ShutdownCall(d, f)

PublishStep(p) ==
    \/ \E s \in Subscribes : Visit(p, s)
    \/ Enqueue(p)
    \/ \E err \in BOOLEAN : HandlerReturn(p, err)
    \/ HandlerPanic(p)
    \/ PublishReturn(p)

SubscribeStep(s) == LockAnnounce(s) \/ Register(s) \/ RegisterPanics(s)
UnsubscribeStep(u) == LockAnnounce(u) \/ Delete(u)

WorkerStep(w) ==
    \/ WorkerTake(w)
    \/ \E err \in BOOLEAN : WorkerReturn(w, err)
    \/ WorkerPanic(w)
    \/ WorkerExit(w)

\* What the provider and its workers do of themselves.
Progress ==
    \/ \E p \in Publishes : PublishStep(p)
    \/ \E s \in Subscribes : SubscribeStep(s)
    \/ \E u \in Unsubscribes : UnsubscribeStep(u)
    \/ \E d \in Shutdowns : ShutdownReturn(d)
    \/ \E w \in Workers : WorkerStep(w)

Next ==
    /\ ~crashed
    /\ \/ \E f \in Frames \cup {None} : Call(f)
       \/ Progress

Spec == Init /\ [][Next]_vars

\* Handlers return and Go schedules every goroutine that can run; nobody has
\* to make a call.
Fairness ==
    /\ \A p \in Publishes : WF_vars(~crashed /\ PublishStep(p))
    /\ \A s \in Subscribes : WF_vars(~crashed /\ SubscribeStep(s))
    /\ \A u \in Unsubscribes : WF_vars(~crashed /\ UnsubscribeStep(u))
    /\ \A d \in Shutdowns : WF_vars(~crashed /\ ShutdownReturn(d))
    /\ \A w \in Workers : WF_vars(~crashed /\ WorkerStep(w))

FairSpec == Spec /\ Fairness

-----------------------------------------------------------------------------
(* Properties.                                                             *)

\* The values the variables take.
TypeOK ==
    /\ pc \in [Calls -> {"idle", "range", "send", "handler", "lock", "wait"} \cup Ended]
    /\ parent \in [Calls -> Frames \cup {None}]
    /\ before \in [Publishes -> SUBSET Subscribes]
    /\ visited \in [Publishes -> SUBSET Subscribes]
    /\ cur \in [Publishes -> Subscribes \cup {None}]
    /\ DOMAIN subscriptions \subseteq Nat
    /\ Registered \subseteq Subscribes
    /\ subID \in [Subscribes -> Nat \cup {None}]
    /\ target \in [Unsubscribes -> Subscribes \cup {None}]
    /\ failed \subseteq Tasks
    /\ reported \subseteq Tasks
    /\ crashed \in BOOLEAN
    /\ readers \subseteq Publishes
    /\ queued \subseteq Publishes
    /\ writers \subseteq Subscribes \cup Unsubscribes
    /\ tasks \in Seq(Tasks)
    /\ Len(tasks) <= QueueSize
    /\ running \in [Workers -> Tasks \cup {None}]
    /\ exited \subseteq Workers
    /\ stopCh \in BOOLEAN
    /\ accepted \in Seq(Tasks)
    /\ finished \in Seq(Tasks)

InLoop(p) == pc[p] \in {"range", "send", "handler"}

\* Whoever occupies p.mu is a call that is still under way, so a call that
\* returned, or panicked out of a handler, leaves the lock free for the others
\* (the deferred unlocks of Publish, Subscribe and the closure).
LockHeldByActiveCalls ==
    /\ \A p \in readers : InLoop(p) /\ p \notin queued
    /\ \A p \in queued : pc[p] = "range"
    /\ \A c \in writers : pc[c] = "lock"
    /\ \A c, d \in writers : c = d

\* The map is never written while a Publish ranges over it: Go aborts the
\* process on a concurrent map iteration and map write.
MapStableWhileRead ==
    [][(\E p \in readers : InLoop(p)) => UNCHANGED subscriptions]_vars

\* Once the closure of a subscription has returned, no Publish calls its
\* handler or sends it a task, whichever way the calls interleaved.  (A task
\* that was queued before still runs.)
NoDispatchAfterUnsubscribe ==
    \A u \in Unsubscribes, p \in Publishes :
        pc[u] = "done" /\ pc[p] \in {"send", "handler"} => cur[p] # target[u]

\* A Publish that returned has reached every subscription made before it
\* began, unless the program unsubscribes.
PublishReachesSubscribers ==
    \A p \in Publishes :
        pc[p] = "done" =>
            \/ before[p] \subseteq visited[p]
            \/ \E u \in Unsubscribes : pc[u] # "idle"

\* An event reaches an async subscription at most once.
AsyncOnce ==
    \A i, j \in 1..Len(accepted) : accepted[i] = accepted[j] => i = j

InHand(w) == IF running[w] = None THEN <<>> ELSE <<running[w]>>

\* The pool has one worker (newWorkerPool(1, 10, 100)): it handles the tasks
\* in the order of the sends, and every task sent has been handled, is being
\* handled or is still queued.
AsyncInOrder ==
    \A w \in Workers :
        Workers = {w} => accepted = finished \o InHand(w) \o tasks

\* After a Shutdown returned, no handler of an async subscription runs.
NoHandlerAfterShutdown ==
    (\E d \in Shutdowns : pc[d] = "done") => \A w \in Workers : running[w] = None

AtRest(c) == pc[c] \in {"idle"} \cup Ended

\* A nested call that waits: for the lock, for room in the queue, for workers.
ReentryWaits(c) ==
    /\ parent[c] # None
    /\ pc[c] \in {"lock", "send", "wait"} \/ c \in queued

\* What can move: a range loop, a send on a queue with room, a return from user
\* code, the next owner of the lock, a Shutdown, a worker.
CanMove ==
    \/ \E p \in Publishes :
          \/ AtRange(p)
          \/ pc[p] = "send" /\ ~Pool!QueueFull
          \/ pc[p] = "handler" /\ ~Busy(p)
    \/ \E c \in Subscribes \cup Unsubscribes :
          pc[c] = "lock" /\ (writers = {} \/ (Mu!Holds(c) /\ ~Busy(c)))
    \/ \E d \in Shutdowns : pc[d] = "wait" /\ Pool!AllExited
    \/ \E w \in Workers :
          \/ Pool!Idle(w) /\ (tasks # <<>> \/ stopCh)
          \/ running[w] # None /\ ~Busy(w)

\* No goroutine waits for anything but what CanMove names: something can move
\* exactly when some action of the provider and its workers is enabled.
WaitsForNothingElse == CanMove <=> ENABLED Progress

\* When nothing can move although a call is under way, the cause is one of
\* two: a handler (or middleware) called back into the provider and waits, or
\* the workers were stopped and a Publish waits on a full queue.  No set of
\* calls made from outside the handlers deadlocks a running provider.
HangsOnlyByReentryOrStop ==
    ~crashed /\ ~CanMove =>
        \/ \A c \in Calls : AtRest(c)
        \/ \E c \in Calls : ReentryWaits(c)
        \/ stopCh /\ Pool!QueueFull /\ \E p \in Publishes : pc[p] = "send"

\* What calls and workers have behind them: the entries a Publish has reached, and
\* those it is done with; the calls that asked for the write lock, and those that are
\* over; the tasks taken from the queue, and those handled.
Reached == {t \in Tasks : t.sub \in visited[t.event]}
Dispatched ==
    {t \in Reached : pc[t.event] \notin {"send", "handler"} \/ cur[t.event] # t.sub}
Over == {c \in Calls : pc[c] \in Ended}
Asked == writers \cup Over
Taken == 1..(Len(accepted) - Len(tasks))
Handled == 1..Len(finished)

Past == <<Reached, Dispatched, Asked, Over, Taken, Handled, exited>>

\* Sequences of sets, none of which shrinks.
Grows(old, new) == \A i \in DOMAIN old : old[i] \subseteq new[i]

\* A step undoes nothing, and what the provider and its workers do of themselves, short
\* of killing the process, always gets something behind it.
PastGrows ==
    /\ Grows(Past, Past')
    /\ Past' # Past \/ crashed' \/ ~Progress

\* No livelock: the range loop, the lock, the queue and the workers' select never go
\* round in circles, however calls race, nest and panic and whatever the map's writers
\* do.  All that Past can hold is settled by the calls that are made, so the provider
\* comes to rest or hangs after a bounded number of steps, without any fairness.
NoLivelock == [][PastGrows]_vars

\* Unless the provider is shut down, every call that starts returns.
CallsReturnUnlessStopped ==
    \A c \in Calls : ~AtRest(c) ~> (AtRest(c) \/ stopCh)

\* Every task the queue accepted is handled, unless the provider is shut down.
AcceptedIsHandled ==
    \A p \in Publishes, s \in Subscribes :
        (\E i \in 1..Len(accepted) : accepted[i] = Task(p, s))
            ~> (stopCh \/ \E i \in 1..Len(finished) : finished[i] = Task(p, s))

\* A Shutdown that starts returns (its second one panics), even when a Publish
\* stays blocked on the queue.
ShutdownReturns ==
    \A d \in Shutdowns : pc[d] = "wait" ~> pc[d] = "done"

-----------------------------------------------------------------------------
(* What the comments, the tests and the README say, which the code does    *)
(* not do.                                                                 *)

\* local_provider.go:90 calls the id of a subscription unique: as long as no
\* closure of theirs was called, two subscriptions have different ids.
SubscriptionIdsUnique ==
    \A s, t \in Subscribes :
        /\ pc[s] = "done" /\ pc[t] = "done"
        /\ \A u \in Unsubscribes : target[u] \notin {s, t}
        /\ subID[s] = subID[t]
        => s = t

\* bus/event/README.md:160 gives an async subscription an error handler: a
\* handler that failed has had its errorHandler called.
ErrorsReachErrorHandler ==
    \A t \in failed : t.sub \in ErrorHandled => t \in reported

\* bus_test.go:242-246 publishes after Shutdown and expects Publish to return,
\* README.md:9 calls async publishing non-blocking: a Publish returns.
PublishReturns ==
    \A p \in Publishes : pc[p] = "range" ~> AtRest(p)

-----------------------------------------------------------------------------

\* The calls that use the map.
MapCalls == Publishes \cup Subscribes \cup Unsubscribes

\* What racing calls see of the map: each takes effect when it returns.
Table == INSTANCE SubscriberTable WITH
    called <- {c \in MapCalls : pc[c] # "idle"},
    took <- {c \in MapCalls : pc[c] = "done"},
    table <- Registered,
    reached <- [p \in Publishes |-> IF pc[p] = "done" THEN visited[p] ELSE {}]

\* Although its loop calls handlers, which call back and race with Subscribes and
\* closures, a Publish that returns has dispatched to just those that were
\* subscribed at one instant between its start and its return; a Subscribe or a
\* closure takes effect at one instant, and costs at most one subscription.
PublishesAtOneInstant == Table!Spec

\* What the pool promises to Publish; it is closed once a Shutdown returned.
Promise == INSTANCE OrderedDelivery WITH
    sent <- accepted,
    handled <- finished,
    open <- \A d \in Shutdowns : pc[d] # "done"

\* With the one worker that newWorkerPool(1, 10, 100) starts, each task is handled
\* once, in the order of the sends, none skipped and none after the Shutdown returned,
\* however many Publishes race for room in the queue while others wait in it.
DeliversInOrder == Promise!Spec

=============================================================================
