-------------------------------- MODULE Outbox --------------------------------
(***************************************************************************)
(* bus/outbox with the PostgreSQL storage of examples/outbox/postgres and  *)
(* the event bus it publishes on: an event published through the outbox    *)
(* middleware becomes a row saved in the caller's transaction; the loops   *)
(* of the retransmitters poll the table, publish what they fetched on the  *)
(* real bus and then mark it processed.                                    *)
(*                                                                         *)
(* One process runs the program, its retransmitters and the bus; it may    *)
(* crash, handlers may panic, and the statements and the bus may fail, at  *)
(* most MaxFaults times together.  A statement on the table is one step,   *)
(* except for that of Fetch, which locks its rows one after the other and  *)
(* passes over those that another Fetch under way has locked.              *)
(* A retransmitter may be started more than once: every Start makes a      *)
(* loop, a goroutine in Loops.  The bus has one subscriber, whose handler  *)
(* is synchronous or run by the worker of the pool.                        *)
(***************************************************************************)
EXTENDS Naturals, FiniteSets, Sequences

CONSTANTS
    Events,
    Unreadable,         \* the events whose payload json.Unmarshal may reject
    Retransmitters,
    Loops,              \* the goroutines that Start makes
    Limit,              \* WithLimit: the rows of one batch
    QueueSize,          \* the capacity of the pool's channel: 100 in the code
    MaxFaults,          \* the bound on faults
    None

ASSUME OutboxAssumption ==
    /\ Unreadable \subseteq Events
    /\ IsFiniteSet(Events) /\ IsFiniteSet(Loops)
    /\ None \notin Retransmitters
    /\ Limit \in Nat \ {0}
    /\ QueueSize \in Nat \ {0}
    /\ MaxFaults \in Nat

VARIABLES
    async,          \* whether the bus' subscriber is WithAsync
    unreadable,     \* the events whose payload json.Unmarshal rejects
    tx,             \* the business transaction that publishes each event
    older,          \* the rows whose created_at is before that of each event's
    status,         \* the status in the row of each event
    earlier,        \* history: the events committed when each one was published
    pc,             \* where each loop is
    owner,          \* the retransmitter that started it
    scan,           \* the rows that the statement of its Fetch has yet to come to
    batch,          \* the rows that statement has locked, then what is left of them
    processedIDs,   \* those it published
    done,           \* the retransmitters whose done channel is closed
    bus,            \* "up", or "down" when its worker has ended
    queue,          \* the tasks its worker has not done: in the channel, or in its hand
    handled,        \* history: events the subscriber's handler was called for
    deliveries,     \* history: how often the bus took each event
    leftOut,        \* history: the undelivered events whose publish on the bus failed, or
                    \* whose rows a Fetch left to another one under way
    faults

configVars == <<async, unreadable>>
rowVars == <<tx, older, status, earlier>>
loopVars == <<pc, owner, scan, batch, processedIDs>>
busVars == <<bus, queue, handled, deliveries>>
vars == <<configVars, rowVars, loopVars, done, busVars, leftOut, faults>>

Init ==
    /\ async \in BOOLEAN
    /\ unreadable \in SUBSET Unreadable
    /\ tx = [e \in Events |-> "none"]
    /\ older = [e \in Events |-> {}]
    /\ status = [e \in Events |-> "none"]
    /\ earlier = [e \in Events |-> {}]
    /\ pc = [g \in Loops |-> "new"]
    /\ owner = [g \in Loops |-> None]
    /\ scan = [g \in Loops |-> {}]
    /\ batch = [g \in Loops |-> {}]
    /\ processedIDs = [g \in Loops |-> {}]
    /\ done = {}
    /\ bus = "up" /\ queue = <<>> /\ handled = {}
    /\ deliveries = [e \in Events |-> 0]
    /\ leftOut = {}
    /\ faults = 0

Fault == faults < MaxFaults /\ faults' = faults + 1

Goto(g, label) == pc' = [pc EXCEPT ![g] = label]

\* The bus takes an event.
Delivered(e) ==
    /\ deliveries' = [deliveries EXCEPT ![e] = @ + 1]
    /\ leftOut' = leftOut \ {e}

\* An event stays behind, perhaps before it was ever delivered.
LeaveOut(e) == leftOut' = leftOut \cup {f \in {e} : deliveries[f] = 0}

-----------------------------------------------------------------------------
(* The program.                                                            *)

Committed == {e \in Events : tx[e] = "committed"}
Rows == {e \in Events : status[e] # "none"}

\* A faulty variant of Publish: created_at is before that of every row.
PublishUndated(e) ==
    /\ tx[e] = "none" /\ e = CHOOSE f \in Events : tx[f] = "none"
    /\ tx' = [tx EXCEPT ![e] = "open"]
    /\ older' = [f \in Events |-> IF f \in Rows THEN older[f] \cup {e} ELSE older[f]]
    /\ status' = [status EXCEPT ![e] = "PENDING"]
    /\ earlier' = [earlier EXCEPT ![e] = Committed]
    /\ UNCHANGED <<configVars, loopVars, done, busVars, leftOut, faults>>

\* outboxProvider.Publish: the row is inserted, PENDING, in the transaction.  Every
\* call makes a new id: the next of Events, which are alike.
Publish(e) ==
    /\ tx[e] = "none" /\ e = CHOOSE f \in Events : tx[f] = "none"
    /\ tx' = [tx EXCEPT ![e] = "open"]
    /\ older' = [older EXCEPT ![e] = Rows]
    /\ status' = [status EXCEPT ![e] = "PENDING"]
    /\ earlier' = [earlier EXCEPT ![e] = Committed]
    /\ UNCHANGED <<configVars, loopVars, done, busVars, leftOut, faults>>

\* Marshal or Save fails: Publish returns the error and there is no row.
PublishFails(e) ==
    /\ tx[e] = "none"
    /\ Fault
    /\ UNCHANGED <<configVars, rowVars, loopVars, done, busVars, leftOut>>

Commit(e) ==
    /\ tx[e] = "open"
    /\ tx' = [tx EXCEPT ![e] = "committed"]
    /\ UNCHANGED <<configVars, older, status, earlier, loopVars, done, busVars, leftOut, faults>>

RollBack(S) ==
    /\ tx' = [e \in Events |-> IF e \in S THEN "aborted" ELSE tx[e]]
    /\ status' = [e \in Events |-> IF e \in S THEN "none" ELSE status[e]]
    /\ older' = [e \in Events |-> IF e \in S THEN {} ELSE older[e] \ S]
    /\ earlier' = [e \in Events |-> IF e \in S THEN {} ELSE earlier[e]]

\* The transaction is rolled back, and its row with it.
Rollback(e) ==
    /\ tx[e] = "open"
    /\ RollBack({e})
    /\ UNCHANGED <<configVars, loopVars, done, busVars, leftOut, faults>>

\* Start makes a ticker and a goroutine: the next of Loops, which are alike.
Start(r, g) ==
    /\ pc[g] = "new" /\ g = CHOOSE h \in Loops : pc[h] = "new"
    /\ Goto(g, "select")
    /\ owner' = [owner EXCEPT ![g] = r]
    /\ UNCHANGED <<configVars, rowVars, scan, batch, processedIDs, done, busVars, leftOut, faults>>

\* Stop closes done, which every loop of r sees, and does not wait for the loops.
\* It stops the newest ticker, if there is one; see FetchCall.
Stop(r) ==
    /\ done' = done \cup {r}
    /\ UNCHANGED <<configVars, rowVars, loopVars, busVars, leftOut, faults>>

\* Shutdown of the real bus: stopCh is closed and the worker, whose select may have
\* preferred some tasks to it, ends when the task in its hand is done; what is in
\* the channel stays there.  (Publish calls a synchronous handler as before.)
BusShutdown ==
    /\ async
    /\ bus = "up"
    /\ Len(queue) <= QueueSize
    /\ bus' = "down"
    /\ UNCHANGED <<configVars, rowVars, loopVars, done, queue, handled, deliveries, leftOut, faults>>

-----------------------------------------------------------------------------
(* A loop.                                                                 *)

\* A faulty variant of Pending: rows that are PROCESSED show, too.
AnyStatus(e) == status[e] # "none"

\* The WHERE clause of Fetch.
Pending(e) == status[e] = "PENDING"

\* The rows that it selects.
Visible == {e \in Committed : Pending(e)}

\* ORDER BY created_at: e is the first row of S.
First(e, S) == e \in S /\ \A f \in S \ {e} : e \in older[f]

\* The select takes a tick and processBatch fetches: the statement sees the rows that
\* are there when it begins.  (One that sees none changes nothing.)
\* There may be a tick at any time: the ticker runs until Stop, a stopped one may
\* have left a tick in its channel, and one that was made after Stop, or that
\* a second Start has replaced, is never stopped.
FetchCall(g) ==
    /\ pc[g] = "select"
    /\ Visible # {}
    /\ Goto(g, "fetch")
    /\ scan' = [scan EXCEPT ![g] = Visible]
    /\ UNCHANGED <<configVars, rowVars, owner, batch, processedIDs, done, busVars, leftOut, faults>>

\* The statement comes to its next row, in the order of created_at; LIMIT $2.
AtRow(g, e) ==
    /\ pc[g] = "fetch"
    /\ Cardinality(batch[g]) < Limit
    /\ First(e, scan[g])
    /\ scan' = [scan EXCEPT ![g] = @ \ {e}]
    /\ UNCHANGED <<configVars, rowVars, pc, owner, processedIDs, done, busVars, faults>>

\* FOR UPDATE: another Fetch that has not returned has locked the row.
LockedByFetch(g, e) ==
    \E h \in Loops \ {g} : pc[h] = "fetch" /\ e \in batch[h]

\* Perhaps the UPDATE of another loop has locked it.
UnderUpdate(g, e) ==
    \E h \in Loops \ {g} : pc[h] = "batch" /\ batch[h] = {} /\ e \in processedIDs[h]

\* It locks the row, if that is still PENDING.
LockRow(g, e) ==
    /\ AtRow(g, e)
    /\ Pending(e)
    /\ ~LockedByFetch(g, e)
    /\ batch' = [batch EXCEPT ![g] = @ \cup {e}]
    /\ UNCHANGED leftOut

\* SKIP LOCKED, or the row is not PENDING any more: it goes on to a younger one.
SkipRow(g, e) ==
    /\ AtRow(g, e)
    /\ ~Pending(e) \/ LockedByFetch(g, e) \/ UnderUpdate(g, e)
    /\ IF LockedByFetch(g, e) THEN LeaveOut(e) ELSE UNCHANGED leftOut
    /\ UNCHANGED batch

\* Fetch returns.  The statement was a transaction of its own: its locks are gone.
FetchReturn(g) ==
    /\ pc[g] = "fetch"
    /\ scan[g] = {} \/ Cardinality(batch[g]) = Limit
    /\ Goto(g, IF batch[g] = {} THEN "select" ELSE "batch")
    /\ scan' = [scan EXCEPT ![g] = {}]
    /\ UNCHANGED <<configVars, rowVars, owner, batch, processedIDs, done, busVars, leftOut, faults>>

\* Fetch fails: the error is logged and the loop goes on.
FetchFails(g) ==
    /\ pc[g] = "fetch"
    /\ Fault
    /\ Goto(g, "select")
    /\ scan' = [scan EXCEPT ![g] = {}]
    /\ batch' = [batch EXCEPT ![g] = {}]
    /\ UNCHANGED <<configVars, rowVars, owner, processedIDs, done, busVars, leftOut>>

\* The loop over the batch, in the order it was fetched, takes message e.
AtMessage(g, e) ==
    /\ pc[g] = "batch"
    /\ First(e, batch[g])
    /\ batch' = [batch EXCEPT ![g] = @ \ {e}]
    /\ UNCHANGED <<configVars, rowVars, pc, owner, scan, done>>

\* A message that does not unmarshal is skipped and stays PENDING.
SkipUnreadable(g, e) ==
    /\ AtMessage(g, e)
    /\ e \in unreadable
    /\ UNCHANGED <<processedIDs, busVars, leftOut, faults>>

Published(g, e) == processedIDs' = [processedIDs EXCEPT ![g] = @ \cup {e}]

\* The channel has room, or gets it when the worker takes a task in its hand.
Room == Len(queue) < QueueSize + (IF bus = "up" THEN 1 ELSE 0)

\* A faulty variant of Deliver: the send to a full queue does not wait.
DeliverOrDrop(g, e) ==
    /\ AtMessage(g, e)
    /\ e \notin unreadable
    /\ queue' = IF async /\ Room THEN Append(queue, e) ELSE queue
    /\ handled' = IF async THEN handled ELSE handled \cup {e}
    /\ Delivered(e) /\ Published(g, e)
    /\ UNCHANGED <<bus, faults>>

\* actualBus.Publish succeeds.  A synchronous handler has run, its error is not
\* returned; for an async one there is room in the queue, which is used whether
\* the bus has a worker or not.
Deliver(g, e) ==
    /\ AtMessage(g, e)
    /\ e \notin unreadable
    /\ IF async
       THEN Room /\ queue' = Append(queue, e) /\ UNCHANGED handled
       ELSE handled' = handled \cup {e} /\ UNCHANGED queue
    /\ Delivered(e) /\ Published(g, e)
    /\ UNCHANGED <<bus, faults>>

\* A faulty variant of DeliverFails: the message counts as processed.
DeliverFailsAnyway(g, e) ==
    /\ AtMessage(g, e)
    /\ e \notin unreadable
    /\ Fault
    /\ LeaveOut(e)
    /\ Published(g, e)
    /\ UNCHANGED <<bus, queue, handled, deliveries>>

\* actualBus.Publish returns an error (of its middleware): the message stays
\* PENDING.
DeliverFails(g, e) ==
    /\ AtMessage(g, e)
    /\ e \notin unreadable
    /\ Fault
    /\ LeaveOut(e)
    /\ UNCHANGED <<processedIDs, bus, queue, handled, deliveries>>

\* A faulty variant of EndBatch: the ids are kept for the next batch.
EndBatchKeepsIDs(g) ==
    /\ pc[g] = "batch"
    /\ batch[g] = {}
    /\ Goto(g, "select")
    /\ UNCHANGED <<configVars, tx, older, earlier, owner, scan, batch, processedIDs, done, busVars, leftOut>>

\* The loop over the batch is over: back to the select, the processed ids forgotten.
EndBatch(g) ==
    /\ pc[g] = "batch"
    /\ batch[g] = {}
    /\ Goto(g, "select")
    /\ processedIDs' = [processedIDs EXCEPT ![g] = {}]
    /\ UNCHANGED <<configVars, tx, older, earlier, owner, scan, batch, done, busVars, leftOut>>

\* A faulty variant of Processed: the UPDATE has no WHERE clause.
ProcessedAll(S) == [e \in Events |-> IF e \in Rows THEN "PROCESSED" ELSE "none"]

Processed(S) == [e \in Events |-> IF e \in S THEN "PROCESSED" ELSE status[e]]

\* No Fetch under way has locked a row that g is about to mark.
Free(g) ==
    \A h \in Loops : pc[h] = "fetch" => batch[h] \cap processedIDs[g] = {}

\* MarkProcessed, one UPDATE for the batch, which waits for locked rows; there is none
\* for no ids.
Mark(g) ==
    /\ EndBatch(g)
    /\ Free(g)
    /\ status' = Processed(processedIDs[g])
    /\ UNCHANGED faults

\* MarkProcessed returns an error, and the UPDATE was applied or not.
MarkFails(g) ==
    /\ EndBatch(g)
    /\ processedIDs[g] # {}
    /\ Fault
    /\ status' = status \/ (Free(g) /\ status' = Processed(processedIDs[g]))

\* A faulty variant of EndLoop: Stop sends one value to done and does not close it.
EndOneLoop(g) ==
    /\ pc[g] = "select"
    /\ owner[g] \in done
    /\ \A h \in Loops : pc[h] = "ended" => owner[h] # owner[g]
    /\ Goto(g, "ended")
    /\ UNCHANGED <<configVars, rowVars, owner, scan, batch, processedIDs, done, busVars, leftOut, faults>>

\* The select sees done closed.
EndLoop(g) ==
    /\ pc[g] = "select"
    /\ owner[g] \in done
    /\ Goto(g, "ended")
    /\ UNCHANGED <<configVars, rowVars, owner, scan, batch, processedIDs, done, busVars, leftOut, faults>>

-----------------------------------------------------------------------------
(* The bus and the process.                                                *)

\* The worker has run the handler of the oldest task.
Handle ==
    /\ bus = "up"
    /\ queue # <<>>
    /\ queue' = Tail(queue)
    /\ handled' = handled \cup {Head(queue)}
    /\ UNCHANGED <<configVars, rowVars, loopVars, done, bus, deliveries, leftOut, faults>>

\* The process dies and is started again: open transactions are rolled back,
\* memory is lost, the table and what handlers did are not.
Dies ==
    /\ Fault
    /\ RollBack({e \in Events : tx[e] = "open"})
    /\ pc' = [g \in Loops |-> "new"]
    /\ owner' = [g \in Loops |-> None]
    /\ scan' = [g \in Loops |-> {}]
    /\ batch' = [g \in Loops |-> {}]
    /\ processedIDs' = [g \in Loops |-> {}]
    /\ done' = {}
    /\ bus' = "up" /\ queue' = <<>>
    /\ UNCHANGED configVars

Crash == Dies /\ UNCHANGED <<handled, deliveries, leftOut>>

\* A panic of the synchronous handler unwinds the loop's goroutine, where nothing
\* recovers it: the process dies in the middle of the batch.
SyncPanics(g, e) ==
    /\ ~async
    /\ pc[g] = "batch"
    /\ First(e, batch[g])
    /\ e \notin unreadable
    /\ handled' = handled \cup {e}
    /\ Delivered(e)
    /\ Dies

\* Nor does anything on the goroutine of the worker: the queue is lost, too.
AsyncPanics ==
    /\ bus = "up"
    /\ queue # <<>>
    /\ handled' = handled \cup {Head(queue)}
    /\ Dies
    /\ UNCHANGED <<deliveries, leftOut>>

-----------------------------------------------------------------------------

Program ==
    \/ \E e \in Events : Publish(e) \/ PublishFails(e) \/ Commit(e) \/ Rollback(e)
    \/ \E r \in Retransmitters : Stop(r) \/ \E g \in Loops : Start(r, g)
    \/ BusShutdown

LoopStep(g) ==
    \/ FetchCall(g) \/ FetchReturn(g) \/ FetchFails(g)
    \/ \E e \in Events : LockRow(g, e) \/ SkipRow(g, e)
    \/ \E e \in Events : SkipUnreadable(g, e) \/ Deliver(g, e) \/ DeliverFails(g, e)
    \/ Mark(g)
    \/ MarkFails(g)

ProcessDies ==
    \/ Crash
    \/ \E g \in Loops, e \in Events : SyncPanics(g, e)
    \/ AsyncPanics

Next ==
    \/ Program
    \/ \E g \in Loops : LoopStep(g) \/ EndLoop(g)
    \/ Handle
    \/ ProcessDies

\* The loops run, tickers tick, statements and the bus answer and handlers return.
\* Go's select picks uniformly among the ready cases: it does not prefer the ticks to a
\* closed done for ever (a Stop before Start, or a second Start, leaves a ticker that
\* goes on firing).
Fairness ==
    /\ \A g \in Loops : WF_vars(LoopStep(g)) /\ SF_vars(EndLoop(g))
    /\ WF_vars(Handle)

Spec == Init /\ [][Next]_vars
FairSpec == Spec /\ Fairness

-----------------------------------------------------------------------------
(* Properties.                                                             *)

\* The values the variables take; what a loop fetched or published is forgotten when
\* its batch is over, and only an async subscriber has a queue.
TypeOK ==
    /\ async \in BOOLEAN
    /\ unreadable \in SUBSET Events
    /\ tx \in [Events -> {"none", "open", "committed", "aborted"}]
    /\ older \in [Events -> SUBSET Events]
    /\ status \in [Events -> {"none", "PENDING", "PROCESSED"}]
    /\ earlier \in [Events -> SUBSET Events]
    /\ pc \in [Loops -> {"new", "select", "fetch", "batch", "ended"}]
    /\ owner \in [Loops -> Retransmitters \cup {None}]
    /\ scan \in [Loops -> SUBSET Events]
    /\ batch \in [Loops -> SUBSET Events]
    /\ processedIDs \in [Loops -> SUBSET Events]
    /\ \A g \in Loops :
          /\ pc[g] # "fetch" => scan[g] = {}
          /\ pc[g] \notin {"fetch", "batch"} => batch[g] = {}
          /\ pc[g] # "batch" => processedIDs[g] = {}
          /\ pc[g] # "new" => owner[g] # None
    /\ done \subseteq Retransmitters
    /\ bus \in {"up", "down"}
    /\ queue \in Seq(Events)
    /\ Len(queue) <= IF ~async THEN 0 ELSE IF bus = "up" THEN QueueSize + 1 ELSE QueueSize
    /\ handled \subseteq Events
    /\ deliveries \in [Events -> Nat]
    /\ leftOut \subseteq Events
    /\ faults \in 0..MaxFaults

\* The bus sees an event only if its business transaction committed, whenever
\* the process crashed.
OnlyCommittedDelivered ==
    \A e \in Events : deliveries[e] > 0 => tx[e] = "committed"

\* A row is PROCESSED only if the bus took its event: a failed publish, an
\* unreadable payload or a crash never marks it.
ProcessedWasDelivered ==
    \A e \in Events : status[e] = "PROCESSED" => deliveries[e] > 0

\* What is delivered twice is delivered so because of a fault or by another
\* loop (of another retransmitter, or of one that was started twice): each one
\* delivers an event at most once between two faults.
DeliveriesBounded ==
    \A e \in Events : deliveries[e] <= Cardinality(Loops) * (1 + faults)

\* The first delivery keeps the order of cause and effect: when an event is
\* delivered, every event that was committed before it was published has been,
\* unless the bus refused that one, its payload is unreadable, or two Fetches
\* overlapped and one passed over its row because the other had it locked.
\* Nothing else that racing loops do, nor a crash in the middle of a batch, lets
\* an effect overtake its cause.
DeliveredInOrder ==
    \A f \in Events : deliveries[f] > 0 =>
        \A e \in earlier[f] : deliveries[e] > 0 \/ e \in unreadable \cup leftOut

\* The events whose tasks the bus' worker has not done.
Queued == {queue[i] : i \in 1..Len(queue)}

\* What the bus took, but its subscriber was never called for and never will be.
Lost == {e \in Events : deliveries[e] > 0} \ (handled \cup Queued)

\* Nothing is lost but with the process, from the queue of an async subscriber, and
\* then no more than the queue holds and the worker has in its hand: the same
\* whichever loops delivered it and however often, and whether the bus was shut
\* down before.
LossBounded ==
    /\ async \/ Lost = {}
    /\ Cardinality(Lost) <= (QueueSize + 1) * faults

\* A retransmitter is at work.
AtWork == \E g \in Loops : pc[g] # "new" /\ owner[g] \notin done

\* A committed event is delivered at least once, whatever failed before, if from
\* some time on a retransmitter is at work and the bus is up, and the unreadable
\* rows are fewer than Limit (they are fetched again and again).  Committed and
\* delivered are for good: all of them again and again means each of them some time.
CommittedIsDelivered ==
    <>[](AtWork /\ bus = "up" /\ Cardinality(unreadable) < Limit) =>
        []<>(\A e \in Committed : deliveries[e] > 0 \/ e \in unreadable)

\* Publish blocks on a full queue that has no worker any more.
Blocked(g) == pc[g] = "batch" /\ async /\ bus = "down" /\ Len(queue) = QueueSize

\* Every loop of a retransmitter that is told to stop ends once its batch is over,
\* also when there are two, unless the bus was shut down before and its queue
\* is full: then the loop is blocked for ever.  (Told and ended are for good as long
\* as the process lives: again and again all of them means each of them some time.)
StopEnds ==
    []<>(\A g \in Loops :
            pc[g] # "new" /\ owner[g] \in done => pc[g] = "ended" \/ Blocked(g))

\* postgres.go:38-39 says that parallel retransmitters do not select the same
\* messages.
NeverFetchedTwice ==
    \A g, h \in Loops :
        g # h => (batch[g] \cup processedIDs[g]) \cap (batch[h] \cup processedIDs[h]) = {}

\* outbox/README.md:3,7 promises reliable at-least-once delivery, also in case
\* of a failure: an event whose row is PROCESSED is handled, or will be by a
\* worker that is there.
ProcessedIsNotLost ==
    \A e \in Events : status[e] = "PROCESSED" =>
        e \in handled \/ (bus = "up" /\ e \in Queued)

-----------------------------------------------------------------------------

\* What the outbox promises: accepted, then delivered, then acknowledged, and
\* nothing of it is ever taken back.
Promise == INSTANCE AtLeastOnce WITH
    accepted <- Committed,
    delivered <- {e \in Events : deliveries[e] > 0},
    acked <- {e \in Events : status[e] = "PROCESSED"}

\* The table, the loops and the crashes implement it.
DeliversAtLeastOnce == Promise!Spec

=============================================================================
