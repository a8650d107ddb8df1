----------------------------- MODULE WorkerPool -----------------------------
(***************************************************************************)
(* bus/event/worker_pool.go: the goroutines that run the handlers of async *)
(* subscriptions.  The queue is a buffered channel: a send waits while it  *)
(* is full, and neither a send nor the handlers look at stopCh.  An idle   *)
(* worker selects between a task and stopCh; when both are ready Go picks  *)
(* either.  `accepted' and `finished' are history variables.               *)
(***************************************************************************)
EXTENDS Naturals, Sequences

CONSTANTS
    Workers,    \* the goroutines that run() starts (minWorkers of them)
    QueueSize,  \* the capacity of the tasks channel
    NoTask      \* what an idle worker runs

VARIABLES
    tasks,      \* the buffered channel
    running,    \* the task each worker's handler runs
    exited,     \* the workers whose goroutine has ended (wg.Done)
    stopCh,     \* whether stopCh is closed
    accepted,   \* history: every task sent on the channel, in order
    finished    \* history: the tasks whose handler has returned, in order

poolVars == <<tasks, running, exited, stopCh, accepted, finished>>

\* newWorkerPool and run.
PoolInit ==
    /\ tasks = <<>>
    /\ running = [w \in Workers |-> NoTask]
    /\ exited = {}
    /\ stopCh = FALSE
    /\ accepted = <<>>
    /\ finished = <<>>

QueueFull == Len(tasks) >= QueueSize

\* A faulty variant of enqueue: the channel has no bound.
UnboundedEnqueue(task) ==
    /\ tasks' = Append(tasks, task)
    /\ accepted' = Append(accepted, task)
    /\ UNCHANGED <<running, exited, stopCh, finished>>

\* enqueue: a send on the channel, which only a free slot lets through.
enqueue(task) ==
    /\ ~QueueFull
    /\ tasks' = Append(tasks, task)
    /\ accepted' = Append(accepted, task)
    /\ UNCHANGED <<running, exited, stopCh, finished>>

Idle(w) == w \notin exited /\ running[w] = NoTask

\* A faulty variant of TakeTask: the worker waits for a second task.
TakeInPairs(w) ==
    /\ Idle(w)
    /\ Len(tasks) > 1
    /\ running' = [running EXCEPT ![w] = Head(tasks)]
    /\ tasks' = Tail(tasks)
    /\ UNCHANGED <<exited, stopCh, accepted, finished>>

\* A faulty variant of TakeTask: the worker takes the task that was sent last.
TakeNewest(w) ==
    /\ Idle(w)
    /\ tasks # <<>>
    /\ running' = [running EXCEPT ![w] = tasks[Len(tasks)]]
    /\ tasks' = SubSeq(tasks, 1, Len(tasks) - 1)
    /\ UNCHANGED <<exited, stopCh, accepted, finished>>

\* worker: the select receives a task and its handler starts.
TakeTask(w) ==
    /\ Idle(w)
    /\ tasks # <<>>
    /\ running' = [running EXCEPT ![w] = Head(tasks)]
    /\ tasks' = Tail(tasks)
    /\ UNCHANGED <<exited, stopCh, accepted, finished>>

\* worker: the handler returns; its error is thrown away.
FinishTask(w) ==
    /\ running[w] # NoTask
    /\ finished' = Append(finished, running[w])
    /\ running' = [running EXCEPT ![w] = NoTask]
    /\ UNCHANGED <<tasks, exited, stopCh, accepted>>

\* worker: the select sees the closed stopCh, whatever is left in the queue.
Exit(w) ==
    /\ Idle(w)
    /\ stopCh
    /\ exited' = exited \cup {w}
    /\ UNCHANGED <<tasks, running, stopCh, accepted, finished>>

\* stop, first line: close(stopCh), which panics when it is closed already.
CloseStop ==
    /\ ~stopCh
    /\ stopCh' = TRUE
    /\ UNCHANGED <<tasks, running, exited, accepted, finished>>

\* Faulty variants of the wait: none; one that also waits for an empty queue.
NoWait == TRUE
AllExitedAndDrained == exited = Workers /\ tasks = <<>>

\* stop, second line: what wg.Wait waits for.
AllExited == exited = Workers

=============================================================================
