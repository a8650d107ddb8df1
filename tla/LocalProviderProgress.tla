------------------------ MODULE LocalProviderProgress ------------------------
(***************************************************************************)
(* The in-process provider never goes round in circles, for any number of  *)
(* calls and of workers, any capacity of the queue and any nesting of the  *)
(* handlers: what it does of itself always gets something behind it, and   *)
(* there is only so much to get behind.                                    *)
(***************************************************************************)
EXTENDS LocalProviderProofs

USE DEF vars, callVars, publishVars, mapVars, errorVars, muVars, poolVars

\* A Publish is at an entry that it has reached, and what is queued was accepted.
BehindInv ==
    /\ \A p \in Publishes : pc[p] \in {"send", "handler"} => cur[p] \in visited[p]
    /\ Len(tasks) <= Len(accepted)

\* Nothing is reached or queued initially.
LEMMA BehindInit == Init => BehindInv
<1> SUFFICES ASSUME Init PROVE BehindInv
  OBVIOUS
<1>1. Len(tasks) = 0 /\ Len(accepted) = 0
  BY DEF Init, Pool!PoolInit
<1>2. QED
  BY <1>1 DEF Init, BehindInv, Calls

\* Every step keeps it.
LEMMA BehindStep == TypeInv /\ BehindInv /\ [Next]_vars => BehindInv'
<1> SUFFICES ASSUME TypeInv, BehindInv, [Next]_vars PROVE BehindInv'
  OBVIOUS
<1>0. /\ pc \in [Calls -> {"idle", "range", "send", "handler", "lock", "wait"} \cup Ended]
      /\ visited \in [Publishes -> SUBSET Subscribes]
      /\ cur \in [Publishes -> Subscribes \cup {None}]
      /\ tasks \in Seq(Tasks) /\ accepted \in Seq(Tasks)
  BY DEF TypeInv, TypeOK
<1> USE <1>0, CallsAssumption DEF BehindInv, Calls, Goto
<1>1. ASSUME NEW f \in Frames \cup {None}, Call(f)
      PROVE  BehindInv'
  BY <1>1 DEF Call, PublishCall, SubscribeCall, UnsubscribeCall, ShutdownCall, Start, Pool!CloseStop
<1>2. ASSUME NEW p \in Publishes, PublishStep(p)
      PROVE  BehindInv'
  <2>1. ASSUME NEW s \in Subscribes, Visit(p, s) PROVE BehindInv'
    BY <2>1 DEF Visit
  <2>2. CASE Enqueue(p)
    <3>1. Task(p, cur[p]) \in Tasks
      BY <2>2 DEF Enqueue, Task, Tasks, TypeInv
    <3>2. Len(tasks') = Len(tasks) + 1 /\ Len(accepted') = Len(accepted) + 1
      BY <2>2, <3>1 DEF Enqueue, Pool!enqueue
    <3>3. QED
      BY <2>2, <3>2 DEF Enqueue
  <2>3. CASE \/ \E err \in BOOLEAN : HandlerReturn(p, err)
             \/ HandlerPanic(p) \/ PublishReturn(p)
    BY <2>3 DEF HandlerReturn, HandlerPanic, PublishReturn, Ended
  <2>4. QED
    BY <1>2, <2>1, <2>2, <2>3 DEF PublishStep
<1>3. ASSUME NEW c \in Subscribes \cup Unsubscribes,
             LockAnnounce(c) \/ (c \in Subscribes /\ (Register(c) \/ RegisterPanics(c))) \/ (c \in Unsubscribes /\ Delete(c))
      PROVE  BehindInv'
  BY <1>3 DEF LockAnnounce, Register, RegisterPanics, Delete
<1>4. ASSUME NEW d \in Shutdowns, ShutdownReturn(d)
      PROVE  BehindInv'
  BY <1>4 DEF ShutdownReturn
<1>5. ASSUME NEW w \in Workers, WorkerStep(w)
      PROVE  BehindInv'
  <2>1. CASE WorkerTake(w)
    <3>1. Len(Tail(tasks)) <= Len(tasks)
      BY <2>1 DEF WorkerTake, Pool!TakeTask
    <3>2. QED
      BY <2>1, <3>1 DEF WorkerTake, Pool!TakeTask
  <2>2. CASE (\E err \in BOOLEAN : WorkerReturn(w, err)) \/ WorkerPanic(w) \/ WorkerExit(w)
    BY <2>2 DEF WorkerReturn, Pool!FinishTask, WorkerPanic, WorkerExit, Pool!Exit
  <2>3. QED
    BY <1>5, <2>1, <2>2 DEF WorkerStep
<1>6. CASE UNCHANGED vars
  BY <1>6
<1>7. QED
  BY <1>1, <1>2, <1>3, <1>4, <1>5, <1>6
     DEF Next, Progress, SubscribeStep, UnsubscribeStep

-----------------------------------------------------------------------------
(* Nothing is undone.                                                      *)

\* A call that is over stays over, and one that asked for the write lock has asked.
LEMMA CallsEndForGood ==
    ASSUME TypeInv, LockInv, [Next]_vars
    PROVE  Over \subseteq Over' /\ Asked \subseteq Asked'
<1>0. /\ pc \in [Calls -> {"idle", "range", "send", "handler", "lock", "wait"} \cup Ended]
      /\ readers \subseteq Publishes
      /\ writers \subseteq Subscribes \cup Unsubscribes
      /\ \A c \in writers : pc[c] = "lock"
      /\ \A c, d \in writers : c = d
  BY DEF TypeInv, TypeOK, LockInv, LockHeldByActiveCalls
<1> USE <1>0, CallsAssumption DEF Over, Asked, Calls, Goto, Ended
<1>1. ASSUME NEW f \in Frames \cup {None}, Call(f)
      PROVE  Over \subseteq Over' /\ Asked \subseteq Asked'
  BY <1>1 DEF Call, PublishCall, SubscribeCall, UnsubscribeCall, ShutdownCall, Start, Mu!RLock
<1>2. ASSUME NEW p \in Publishes, PublishStep(p)
      PROVE  Over \subseteq Over' /\ Asked \subseteq Asked'
  BY <1>2 DEF PublishStep, Visit, AtRange, Enqueue, HandlerReturn, HandlerPanic, PublishReturn,
     Mu!RUnlock
<1>3. ASSUME NEW c \in Subscribes \cup Unsubscribes, LockAnnounce(c)
      PROVE  Over \subseteq Over' /\ Asked \subseteq Asked'
  BY <1>3 DEF LockAnnounce, Mu!Announce
<1>4. ASSUME NEW c \in Subscribes \cup Unsubscribes,
             (c \in Subscribes /\ (Register(c) \/ RegisterPanics(c))) \/ (c \in Unsubscribes /\ Delete(c))
      PROVE  Over \subseteq Over' /\ Asked \subseteq Asked'
  <2>1. /\ pc[c] = "lock" /\ pc' \in {[pc EXCEPT ![c] = "done"], [pc EXCEPT ![c] = "panicked"]}
        /\ writers' = writers \ {c}
    BY <1>4 DEF Register, RegisterPanics, Delete, Mu!Unlock
  <2>2. c \in Over'
    BY <2>1
  <2>3. QED
    BY <2>1, <2>2
<1>5. ASSUME NEW d \in Shutdowns, ShutdownReturn(d)
      PROVE  Over \subseteq Over' /\ Asked \subseteq Asked'
  BY <1>5 DEF ShutdownReturn
<1>6. ASSUME NEW w \in Workers, WorkerStep(w)
      PROVE  Over \subseteq Over' /\ Asked \subseteq Asked'
  BY <1>6 DEF WorkerStep, WorkerTake, WorkerReturn, WorkerPanic, WorkerExit
<1>7. CASE UNCHANGED vars
  BY <1>7
<1>8. QED
  BY <1>1, <1>2, <1>3, <1>4, <1>5, <1>6, <1>7
     DEF Next, Progress, SubscribeStep, UnsubscribeStep

\* What a range loop has reached stays reached, and what it is done with stays done: the
\* entry it comes to next is a new one.
LEMMA LoopGoesOn ==
    ASSUME TypeInv, LockInv, BehindInv, [Next]_vars
    PROVE  Reached \subseteq Reached' /\ Dispatched \subseteq Dispatched'
<1>0. /\ pc \in [Calls -> {"idle", "range", "send", "handler", "lock", "wait"} \cup Ended]
      /\ visited \in [Publishes -> SUBSET Subscribes]
      /\ cur \in [Publishes -> Subscribes \cup {None}]
  BY DEF TypeInv, TypeOK
<1>a. \A t \in Tasks : t.event \in Publishes /\ t.sub \in Subscribes
  BY DEF Tasks
<1> DEFINE At(p, s) == pc[p] \in {"send", "handler"} /\ cur[p] = s
           Kept == \A p \in Publishes : \A s \in visited[p] :
                       s \in visited'[p] /\ (~At(p, s) => ~At(p, s)')
<1>b. SUFFICES Kept
  BY <1>0, <1>a DEF Reached, Dispatched
<1> USE <1>0, CallsAssumption DEF Calls, Goto, Ended
<1>1. ASSUME NEW f \in Frames \cup {None}, Call(f)
      PROVE  Kept
  BY <1>1 DEF Call, PublishCall, SubscribeCall, UnsubscribeCall, ShutdownCall, Start
<1>2. ASSUME NEW p \in Publishes, PublishStep(p)
      PROVE  Kept
  <2>1. ASSUME NEW s \in Subscribes, Visit(p, s) PROVE Kept
    BY <2>1 DEF Visit
  <2>2. CASE \/ Enqueue(p) \/ (\E err \in BOOLEAN : HandlerReturn(p, err))
             \/ HandlerPanic(p) \/ PublishReturn(p)
    BY <2>2 DEF Enqueue, HandlerReturn, HandlerPanic, PublishReturn
  <2>3. QED
    BY <1>2, <2>1, <2>2 DEF PublishStep
<1>3. ASSUME NEW c \in Subscribes \cup Unsubscribes,
             LockAnnounce(c) \/ (c \in Subscribes /\ (Register(c) \/ RegisterPanics(c))) \/ (c \in Unsubscribes /\ Delete(c))
      PROVE  Kept
  BY <1>3 DEF LockAnnounce, Register, RegisterPanics, Delete
<1>4. ASSUME NEW d \in Shutdowns, ShutdownReturn(d)
      PROVE  Kept
  BY <1>4 DEF ShutdownReturn
<1>5. ASSUME NEW w \in Workers, WorkerStep(w)
      PROVE  Kept
  BY <1>5 DEF WorkerStep, WorkerTake, WorkerReturn, WorkerPanic, WorkerExit
<1>6. CASE UNCHANGED vars
  BY <1>6
<1>7. QED
  BY <1>1, <1>2, <1>3, <1>4, <1>5, <1>6
     DEF Next, Progress, SubscribeStep, UnsubscribeStep

\* Tasks are taken and handled and workers end for good; each of the three comes of a
\* step of a worker.
LEMMA PoolGoesOn ==
    ASSUME TypeInv, BehindInv, [Next]_vars
    PROVE  Taken \subseteq Taken' /\ Handled \subseteq Handled' /\ exited \subseteq exited'
<1> DEFINE Goal == Taken \subseteq Taken' /\ Handled \subseteq Handled' /\ exited \subseteq exited'
<1>0. /\ tasks \in Seq(Tasks) /\ accepted \in Seq(Tasks) /\ finished \in Seq(Tasks)
      /\ Len(tasks) \in Nat /\ Len(accepted) \in Nat /\ Len(finished) \in Nat
  BY DEF TypeInv, TypeOK
<1> USE <1>0 DEF Taken, Handled
<1>1. ASSUME NEW p \in Publishes, Enqueue(p)
      PROVE  Goal
  <2>1. Task(p, cur[p]) \in Tasks
    BY <1>1 DEF Enqueue, Task, Tasks, TypeInv
  <2>2. Len(tasks') = Len(tasks) + 1 /\ Len(accepted') = Len(accepted) + 1
    BY <1>1, <2>1 DEF Enqueue, Pool!enqueue
  <2>3. QED
    BY <1>1, <2>2 DEF Enqueue, Pool!enqueue
<1>2. ASSUME NEW w \in Workers, WorkerTake(w)
      PROVE  Goal
  <2>1. Len(tasks') = Len(tasks) - 1 /\ UNCHANGED <<accepted, finished, exited>>
    BY <1>2 DEF WorkerTake, Pool!TakeTask
  <2>2. QED
    BY <2>1
<1>3. ASSUME NEW w \in Workers, NEW err \in BOOLEAN, WorkerReturn(w, err)
      PROVE  Goal
  <2>1. running[w] \in Tasks
    BY <1>3 DEF WorkerReturn, Pool!FinishTask, TypeInv, TypeOK
  <2>2. Len(finished') = Len(finished) + 1 /\ UNCHANGED <<accepted, tasks, exited>>
    BY <1>3, <2>1 DEF WorkerReturn, Pool!FinishTask
  <2>3. QED
    BY <2>2
<1>4. ASSUME NEW w \in Workers, WorkerExit(w)
      PROVE  Goal
  BY <1>4 DEF WorkerExit, Pool!Exit
<1>5. CASE UNCHANGED <<tasks, accepted, finished, exited>>
  BY <1>5
<1>6. QED
  BY <1>1, <1>2, <1>3, <1>4, <1>5
     DEF Next, Call, PublishCall, SubscribeCall, UnsubscribeCall, ShutdownCall, Pool!CloseStop,
     Progress, PublishStep, Visit, HandlerReturn, HandlerPanic, PublishReturn,
     SubscribeStep, Register, RegisterPanics, UnsubscribeStep, Delete, LockAnnounce, ShutdownReturn,
     WorkerStep, WorkerPanic

-----------------------------------------------------------------------------
(* Something is behind.                                                    *)

\* Seven parts that grow, grow together.
LEMMA GrowByParts ==
    ASSUME NEW a1, NEW a2, NEW a3, NEW a4, NEW a5, NEW a6, NEW a7,
           NEW b1, NEW b2, NEW b3, NEW b4, NEW b5, NEW b6, NEW b7,
           a1 \subseteq b1, a2 \subseteq b2, a3 \subseteq b3, a4 \subseteq b4,
           a5 \subseteq b5, a6 \subseteq b6, a7 \subseteq b7
    PROVE  Grows(<<a1, a2, a3, a4, a5, a6, a7>>, <<b1, b2, b3, b4, b5, b6, b7>>)
<1>1. DOMAIN <<a1, a2, a3, a4, a5, a6, a7>> = 1..7
  OBVIOUS
<1>2. QED
  BY <1>1 DEF Grows

\* One part that changes changes the whole.
LEMMA PartChanges ==
    ASSUME \/ Reached' # Reached \/ Dispatched' # Dispatched \/ Asked' # Asked
           \/ Over' # Over \/ Taken' # Taken \/ Handled' # Handled \/ exited' # exited
    PROVE  Past' # Past
<1>1. Past = <<Reached, Dispatched, Asked, Over, Taken, Handled, exited>>
  BY DEF Past
<1>2. Past' = <<Reached', Dispatched', Asked', Over', Taken', Handled', exited'>>
  BY DEF Past
<1>3. QED
  BY <1>1, <1>2

\* Every step of a range loop gets an entry, or the whole call, behind it.
LEMMA PublishMovesOn ==
    ASSUME TypeInv, BehindInv, NEW p \in Publishes, PublishStep(p)
    PROVE  Reached' # Reached \/ Dispatched' # Dispatched \/ Over' # Over
<1>0. /\ pc \in [Calls -> {"idle", "range", "send", "handler", "lock", "wait"} \cup Ended]
      /\ visited \in [Publishes -> SUBSET Subscribes]
      /\ cur \in [Publishes -> Subscribes \cup {None}]
      /\ Registered \subseteq Subscribes
      /\ p \in Calls
  BY DEF TypeInv, TypeOK, Calls
<1>1. ASSUME NEW s \in Subscribes, Visit(p, s)
      PROVE  Reached' # Reached
  <2>1. Task(p, s) \in Tasks /\ Task(p, s).event = p /\ Task(p, s).sub = s
    BY DEF Task, Tasks
  <2>2. s \notin visited[p] /\ s \in visited'[p]
    BY <1>0, <1>1 DEF Visit
  <2>3. Task(p, s) \notin Reached /\ Task(p, s) \in Reached'
    BY <2>1, <2>2 DEF Reached
  <2>4. QED
    BY <2>3
<1>2. ASSUME Enqueue(p) \/ \E err \in BOOLEAN : HandlerReturn(p, err)
      PROVE  Dispatched' # Dispatched
  <2>1. /\ pc[p] \in {"send", "handler"} /\ pc'[p] = "range" /\ UNCHANGED visited
        /\ cur[p] \in visited[p]
    BY <1>0, <1>2 DEF Enqueue, HandlerReturn, Goto, BehindInv
  <2> DEFINE t == Task(p, cur[p])
  <2>2. t \in Tasks /\ t.event = p /\ t.sub = cur[p]
    BY <1>0, <2>1 DEF Task, Tasks
  <2> HIDE DEF t
  <2>3. t \notin Dispatched
    BY <2>1, <2>2 DEF Dispatched
  <2>4. t \in Reached'
    BY <2>1, <2>2 DEF Reached
  <2>5. t \in Dispatched'
    BY <2>1, <2>2, <2>4 DEF Dispatched
  <2>6. QED
    BY <2>3, <2>5
<1>3. ASSUME HandlerPanic(p) \/ PublishReturn(p)
      PROVE  Over' # Over
  BY <1>0, <1>3 DEF HandlerPanic, PublishReturn, AtRange, Over, Goto, Ended
<1>4. QED
  BY <1>1, <1>2, <1>3 DEF PublishStep

\* A Subscribe, a closure or a Shutdown asks for the lock or is over.
LEMMA OthersMoveOn ==
    ASSUME TypeInv, LockInv,
           \/ \E s \in Subscribes : SubscribeStep(s)
           \/ \E u \in Unsubscribes : UnsubscribeStep(u)
           \/ \E d \in Shutdowns : ShutdownReturn(d)
    PROVE  Asked' # Asked \/ Over' # Over
<1>0. pc \in [Calls -> {"idle", "range", "send", "handler", "lock", "wait"} \cup Ended]
  BY DEF TypeInv, TypeOK
<1>1. ASSUME NEW c \in Subscribes \cup Unsubscribes, LockAnnounce(c)
      PROVE  Asked' # Asked
  <2>1. c \notin Asked
    BY <1>1, <1>0 DEF LockAnnounce, Mu!Announce, Asked, Over, Ended
  <2>2. c \in Asked'
    BY <1>1 DEF LockAnnounce, Mu!Announce, Asked
  <2>3. QED
    BY <2>1, <2>2
<1>2. ASSUME NEW c \in Calls, pc[c] \in {"lock", "wait"}, Goto(c, "done") \/ Goto(c, "panicked")
      PROVE  Over' # Over
  BY <1>0, <1>2 DEF Over, Ended, Goto
<1>3. ASSUME NEW s \in Subscribes, Register(s) \/ RegisterPanics(s)
      PROVE  Over' # Over
  BY <1>2, <1>3 DEF Register, RegisterPanics, Calls
<1>4. ASSUME NEW u \in Unsubscribes, Delete(u)
      PROVE  Over' # Over
  BY <1>2, <1>4 DEF Delete, Calls
<1>5. ASSUME NEW d \in Shutdowns, ShutdownReturn(d)
      PROVE  Over' # Over
  BY <1>2, <1>5 DEF ShutdownReturn, Calls
<1>6. QED
  BY <1>1, <1>3, <1>4, <1>5 DEF SubscribeStep, UnsubscribeStep

\* A worker takes or handles a task, ends, or takes the process with it.
LEMMA WorkersMoveOn ==
    ASSUME TypeInv, BehindInv, NEW w \in Workers, WorkerStep(w)
    PROVE  Taken' # Taken \/ Handled' # Handled \/ exited' # exited \/ crashed'
<1>0. /\ tasks \in Seq(Tasks) /\ accepted \in Seq(Tasks) /\ finished \in Seq(Tasks)
      /\ Len(tasks) \in Nat /\ Len(accepted) \in Nat /\ Len(finished) \in Nat
  BY DEF TypeInv, TypeOK
<1>1. ASSUME WorkerTake(w)
      PROVE  Taken' # Taken
  <2> DEFINE n == Len(accepted) - Len(tasks)
  <2>1. Len(tasks') = Len(tasks) - 1 /\ UNCHANGED accepted
    BY <1>0, <1>1 DEF WorkerTake, Pool!TakeTask
  <2>2. n \in Nat /\ Len(accepted') - Len(tasks') = n + 1
    BY <1>0, <2>1 DEF BehindInv
  <2>3. Taken = 1..n /\ Taken' = 1..(n + 1)
    BY <2>2 DEF Taken
  <2> HIDE DEF n
  <2>4. n + 1 \in Taken' /\ n + 1 \notin Taken
    BY <2>2, <2>3
  <2>5. QED
    BY <2>4
<1>2. ASSUME NEW err \in BOOLEAN, WorkerReturn(w, err)
      PROVE  Handled' # Handled
  <2> DEFINE n == Len(finished)
  <2>1. running[w] \in Tasks
    BY <1>2 DEF WorkerReturn, Pool!FinishTask, TypeInv, TypeOK
  <2>2. n \in Nat /\ Len(finished') = n + 1
    BY <1>0, <1>2, <2>1 DEF WorkerReturn, Pool!FinishTask
  <2>3. Handled = 1..n /\ Handled' = 1..(n + 1)
    BY <2>2 DEF Handled
  <2> HIDE DEF n
  <2>4. n + 1 \in Handled' /\ n + 1 \notin Handled
    BY <2>2, <2>3
  <2>5. QED
    BY <2>4
<1>3. ASSUME WorkerExit(w)
      PROVE  exited' # exited
  BY <1>3 DEF WorkerExit, Pool!Exit, Pool!Idle
<1>4. ASSUME WorkerPanic(w)
      PROVE  crashed'
  BY <1>4 DEF WorkerPanic
<1>5. QED
  BY <1>1, <1>2, <1>3, <1>4 DEF WorkerStep

\* Whatever calls race, nest and panic, no step undoes anything and every step of the
\* provider and its workers gets something behind it: range loops, lock, queue and
\* workers never go round in circles, for any number of them.
THEOREM NeverInCircles == Spec => NoLivelock
<1>1. TypeInv /\ LockInv /\ BehindInv /\ [Next]_vars => Grows(Past, Past')
  <2> SUFFICES ASSUME TypeInv, LockInv, BehindInv, [Next]_vars PROVE Grows(Past, Past')
    OBVIOUS
  <2>1. /\ Reached \subseteq Reached' /\ Dispatched \subseteq Dispatched'
        /\ Asked \subseteq Asked' /\ Over \subseteq Over'
        /\ Taken \subseteq Taken' /\ Handled \subseteq Handled' /\ exited \subseteq exited'
    BY CallsEndForGood, LoopGoesOn, PoolGoesOn
  <2>2. QED
    BY <2>1, GrowByParts DEF Past
<1>2. TypeInv /\ LockInv /\ BehindInv /\ Progress => Past' # Past \/ crashed'
  BY PartChanges, PublishMovesOn, OthersMoveOn, WorkersMoveOn DEF Progress
<1>3. TypeInv /\ LockInv /\ BehindInv /\ [Next]_vars => [PastGrows]_vars
  BY <1>1, <1>2 DEF PastGrows
<1>4. QED
  BY <1>3, TypeInit, TypeStep, LockInit, LockStep, BehindInit, BehindStep, PTL
     DEF Spec, NoLivelock

-----------------------------------------------------------------------------
(* There is only so much.                                                  *)

Running == {w \in Workers : running[w] # None}

\* Every task that was accepted and is not queued is running or handled: no worker loses
\* one or handles it twice, however many workers there are.
CountInv == Len(accepted) = Len(tasks) + Cardinality(Running) + Len(finished)

\* Initially there is no task.
LEMMA CountInit == Init => CountInv
<1> SUFFICES ASSUME Init PROVE CountInv
  OBVIOUS
<1>1. Len(tasks) = 0 /\ Len(accepted) = 0 /\ Len(finished) = 0
  BY DEF Init, Pool!PoolInit
<1>2. Running = {}
  BY DEF Init, Pool!PoolInit, Running
<1>3. Cardinality(Running) = 0
  BY <1>2, FS_EmptySet
<1>4. QED
  BY <1>1, <1>3 DEF CountInv

\* Every step keeps it.
LEMMA CountStep ==
    ASSUME IsFiniteSet(Workers)
    PROVE  TypeInv /\ CountInv /\ [Next]_vars => CountInv'
<1> SUFFICES ASSUME TypeInv, CountInv, [Next]_vars PROVE CountInv'
  OBVIOUS
<1>0. /\ tasks \in Seq(Tasks) /\ accepted \in Seq(Tasks) /\ finished \in Seq(Tasks)
      /\ Len(tasks) \in Nat /\ Len(accepted) \in Nat /\ Len(finished) \in Nat
      /\ running \in [Workers -> Tasks \cup {None}]
      /\ None \notin Tasks
  BY NoneAssumption DEF TypeInv, TypeOK, Tasks
<1>a. IsFiniteSet(Running) /\ Cardinality(Running) \in Nat
  BY FS_Subset, FS_CardinalityType DEF Running
<1>1. ASSUME NEW p \in Publishes, Enqueue(p)
      PROVE  CountInv'
  <2>1. Task(p, cur[p]) \in Tasks
    BY <1>1 DEF Enqueue, Task, Tasks, TypeInv
  <2>2. Len(tasks') = Len(tasks) + 1 /\ Len(accepted') = Len(accepted) + 1
    BY <1>0, <1>1, <2>1 DEF Enqueue, Pool!enqueue
  <2>3. UNCHANGED finished /\ Running' = Running
    BY <1>1 DEF Enqueue, Pool!enqueue, Running
  <2>4. QED
    BY <1>0, <1>a, <2>2, <2>3 DEF CountInv
<1>2. ASSUME NEW w \in Workers, WorkerTake(w)
      PROVE  CountInv'
  <2>1. Head(tasks) \in Tasks /\ Len(tasks') = Len(tasks) - 1
    BY <1>0, <1>2 DEF WorkerTake, Pool!TakeTask
  <2>2. w \notin Running /\ Running' = Running \cup {w}
    BY <1>0, <1>2, <2>1 DEF WorkerTake, Pool!TakeTask, Pool!Idle, Running
  <2>3. Cardinality(Running') = Cardinality(Running) + 1
    BY <1>a, <2>2, FS_AddElement
  <2>4. UNCHANGED <<accepted, finished>>
    BY <1>2 DEF WorkerTake, Pool!TakeTask
  <2>5. QED
    BY <1>0, <1>a, <2>1, <2>3, <2>4 DEF CountInv
<1>3. ASSUME NEW w \in Workers, NEW err \in BOOLEAN, WorkerReturn(w, err)
      PROVE  CountInv'
  <2>1. running[w] \in Tasks
    BY <1>0, <1>3 DEF WorkerReturn, Pool!FinishTask
  <2>2. Len(finished') = Len(finished) + 1 /\ UNCHANGED <<accepted, tasks>>
    BY <1>0, <1>3, <2>1 DEF WorkerReturn, Pool!FinishTask
  <2>3. w \in Running /\ Running' = Running \ {w}
    BY <1>0, <1>3 DEF WorkerReturn, Pool!FinishTask, Running
  <2>4. Cardinality(Running') = Cardinality(Running) - 1
    BY <1>a, <2>3, FS_RemoveElement
  <2>5. QED
    BY <1>0, <1>a, <2>2, <2>4 DEF CountInv
<1>4. CASE UNCHANGED <<tasks, accepted, finished, running>>
  BY <1>4 DEF CountInv, Running
<1>5. QED
  BY <1>1, <1>2, <1>3, <1>4
     DEF Next, Call, PublishCall, SubscribeCall, UnsubscribeCall, ShutdownCall, Pool!CloseStop,
     Progress, PublishStep, Visit, HandlerReturn, HandlerPanic, PublishReturn,
     SubscribeStep, Register, RegisterPanics, UnsubscribeStep, Delete, LockAnnounce, ShutdownReturn,
     WorkerStep, WorkerPanic, WorkerExit, Pool!Exit

\* Finitely many calls make finitely many tasks.
LEMMA TasksFinite ==
    ASSUME IsFiniteSet(Calls)
    PROVE  IsFiniteSet(Tasks) /\ Cardinality(Tasks) \in Nat
<1> DEFINE f == [x \in Publishes \X Subscribes |-> Task(x[1], x[2])]
<1>1. IsFiniteSet(Publishes) /\ IsFiniteSet(Subscribes)
  BY FS_Subset DEF Calls
<1>2. IsFiniteSet(Publishes \X Subscribes)
  BY <1>1, FS_Product
<1>3. f \in Surjection(Publishes \X Subscribes, Tasks)
  <2>1. f \in [Publishes \X Subscribes -> Tasks]
    BY DEF Task, Tasks
  <2>2. ASSUME NEW t \in Tasks
        PROVE  \E x \in Publishes \X Subscribes : f[x] = t
    <3>1. <<t.event, t.sub>> \in Publishes \X Subscribes
      BY DEF Tasks
    <3>2. f[<<t.event, t.sub>>] = t
      BY <3>1 DEF Task, Tasks
    <3>3. QED
      BY <3>1, <3>2
  <2>3. QED
    BY <2>1, <2>2 DEF Surjection
<1>4. QED
  BY <1>2, <1>3, FS_Surjection, FS_CardinalityType

\* What the parts of Past can hold.
Possible == <<Tasks, Tasks, Calls, Calls, 1..Cardinality(Tasks), 1..Cardinality(Tasks), Workers>>

\* As many tasks are accepted as there are at most, each once.
LEMMA AcceptedBounded ==
    ASSUME IsFiniteSet(Calls), TypeInv, AsyncOnce
    PROVE  Len(accepted) \in Nat /\ Len(accepted) <= Cardinality(Tasks)
<1>1. accepted \in Seq(Tasks) /\ Len(accepted) \in Nat
  BY DEF TypeInv, TypeOK
<1>2. accepted \in Injection(1..Len(accepted), Tasks)
  BY <1>1 DEF Injection, IsInjective, AsyncOnce
<1>3. Cardinality(1..Len(accepted)) = Len(accepted)
  BY <1>1, FS_Interval
<1>4. QED
  BY <1>1, <1>2, <1>3, TasksFinite, FS_Injection

\* The calls that are made settle what the provider can get behind it.
PastBounded == Grows(Past, Possible)

\* What is behind never exceeds what was there to do.
LEMMA PastIsBounded ==
    ASSUME IsFiniteSet(Calls), IsFiniteSet(Workers), TypeInv, OnceInv, CountInv
    PROVE  PastBounded
<1>1. Reached \subseteq Tasks /\ Dispatched \subseteq Tasks
  BY DEF Reached, Dispatched
<1>2. Asked \subseteq Calls /\ Over \subseteq Calls /\ exited \subseteq Workers
  BY DEF Asked, Over, TypeInv, TypeOK, Calls
<1>3. Taken \subseteq 1..Cardinality(Tasks) /\ Handled \subseteq 1..Cardinality(Tasks)
  <2>1. Len(accepted) \in Nat /\ Len(accepted) <= Cardinality(Tasks)
    BY AcceptedBounded DEF OnceInv
  <2>2. Cardinality(Running) \in Nat /\ Len(tasks) \in Nat /\ Len(finished) \in Nat
    BY FS_Subset, FS_CardinalityType DEF Running, TypeInv, TypeOK
  <2>3. Cardinality(Tasks) \in Nat
    BY TasksFinite
  <2>4. Len(accepted) - Len(tasks) <= Cardinality(Tasks) /\ Len(finished) <= Cardinality(Tasks)
    BY <2>1, <2>2, <2>3 DEF CountInv
  <2>5. QED
    BY <2>1, <2>2, <2>3, <2>4 DEF Taken, Handled
<1>4. QED
  BY <1>1, <1>2, <1>3, GrowByParts DEF PastBounded, Past, Possible

\* How much is behind.
Size(parts) ==
    Cardinality(parts[1]) + Cardinality(parts[2]) + Cardinality(parts[3]) + Cardinality(parts[4])
        + Cardinality(parts[5]) + Cardinality(parts[6]) + Cardinality(parts[7])

\* The most steps that the calls which are made can take.
MostSteps == 4 * Cardinality(Tasks) + 2 * Cardinality(Calls) + Cardinality(Workers)

\* A set that grows has more elements, unless it stays as it was.
LEMMA BiggerSet ==
    ASSUME NEW T, IsFiniteSet(T), NEW S, S \subseteq T
    PROVE  /\ IsFiniteSet(S)
           /\ Cardinality(S) \in Nat /\ Cardinality(T) \in Nat
           /\ Cardinality(S) <= Cardinality(T)
           /\ Cardinality(S) = Cardinality(T) => S = T
  BY FS_Subset, FS_CardinalityType

\* The sets of Possible are finite, and add up to MostSteps.
LEMMA PossibleSize ==
    ASSUME IsFiniteSet(Calls), IsFiniteSet(Workers)
    PROVE  /\ \A i \in 1..7 : IsFiniteSet(Possible[i])
           /\ Size(Possible) = MostSteps
<1> DEFINE n == Cardinality(Tasks)
<1>1. IsFiniteSet(Tasks) /\ n \in Nat
  BY TasksFinite
<1>2. IsFiniteSet(1..n) /\ Cardinality(1..n) = n
  BY <1>1, FS_Interval
<1>3. Cardinality(Calls) \in Nat /\ Cardinality(Workers) \in Nat
  BY FS_CardinalityType
<1>4. Possible = <<Tasks, Tasks, Calls, Calls, 1..n, 1..n, Workers>>
  BY DEF Possible
<1> HIDE DEF n
<1>5. \A i \in 1..7 : IsFiniteSet(Possible[i])
  BY <1>1, <1>2, <1>4
<1>6. Size(Possible) = MostSteps
  BY <1>1, <1>2, <1>3, <1>4 DEF Size, MostSteps, n
<1>7. QED
  BY <1>5, <1>6

\* Within finite sets, parts that grow do not get smaller together, and get bigger when
\* one of them does.
LEMMA SizeGrows ==
    ASSUME NEW a1, NEW a2, NEW a3, NEW a4, NEW a5, NEW a6, NEW a7,
           NEW b1, NEW b2, NEW b3, NEW b4, NEW b5, NEW b6, NEW b7,
           IsFiniteSet(b1), IsFiniteSet(b2), IsFiniteSet(b3), IsFiniteSet(b4),
           IsFiniteSet(b5), IsFiniteSet(b6), IsFiniteSet(b7),
           Grows(<<a1, a2, a3, a4, a5, a6, a7>>, <<b1, b2, b3, b4, b5, b6, b7>>)
    PROVE  LET old == <<a1, a2, a3, a4, a5, a6, a7>>
               new == <<b1, b2, b3, b4, b5, b6, b7>>
           IN  /\ Size(old) \in Nat /\ Size(new) \in Nat
               /\ Size(old) <= Size(new)
               /\ old # new => Size(old) < Size(new)
<1>1. /\ a1 \subseteq b1 /\ a2 \subseteq b2 /\ a3 \subseteq b3 /\ a4 \subseteq b4
      /\ a5 \subseteq b5 /\ a6 \subseteq b6 /\ a7 \subseteq b7
  BY DEF Grows
<1> DEFINE Fits(S, T) == /\ Cardinality(S) \in Nat /\ Cardinality(T) \in Nat
                         /\ Cardinality(S) <= Cardinality(T)
                         /\ Cardinality(S) = Cardinality(T) => S = T
<1>2. /\ Fits(a1, b1) /\ Fits(a2, b2) /\ Fits(a3, b3) /\ Fits(a4, b4)
      /\ Fits(a5, b5) /\ Fits(a6, b6) /\ Fits(a7, b7)
  BY <1>1, BiggerSet
<1>3. QED
  BY <1>2 DEF Size

\* Each step of the provider, unless it kills the process, adds to what is behind, and
\* nothing takes away from it.
StepsCounted == [][/\ Size(Past) <= Size(Past')
                   /\ Progress => Size(Past) < Size(Past') \/ crashed']_vars

\* A finite set of calls keeps the provider busy for at most MostSteps steps: after them
\* it is at rest or hangs, and the theorem HangsExplained says when it hangs.
THEOREM StepsAreFinite ==
    ASSUME IsFiniteSet(Calls), IsFiniteSet(Workers)
    PROVE  Spec => [](Size(Past) <= MostSteps) /\ StepsCounted
<1> DEFINE Inv == TypeInv /\ LockInv /\ BehindInv /\ OnceInv /\ CountInv
           FinitePast == \A i \in 1..7 : IsFiniteSet(Past[i])
           Counted == /\ Size(Past) <= Size(Past')
                      /\ Progress => Size(Past) < Size(Past') \/ crashed'
<1>1. Spec => []Inv
  BY TypeInit, TypeStep, LockInit, LockStep, BehindInit, BehindStep, OnceInit, OnceStep,
     CountInit, CountStep, PTL DEF Spec
<1>2. Inv => PastBounded /\ FinitePast
  <2> SUFFICES ASSUME Inv PROVE PastBounded /\ FinitePast
    OBVIOUS
  <2>1. PastBounded
    BY PastIsBounded
  <2>2. DOMAIN Past = 1..7
    BY DEF Past
  <2>3. \A i \in 1..7 : Past[i] \subseteq Possible[i]
    BY <2>1, <2>2 DEF PastBounded, Grows
  <2>4. QED
    BY <2>1, <2>3, PossibleSize, FS_Subset
<1>3. Inv => Size(Past) <= MostSteps
  <2> SUFFICES ASSUME Inv PROVE Size(Past) <= Size(Possible)
    BY PossibleSize
  <2>1. PastBounded /\ \A i \in 1..7 : IsFiniteSet(Possible[i])
    BY <1>2, PossibleSize
  <2>2. QED
    BY <2>1, SizeGrows DEF PastBounded, Past, Possible
<1>a. Spec => []FinitePast
  <2> HIDE DEF Inv, FinitePast
  <2> QED
    BY <1>1, <1>2, PTL
<1>4. ASSUME FinitePast', [PastGrows]_vars PROVE [Counted]_vars
  <2> SUFFICES ASSUME PastGrows PROVE Counted
    BY <1>4
  <2>1. Grows(Past, Past')
    BY DEF PastGrows
  <2>2. \A i \in 1..7 : IsFiniteSet(Past'[i])
    BY <1>4
  <2>3. Size(Past) \in Nat /\ Size(Past') \in Nat /\ Size(Past) <= Size(Past')
        /\ (Past # Past' => Size(Past) < Size(Past'))
    BY <2>1, <2>2, SizeGrows DEF Past
  <2>4. QED
    BY <2>3 DEF PastGrows
<1>5. QED
  BY <1>1, <1>3, <1>a, <1>4, NeverInCircles, PTL DEF NoLivelock, StepsCounted

-----------------------------------------------------------------------------
(* After the Shutdown.                                                     *)

\* A Publish waits on the full queue of a pool whose workers have all ended.
BlockedSend(p) == pc[p] = "send" /\ exited = Workers /\ Pool!QueueFull

\* Such a Publish waits for ever, whatever is called afterwards, and as it waits with the
\* read lock, no Subscribe and no closure ever takes effect again.
THEOREM BlockedForGood ==
    ASSUME NEW p \in Publishes
    PROVE  Spec => [][BlockedSend(p) => BlockedSend(p)' /\ UNCHANGED subscriptions]_vars
<1> DEFINE Stays == BlockedSend(p) => BlockedSend(p)' /\ UNCHANGED subscriptions
<1>1. ASSUME TypeInv, LockInv, [Next]_vars, BlockedSend(p)
      PROVE  BlockedSend(p)'
  <2>0. /\ pc \in [Calls -> {"idle", "range", "send", "handler", "lock", "wait"} \cup Ended]
        /\ exited = Workers /\ Pool!QueueFull /\ pc[p] = "send"
    BY <1>1 DEF TypeInv, TypeOK, BlockedSend
  <2>1. \A q \in Publishes : ~Enqueue(q)
    BY <2>0 DEF Enqueue, Pool!enqueue
  <2>2. \A w \in Workers : ~WorkerTake(w) /\ ~WorkerExit(w)
    BY <2>0 DEF WorkerTake, WorkerExit, Pool!TakeTask, Pool!Exit, Pool!Idle
  <2>3. UNCHANGED <<tasks, exited>>
    BY <1>1, <2>1, <2>2
       DEF Next, Call, PublishCall, SubscribeCall, UnsubscribeCall, ShutdownCall, Pool!CloseStop,
       Progress, PublishStep, Visit, HandlerReturn, HandlerPanic, PublishReturn,
       SubscribeStep, Register, RegisterPanics, UnsubscribeStep, Delete, LockAnnounce, ShutdownReturn,
       WorkerStep, WorkerReturn, Pool!FinishTask, WorkerPanic
  <2>4. pc'[p] = "send"
    <3> USE <2>0, CallsAssumption DEF Calls, Goto
    <3>1. ASSUME NEW f \in Frames \cup {None}, Call(f) PROVE pc'[p] = "send"
      BY <3>1 DEF Call, PublishCall, SubscribeCall, UnsubscribeCall, ShutdownCall, Start
    <3>2. ASSUME NEW q \in Publishes, PublishStep(q) PROVE pc'[p] = "send"
      BY <3>2, <2>1 DEF PublishStep, Visit, AtRange, HandlerReturn, HandlerPanic, PublishReturn
    <3>3. ASSUME NEW c \in Subscribes \cup Unsubscribes,
                 LockAnnounce(c) \/ (c \in Subscribes /\ (Register(c) \/ RegisterPanics(c)))
                 \/ (c \in Unsubscribes /\ Delete(c))
          PROVE  pc'[p] = "send"
      BY <3>3 DEF LockAnnounce, Register, RegisterPanics, Delete
    <3>4. ASSUME NEW d \in Shutdowns, ShutdownReturn(d) PROVE pc'[p] = "send"
      BY <3>4 DEF ShutdownReturn
    <3>5. ASSUME NEW w \in Workers, WorkerStep(w) PROVE pc'[p] = "send"
      BY <3>5 DEF WorkerStep, WorkerTake, WorkerReturn, WorkerPanic, WorkerExit
    <3>6. QED
      BY <1>1, <3>1, <3>2, <3>3, <3>4, <3>5 DEF Next, Progress, SubscribeStep, UnsubscribeStep
  <2>5. QED
    BY <2>0, <2>3, <2>4 DEF BlockedSend, Pool!QueueFull
<1>2. ASSUME TypeInv, LockInv, [Next]_vars, BlockedSend(p)
      PROVE  UNCHANGED subscriptions
  BY <1>2, MapWrite DEF LockInv, BlockedSend
<1>3. TypeInv /\ LockInv /\ [Next]_vars => [Stays]_vars
  BY <1>1, <1>2
<1>4. QED
  BY <1>3, TypeInit, TypeStep, LockInit, LockStep, PTL DEF Spec

=============================================================================
