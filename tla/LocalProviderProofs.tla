------------------------- MODULE LocalProviderProofs -------------------------
(***************************************************************************)
(* Theorems about the in-process provider, for any number of calls, of     *)
(* workers and any capacity of the queue, with handlers that call back.    *)
(***************************************************************************)
EXTENDS LocalProvider, FiniteSetTheorems, SequenceTheorems, TLAPS

USE DEF vars, callVars, publishVars, mapVars, errorVars, muVars, poolVars

\* A Publish that dispatches is at an entry; the map is finite.
TypeInv ==
    /\ TypeOK
    /\ \A p \in Publishes : pc[p] \in {"send", "handler"} => cur[p] \in Subscribes
    /\ IsFiniteSet(DOMAIN subscriptions)

\* The invariant behind type correctness holds initially.
LEMMA TypeInit == Init => TypeInv
<1> SUFFICES ASSUME Init PROVE TypeInv
  OBVIOUS
<1>1. IsFiniteSet(DOMAIN subscriptions)
  BY FS_EmptySet DEF Init
<1>2. TypeOK
  <2>1. tasks \in Seq(Tasks) /\ accepted \in Seq(Tasks) /\ finished \in Seq(Tasks)
    BY DEF Init, Pool!PoolInit
  <2>2. Len(tasks) <= QueueSize
    BY PoolAssumption DEF Init, Pool!PoolInit
  <2>3. Registered = {} /\ DOMAIN subscriptions = {}
    BY DEF Init, Registered
  <2>4. pc \in [Calls -> {"idle"}] /\ parent \in [Calls -> {None}]
    BY DEF Init
  <2>5. QED
    BY <2>1, <2>2, <2>3, <2>4 DEF Init, TypeOK, Mu!MuInit, Pool!PoolInit
<1>3. QED
  BY <1>1, <1>2 DEF TypeInv, Init, Calls

\* Every step keeps it.
LEMMA TypeStep == TypeInv /\ [Next]_vars => TypeInv'
<1> SUFFICES ASSUME TypeInv, [Next]_vars PROVE TypeInv'
  OBVIOUS
<1> USE DEF TypeInv
<1>1. ASSUME NEW f \in Frames \cup {None}, NEW p \in Publishes, PublishCall(p, f)
      PROVE TypeInv'
  BY <1>1, CallsAssumption DEF PublishCall, Start, Goto, TypeOK, Registered, Calls, Frames, Mu!RLock
<1>2. ASSUME NEW f \in Frames \cup {None}, NEW s \in Subscribes, SubscribeCall(s, f)
      PROVE TypeInv'
  BY <1>2, CallsAssumption DEF SubscribeCall, Start, Goto, TypeOK, Registered, Calls, Frames
<1>3. ASSUME NEW f \in Frames \cup {None}, NEW u \in Unsubscribes, NEW s \in Subscribes,
             UnsubscribeCall(u, s, f)
      PROVE TypeInv'
  BY <1>3, CallsAssumption DEF UnsubscribeCall, Start, Goto, TypeOK, Registered, Calls, Frames
<1>4. ASSUME NEW f \in Frames \cup {None}, NEW d \in Shutdowns, ShutdownCall(d, f)
      PROVE TypeInv'
  <2>1. CASE Pool!CloseStop /\ Goto(d, "wait")
    BY <1>4, <2>1, CallsAssumption DEF ShutdownCall, Start, Goto, TypeOK, Registered, Calls,
       Pool!CloseStop
  <2>2. CASE Goto(d, "panicked") /\ UNCHANGED poolVars
    BY <1>4, <2>2, CallsAssumption DEF ShutdownCall, Start, Goto, TypeOK, Registered, Calls, Ended
  <2>3. QED
    BY <1>4, <2>1, <2>2 DEF ShutdownCall
<1>5. ASSUME NEW p \in Publishes, NEW s \in Subscribes, Visit(p, s)
      PROVE TypeInv'
  BY <1>5, CallsAssumption DEF Visit, Goto, TypeOK, Registered, Calls
<1>6. ASSUME NEW p \in Publishes, Enqueue(p)
      PROVE TypeInv'
  <2>1. Task(p, cur[p]) \in Tasks
    BY <1>6 DEF Enqueue, Task, Tasks
  <2>2. Len(tasks') <= QueueSize /\ tasks' \in Seq(Tasks) /\ accepted' \in Seq(Tasks)
    BY <1>6, <2>1, PoolAssumption DEF Enqueue, Pool!enqueue, Pool!QueueFull, TypeOK
  <2>3. QED
    BY <1>6, <2>2, CallsAssumption DEF Enqueue, Pool!enqueue, Goto, TypeOK, Registered, Calls
<1>7. ASSUME NEW p \in Publishes, NEW err \in BOOLEAN, HandlerReturn(p, err)
      PROVE TypeInv'
  <2>1. Task(p, cur[p]) \in Tasks
    BY <1>7 DEF HandlerReturn, Task, Tasks
  <2>2. QED
    BY <1>7, <2>1, CallsAssumption DEF HandlerReturn, Goto, TypeOK, Registered, Calls
<1>8. ASSUME NEW p \in Publishes, HandlerPanic(p)
      PROVE TypeInv'
  BY <1>8, CallsAssumption DEF HandlerPanic, Goto, TypeOK, Registered, Calls, Ended, Mu!RUnlock
<1>9. ASSUME NEW p \in Publishes, PublishReturn(p)
      PROVE TypeInv'
  BY <1>9, CallsAssumption DEF PublishReturn, Goto, TypeOK, Registered, Calls, Ended, Mu!RUnlock
<1>10. ASSUME NEW c \in Subscribes \cup Unsubscribes, LockAnnounce(c)
       PROVE TypeInv'
  BY <1>10 DEF LockAnnounce, TypeOK, Registered, Mu!Announce
<1>11. ASSUME NEW s \in Subscribes, Register(s)
       PROVE TypeInv'
  <2> DEFINE id == SubID(Cardinality(DOMAIN subscriptions))
  <2>1. id \in Nat
    <3>1. Cardinality(DOMAIN subscriptions) \in Nat
      BY FS_CardinalityType
    <3>2. QED
      BY <3>1 DEF SubID
  <2>2. IsFiniteSet(DOMAIN subscriptions \cup {id})
    BY FS_AddElement
  <2>3. /\ DOMAIN subscriptions' = DOMAIN subscriptions \cup {id}
        /\ Registered' \subseteq Registered \cup {s}
        /\ subID' = [subID EXCEPT ![s] = id]
    BY <1>11 DEF Register, Registered
  <2> HIDE DEF id
  <2>4. IsFiniteSet(DOMAIN subscriptions')
    BY <2>2, <2>3
  <2>5. QED
    BY <1>11, <2>1, <2>3, <2>4, CallsAssumption DEF Register, Goto, TypeOK, Calls, Ended, Mu!Unlock
<1>p. ASSUME NEW s \in Subscribes, RegisterPanics(s)
      PROVE  TypeInv'
  BY <1>p, CallsAssumption DEF RegisterPanics, Goto, TypeOK, Registered, Calls, Ended, Mu!Unlock
<1>12. ASSUME NEW u \in Unsubscribes, Delete(u)
       PROVE TypeInv'
  <2>1. /\ DOMAIN subscriptions' = DOMAIN subscriptions \ {subID[target[u]]}
        /\ Registered' \subseteq Registered
    BY <1>12 DEF Delete, Registered
  <2>2. IsFiniteSet(DOMAIN subscriptions')
    BY <2>1, FS_RemoveElement
  <2>3. QED
    BY <1>12, <2>1, <2>2, CallsAssumption DEF Delete, Goto, TypeOK, Calls, Ended, Mu!Unlock
<1>13. ASSUME NEW d \in Shutdowns, ShutdownReturn(d)
       PROVE TypeInv'
  BY <1>13, CallsAssumption DEF ShutdownReturn, Goto, TypeOK, Registered, Calls, Ended
<1>14. ASSUME NEW w \in Workers, WorkerTake(w)
       PROVE TypeInv'
  <2>1. tasks \in Seq(Tasks) /\ tasks # <<>>
    BY <1>14 DEF WorkerTake, Pool!TakeTask, TypeOK
  <2>2. Head(tasks) \in Tasks /\ Tail(tasks) \in Seq(Tasks) /\ Len(Tail(tasks)) = Len(tasks) - 1
    BY <2>1
  <2>3. Len(tasks) \in Nat /\ QueueSize \in Nat /\ Len(tasks) <= QueueSize
    BY <2>1, PoolAssumption DEF TypeOK
  <2>4. Len(Tail(tasks)) <= QueueSize
    BY <2>2, <2>3
  <2>5. tasks' = Tail(tasks) /\ running' = [running EXCEPT ![w] = Head(tasks)]
    BY <1>14 DEF WorkerTake, Pool!TakeTask
  <2>6. running' \in [Workers -> Tasks \cup {None}]
    BY <2>2, <2>5 DEF TypeOK
  <2>7. QED
    BY <1>14, <2>2, <2>4, <2>5, <2>6 DEF WorkerTake, Pool!TakeTask, TypeOK, Registered
<1>15. ASSUME NEW w \in Workers, NEW err \in BOOLEAN, WorkerReturn(w, err)
       PROVE TypeInv'
  <2>1. running[w] \in Tasks
    BY <1>15 DEF WorkerReturn, Pool!FinishTask, TypeOK
  <2>2. finished' \in Seq(Tasks)
    BY <1>15, <2>1 DEF WorkerReturn, Pool!FinishTask, TypeOK
  <2>3. QED
    BY <1>15, <2>1, <2>2 DEF WorkerReturn, Pool!FinishTask, TypeOK, Registered
<1>16. ASSUME NEW w \in Workers, WorkerPanic(w)
       PROVE TypeInv'
  BY <1>16 DEF WorkerPanic, TypeOK, Registered
<1>17. ASSUME NEW w \in Workers, WorkerExit(w)
       PROVE TypeInv'
  BY <1>17 DEF WorkerExit, Pool!Exit, TypeOK, Registered
<1>18. CASE UNCHANGED vars
  BY <1>18 DEF TypeOK, Registered
<1>19. QED
  BY <1>p, <1>1, <1>2, <1>3, <1>4, <1>5, <1>6, <1>7, <1>8, <1>9, <1>10, <1>11, <1>12, <1>13,
     <1>14, <1>15, <1>16, <1>17, <1>18
     DEF Next, Call, Progress, PublishStep, SubscribeStep, UnsubscribeStep, WorkerStep

\* The variables keep their types; in particular the queue never holds more
\* than its capacity, and the ids are natural numbers.
THEOREM TypeCorrect == Spec => []TypeOK
<1>1. TypeInv => TypeOK
  BY DEF TypeInv
<1>2. QED
  BY <1>1, TypeInit, TypeStep, PTL DEF Spec

-----------------------------------------------------------------------------
(* The lock.                                                               *)

\* A Publish that dispatches holds the read lock.
LockInv ==
    /\ LockHeldByActiveCalls
    /\ \A p \in Publishes : pc[p] \in {"send", "handler"} => p \in readers

\* Nobody occupies the lock initially.
LEMMA LockInit == Init => LockInv
  BY DEF Init, LockInv, LockHeldByActiveCalls, Mu!MuInit, Calls

\* Every step keeps the lock to the calls that are under way.
LEMMA LockStep == TypeInv /\ LockInv /\ [Next]_vars => LockInv'
<1> SUFFICES ASSUME TypeInv, LockInv, [Next]_vars PROVE LockInv'
  OBVIOUS
<1>0. /\ pc \in [Calls -> {"idle", "range", "send", "handler", "lock", "wait"} \cup Ended]
      /\ readers \subseteq Publishes /\ queued \subseteq Publishes
      /\ writers \subseteq Subscribes \cup Unsubscribes
  BY DEF TypeInv, TypeOK
<1> USE <1>0, CallsAssumption DEF LockInv, LockHeldByActiveCalls, InLoop, Calls, Goto
<1>1. ASSUME NEW f \in Frames \cup {None}, NEW p \in Publishes, PublishCall(p, f)
      PROVE LockInv'
  BY <1>1 DEF PublishCall, Start, Mu!RLock
<1>2. ASSUME NEW f \in Frames \cup {None}, NEW s \in Subscribes, SubscribeCall(s, f)
      PROVE LockInv'
  BY <1>2 DEF SubscribeCall, Start
<1>3. ASSUME NEW f \in Frames \cup {None}, NEW u \in Unsubscribes, NEW s \in Subscribes,
             UnsubscribeCall(u, s, f)
      PROVE LockInv'
  BY <1>3 DEF UnsubscribeCall, Start
<1>4. ASSUME NEW f \in Frames \cup {None}, NEW d \in Shutdowns, ShutdownCall(d, f)
      PROVE LockInv'
  BY <1>4 DEF ShutdownCall, Start
<1>5. ASSUME NEW p \in Publishes, PublishStep(p)
      PROVE LockInv'
  <2>1. ASSUME NEW s \in Subscribes, Visit(p, s) PROVE LockInv'
    BY <2>1 DEF Visit, AtRange
  <2>2. CASE Enqueue(p)
    BY <2>2 DEF Enqueue
  <2>3. ASSUME NEW err \in BOOLEAN, HandlerReturn(p, err) PROVE LockInv'
    BY <2>3 DEF HandlerReturn
  <2>4. CASE HandlerPanic(p)
    BY <2>4 DEF HandlerPanic, Mu!RUnlock
  <2>5. CASE PublishReturn(p)
    BY <2>5 DEF PublishReturn, AtRange, Mu!RUnlock
  <2>6. QED
    BY <1>5, <2>1, <2>2, <2>3, <2>4, <2>5 DEF PublishStep
<1>6. ASSUME NEW c \in Subscribes \cup Unsubscribes, LockAnnounce(c)
      PROVE LockInv'
  BY <1>6 DEF LockAnnounce, Mu!Announce
<1>7. ASSUME NEW s \in Subscribes, Register(s)
      PROVE LockInv'
  BY <1>7 DEF Register, Mu!Holds, Mu!Unlock
<1>p. ASSUME NEW s \in Subscribes, RegisterPanics(s)
      PROVE  LockInv'
  BY <1>p DEF RegisterPanics, Ended, Mu!Holds, Mu!Unlock
<1>8. ASSUME NEW u \in Unsubscribes, Delete(u)
      PROVE LockInv'
  BY <1>8 DEF Delete, Mu!Holds, Mu!Unlock
<1>9. ASSUME NEW d \in Shutdowns, ShutdownReturn(d)
      PROVE LockInv'
  BY <1>9 DEF ShutdownReturn
<1>10. ASSUME NEW w \in Workers, WorkerStep(w)
       PROVE LockInv'
  BY <1>10 DEF WorkerStep, WorkerTake, WorkerReturn, WorkerPanic, WorkerExit
<1>11. CASE UNCHANGED vars
  BY <1>11
<1>12. QED
  BY <1>p, <1>1, <1>2, <1>3, <1>4, <1>5, <1>6, <1>7, <1>8, <1>9, <1>10, <1>11
     DEF Next, Call, Progress, SubscribeStep, UnsubscribeStep

\* The deferred unlocks leave the lock to the calls under way, whatever the
\* handlers do.
THEOREM LockNotLeaked == Spec => []LockHeldByActiveCalls
<1>1. LockInv => LockHeldByActiveCalls
  BY DEF LockInv
<1>2. QED
  BY <1>1, TypeInit, TypeStep, LockInit, LockStep, PTL DEF Spec

\* Only the two critical sections write the map, and only without readers.
LEMMA MapWrite == [Next]_vars /\ subscriptions' # subscriptions => readers = {}
<1> SUFFICES ASSUME [Next]_vars, subscriptions' # subscriptions PROVE readers = {}
  OBVIOUS
<1>1. \/ \E s \in Subscribes : Register(s)
      \/ \E u \in Unsubscribes : Delete(u)
  BY DEF Next, Call, Progress, PublishCall, SubscribeCall, UnsubscribeCall, ShutdownCall,
     PublishStep, Visit, Enqueue, HandlerReturn, HandlerPanic, PublishReturn,
     SubscribeStep, RegisterPanics, UnsubscribeStep, LockAnnounce, ShutdownReturn,
     WorkerStep, WorkerTake, WorkerReturn, WorkerPanic, WorkerExit
<1>2. QED
  BY <1>1 DEF Register, Delete, Mu!Holds

\* No Publish ranges over the map while it is written.
THEOREM MapStable == Spec => MapStableWhileRead
<1>1. [Next]_vars => [(\E p \in readers : InLoop(p)) => UNCHANGED subscriptions]_vars
  BY MapWrite
<1>2. QED
  BY <1>1, PTL DEF Spec, MapStableWhileRead

-----------------------------------------------------------------------------
(* Subscriptions.                                                          *)

\* An entry of the map sits under the id its Subscribe computed, so deleting
\* the id of a subscription deletes the subscription for good; and what a
\* Publish dispatches to is in the map until it has dispatched.
EntryInv ==
    /\ \A i \in DOMAIN subscriptions :
          /\ subscriptions[i] \in Subscribes
          /\ pc[subscriptions[i]] = "done"
          /\ subID[subscriptions[i]] = i
    /\ \A u \in Unsubscribes : pc[u] # "idle" => target[u] \in Subscribes
    /\ \A u \in Unsubscribes : target[u] \in Subscribes => pc[target[u]] = "done"
    /\ \A u \in Unsubscribes :
          pc[u] = "done" => \A i \in DOMAIN subscriptions : subscriptions[i] # target[u]
    /\ \A p \in Publishes :
          pc[p] \in {"send", "handler"} =>
              \E i \in DOMAIN subscriptions : subscriptions[i] = cur[p]

\* The map is empty initially and nothing is dispatched.
LEMMA EntryInit == Init => EntryInv
  BY NoneAssumption DEF Init, EntryInv, Calls

\* Every step keeps it; a critical section runs without readers, so no Publish
\* dispatches while the map changes.
LEMMA EntryStep == TypeInv /\ LockInv /\ EntryInv /\ [Next]_vars => EntryInv'
<1> SUFFICES ASSUME TypeInv, LockInv, EntryInv, [Next]_vars PROVE EntryInv'
  OBVIOUS
<1>0. /\ pc \in [Calls -> {"idle", "range", "send", "handler", "lock", "wait"} \cup Ended]
      /\ cur \in [Publishes -> Subscribes \cup {None}]
      /\ subID \in [Subscribes -> Nat \cup {None}]
      /\ target \in [Unsubscribes -> Subscribes \cup {None}]
  BY DEF TypeInv, TypeOK
<1> USE <1>0, CallsAssumption DEF EntryInv, Calls, Goto
<1>1. ASSUME NEW f \in Frames \cup {None}, NEW p \in Publishes, PublishCall(p, f)
      PROVE EntryInv'
  BY <1>1 DEF PublishCall, Start
<1>2. ASSUME NEW f \in Frames \cup {None}, NEW s \in Subscribes, SubscribeCall(s, f)
      PROVE EntryInv'
  BY <1>2 DEF SubscribeCall, Start
<1>3. ASSUME NEW f \in Frames \cup {None}, NEW u \in Unsubscribes, NEW s \in Subscribes,
             UnsubscribeCall(u, s, f)
      PROVE EntryInv'
  BY <1>3 DEF UnsubscribeCall, Start
<1>4. ASSUME NEW f \in Frames \cup {None}, NEW d \in Shutdowns, ShutdownCall(d, f)
      PROVE EntryInv'
  BY <1>4 DEF ShutdownCall, Start
<1>5. ASSUME NEW p \in Publishes, PublishStep(p)
      PROVE EntryInv'
  <2>1. ASSUME NEW s \in Subscribes, Visit(p, s) PROVE EntryInv'
    BY <2>1 DEF Visit, Registered
  <2>2. CASE Enqueue(p)
    BY <2>2 DEF Enqueue
  <2>3. ASSUME NEW err \in BOOLEAN, HandlerReturn(p, err) PROVE EntryInv'
    BY <2>3 DEF HandlerReturn
  <2>4. CASE HandlerPanic(p)
    BY <2>4 DEF HandlerPanic
  <2>5. CASE PublishReturn(p)
    BY <2>5 DEF PublishReturn
  <2>6. QED
    BY <1>5, <2>1, <2>2, <2>3, <2>4, <2>5 DEF PublishStep
<1>6. ASSUME NEW c \in Subscribes \cup Unsubscribes, LockAnnounce(c)
      PROVE EntryInv'
  BY <1>6 DEF LockAnnounce
<1>7. ASSUME NEW s \in Subscribes, Register(s)
      PROVE EntryInv'
  <2> DEFINE id == SubID(Cardinality(DOMAIN subscriptions))
  <2>1. /\ subID' = [subID EXCEPT ![s] = id]
        /\ subscriptions' = [i \in DOMAIN subscriptions \cup {id} |->
                                IF i = id THEN s ELSE subscriptions[i]]
    BY <1>7 DEF Register
  <2> HIDE DEF id
  <2>2. \A p \in Publishes : pc'[p] \notin {"send", "handler"}
    BY <1>7 DEF Register, Mu!Holds, LockInv
  <2>3. pc[s] = "lock" /\ pc' = [pc EXCEPT ![s] = "done"] /\ target' = target
    BY <1>7 DEF Register
  <2>4. \A i \in DOMAIN subscriptions : subscriptions[i] # s
    BY <2>3
  <2>5. \A u \in Unsubscribes : target[u] # s
    BY <2>3
  <2>6. QED
    BY <2>1, <2>2, <2>3, <2>4, <2>5
<1>p. ASSUME NEW s \in Subscribes, RegisterPanics(s)
      PROVE  EntryInv'
  BY <1>p DEF RegisterPanics
<1>8. ASSUME NEW u \in Unsubscribes, Delete(u)
      PROVE EntryInv'
  <2>1. /\ pc[u] = "lock" /\ pc' = [pc EXCEPT ![u] = "done"]
        /\ UNCHANGED <<subID, target>>
        /\ subscriptions' = [i \in DOMAIN subscriptions \ {subID[target[u]]} |->
                                subscriptions[i]]
    BY <1>8 DEF Delete
  <2>2. \A p \in Publishes : pc'[p] \notin {"send", "handler"}
    BY <1>8 DEF Delete, Mu!Holds, LockInv
  <2>3. QED
    BY <2>1, <2>2
<1>9. ASSUME NEW d \in Shutdowns, ShutdownReturn(d)
      PROVE EntryInv'
  BY <1>9 DEF ShutdownReturn
<1>10. ASSUME NEW w \in Workers, WorkerStep(w)
       PROVE EntryInv'
  BY <1>10 DEF WorkerStep, WorkerTake, WorkerReturn, WorkerPanic, WorkerExit
<1>11. CASE UNCHANGED vars
  BY <1>11
<1>12. QED
  BY <1>p, <1>1, <1>2, <1>3, <1>4, <1>5, <1>6, <1>7, <1>8, <1>9, <1>10, <1>11
     DEF Next, Call, Progress, SubscribeStep, UnsubscribeStep

\* Once an unsubscribe has returned, no Publish dispatches to its
\* subscription, for any number of concurrent and nested calls.
THEOREM SilentAfterUnsubscribe == Spec => []NoDispatchAfterUnsubscribe
<1>1. EntryInv => NoDispatchAfterUnsubscribe
  BY DEF EntryInv, NoDispatchAfterUnsubscribe
<1>2. QED
  BY <1>1, TypeInit, TypeStep, LockInit, LockStep, EntryInit, EntryStep, PTL DEF Spec

-----------------------------------------------------------------------------
(* The pool.                                                               *)

\* A Shutdown returns when every worker has ended, and a worker that ended
\* runs nothing.
PoolInv ==
    /\ \A w \in exited : running[w] = None
    /\ \A d \in Shutdowns : pc[d] = "done" => exited = Workers

\* No worker has ended initially.
LEMMA PoolInit == Init => PoolInv
  BY DEF Init, PoolInv, Pool!PoolInit, Calls

\* Every step keeps it.
LEMMA PoolStep == TypeInv /\ PoolInv /\ [Next]_vars => PoolInv'
<1> SUFFICES ASSUME TypeInv, PoolInv, [Next]_vars PROVE PoolInv'
  OBVIOUS
<1>0. /\ pc \in [Calls -> {"idle", "range", "send", "handler", "lock", "wait"} \cup Ended]
      /\ running \in [Workers -> Tasks \cup {None}]
      /\ exited \subseteq Workers
  BY DEF TypeInv, TypeOK
<1> USE <1>0, CallsAssumption DEF PoolInv, Calls, Goto
<1>1. ASSUME NEW f \in Frames \cup {None}, Call(f)
      PROVE PoolInv'
  BY <1>1 DEF Call, PublishCall, SubscribeCall, UnsubscribeCall, ShutdownCall, Start, Pool!CloseStop
<1>2. ASSUME NEW p \in Publishes, PublishStep(p)
      PROVE PoolInv'
  BY <1>2 DEF PublishStep, Visit, Enqueue, Pool!enqueue, HandlerReturn, HandlerPanic, PublishReturn
<1>3. ASSUME NEW c \in Subscribes \cup Unsubscribes,
             LockAnnounce(c) \/ (c \in Subscribes /\ (Register(c) \/ RegisterPanics(c))) \/ (c \in Unsubscribes /\ Delete(c))
      PROVE PoolInv'
  BY <1>3 DEF LockAnnounce, Register, RegisterPanics, Delete
<1>4. ASSUME NEW d \in Shutdowns, ShutdownReturn(d)
      PROVE PoolInv'
  BY <1>4 DEF ShutdownReturn, Pool!AllExited
<1>5. ASSUME NEW w \in Workers, WorkerStep(w)
      PROVE PoolInv'
  BY <1>5 DEF WorkerStep, WorkerTake, Pool!TakeTask, Pool!Idle, WorkerReturn, Pool!FinishTask,
     WorkerPanic, WorkerExit, Pool!Exit
<1>6. CASE UNCHANGED vars
  BY <1>6
<1>7. QED
  BY <1>1, <1>2, <1>3, <1>4, <1>5, <1>6
     DEF Next, Progress, SubscribeStep, UnsubscribeStep

\* Once a Shutdown has returned, no async handler runs, for any number of
\* workers and of tasks left in the queue.
THEOREM QuietAfterShutdown == Spec => []NoHandlerAfterShutdown
<1>1. TypeInv /\ PoolInv => NoHandlerAfterShutdown
  BY DEF TypeInv, TypeOK, PoolInv, NoHandlerAfterShutdown
<1>2. QED
  BY <1>1, TypeInit, TypeStep, PoolInit, PoolStep, PTL DEF Spec

\* Initially nothing was sent.
LEMMA OrderInit == Init => AsyncInOrder
<1>1. Init => accepted = <<>> /\ finished = <<>> /\ tasks = <<>>
             /\ \A w \in Workers : InHand(w) = <<>>
  BY DEF Init, Pool!PoolInit, InHand
<1>2. <<>> = <<>> \o <<>> \o <<>>
  OBVIOUS
<1>3. QED
  BY <1>1, <1>2 DEF AsyncInOrder

\* A send appends to what was accepted and to what is queued.
LEMMA OrderSend ==
    \A f, h, q \in Seq(Tasks), t \in Tasks :
        Append(f \o h \o q, t) = f \o h \o Append(q, t)
<1> SUFFICES ASSUME NEW f \in Seq(Tasks), NEW h \in Seq(Tasks), NEW q \in Seq(Tasks),
                    NEW t \in Tasks
             PROVE  Append(f \o h \o q, t) = f \o h \o Append(q, t)
  OBVIOUS
<1>1. f \o h \in Seq(Tasks) /\ f \o h \o q \in Seq(Tasks) /\ <<t>> \in Seq(Tasks)
  OBVIOUS
<1>2. Append(f \o h \o q, t) = (f \o h \o q) \o <<t>> /\ Append(q, t) = q \o <<t>>
  BY <1>1, AppendIsConcat
<1>3. (f \o h \o q) \o <<t>> = (f \o h) \o (q \o <<t>>)
  BY <1>1, ConcatAssociative
<1>4. QED
  BY <1>2, <1>3

\* A task moves from the head of the queue into the worker's hand.
LEMMA OrderTake ==
    ASSUME NEW S, NEW f \in Seq(S), NEW q \in Seq(S), q # <<>>
    PROVE  f \o <<>> \o q = f \o <<Head(q)>> \o Tail(q)
<1>1. Head(q) \in S /\ Tail(q) \in Seq(S) /\ <<Head(q)>> \in Seq(S)
  OBVIOUS
<1>2. q = <<Head(q)>> \o Tail(q)
  BY <1>1
<1>3. f \o (<<Head(q)>> \o Tail(q)) = f \o <<Head(q)>> \o Tail(q)
  BY <1>1, ConcatAssociative
<1>4. f \o <<>> = f
  OBVIOUS
<1>5. QED
  BY <1>2, <1>3, <1>4

\* The task in hand becomes the last one finished.
LEMMA OrderFinish ==
    ASSUME NEW S, NEW f \in Seq(S), NEW q \in Seq(S), NEW t \in S
    PROVE  f \o <<t>> \o q = Append(f, t) \o <<>> \o q
<1>1. Append(f, t) = f \o <<t>> /\ Append(f, t) \in Seq(S)
  BY AppendIsConcat
<1>2. Append(f, t) \o <<>> = Append(f, t)
  BY <1>1
<1>3. QED
  BY <1>1, <1>2

\* Every step keeps the order of a single worker.
LEMMA OrderStep == TypeInv /\ AsyncInOrder /\ [Next]_vars => AsyncInOrder'
<1> SUFFICES ASSUME TypeInv, AsyncInOrder, [Next]_vars,
                    NEW v \in Workers, Workers = {v}
             PROVE  accepted' = finished' \o InHand(v)' \o tasks'
  BY DEF AsyncInOrder
<1>0. /\ tasks \in Seq(Tasks) /\ finished \in Seq(Tasks) /\ accepted \in Seq(Tasks)
      /\ running \in [Workers -> Tasks \cup {None}]
      /\ None \notin Tasks
      /\ InHand(v) \in Seq(Tasks)
  <2>1. None \notin Tasks
    BY NoneAssumption DEF Tasks
  <2>2. /\ tasks \in Seq(Tasks) /\ finished \in Seq(Tasks) /\ accepted \in Seq(Tasks)
        /\ running \in [Workers -> Tasks \cup {None}]
    BY DEF TypeInv, TypeOK
  <2>3. InHand(v) \in Seq(Tasks)
    BY <2>2 DEF InHand
  <2>4. QED
    BY <2>1, <2>2, <2>3
<1>a. accepted = finished \o InHand(v) \o tasks
  BY DEF AsyncInOrder
<1>1. CASE UNCHANGED <<tasks, running, accepted, finished>>
  BY <1>1, <1>a DEF InHand
<1>2. ASSUME NEW p \in Publishes, Enqueue(p)
      PROVE  accepted' = finished' \o InHand(v)' \o tasks'
  <2>1. Task(p, cur[p]) \in Tasks
    BY <1>2 DEF Enqueue, Task, Tasks, TypeInv
  <2>2. /\ tasks' = Append(tasks, Task(p, cur[p]))
        /\ accepted' = Append(accepted, Task(p, cur[p]))
        /\ finished' = finished /\ InHand(v)' = InHand(v)
    BY <1>2 DEF Enqueue, Pool!enqueue, InHand
  <2> DEFINE t == Task(p, cur[p])
  <2>3. t \in Tasks
    BY <2>1
  <2> HIDE DEF t
  <2>4. Append(finished \o InHand(v) \o tasks, t) = finished \o InHand(v) \o Append(tasks, t)
    <3> DEFINE h == InHand(v)
    <3>1. h \in Seq(Tasks) /\ finished \in Seq(Tasks) /\ tasks \in Seq(Tasks)
      BY <1>0
    <3> HIDE DEF h
    <3>2. Append(finished \o h \o tasks, t) = finished \o h \o Append(tasks, t)
      BY <2>3, <3>1, OrderSend, Zenon
    <3>3. QED
      BY <3>2 DEF h
  <2>5. QED
    BY <1>a, <2>2, <2>4 DEF t
<1>3. ASSUME NEW w \in Workers, WorkerTake(w)
      PROVE  accepted' = finished' \o InHand(v)' \o tasks'
  <2>1. /\ tasks # <<>> /\ tasks' = Tail(tasks) /\ running[v] = None
        /\ running' = [running EXCEPT ![v] = Head(tasks)]
        /\ accepted' = accepted /\ finished' = finished
    BY <1>3, w = v DEF WorkerTake, Pool!TakeTask, Pool!Idle
  <2>2. Head(tasks) \in Tasks
    BY <1>0, <2>1
  <2>3. InHand(v) = <<>> /\ InHand(v)' = <<Head(tasks)>>
    BY <1>0, <2>1, <2>2 DEF InHand
  <2>4. QED
    BY <1>0, <1>a, <2>1, <2>3, OrderTake
<1>4. ASSUME NEW w \in Workers, NEW err \in BOOLEAN, WorkerReturn(w, err)
      PROVE  accepted' = finished' \o InHand(v)' \o tasks'
  <2>1. /\ running[v] \in Tasks
        /\ running' = [running EXCEPT ![v] = None]
        /\ finished' = Append(finished, running[v])
        /\ accepted' = accepted /\ tasks' = tasks
    BY <1>0, <1>4, w = v DEF WorkerReturn, Pool!FinishTask
  <2>2. InHand(v) = <<running[v]>> /\ InHand(v)' = <<>>
    BY <1>0, <2>1 DEF InHand
  <2>3. QED
    BY <1>0, <1>a, <2>1, <2>2, OrderFinish
<1>5. QED
  BY <1>1, <1>2, <1>3, <1>4
     DEF Next, Call, PublishCall, SubscribeCall, UnsubscribeCall, ShutdownCall, Pool!CloseStop,
     Progress, PublishStep, Visit, HandlerReturn, HandlerPanic, PublishReturn,
     SubscribeStep, UnsubscribeStep, LockAnnounce, Register, RegisterPanics, Delete, ShutdownReturn,
     WorkerStep, WorkerPanic, WorkerExit, Pool!Exit

\* With one worker, the async tasks are handled in the order of the sends and
\* none is lost or doubled, for any capacity of the queue.
THEOREM OrderKept == Spec => []AsyncInOrder
  BY TypeInit, TypeStep, OrderInit, OrderStep, PTL DEF Spec

-----------------------------------------------------------------------------
(* What is sent once.                                                      *)

\* What was sent is behind the range loop, and what is about to be sent was not sent.
OnceInv ==
    /\ AsyncOnce
    /\ \A i \in 1..Len(accepted) : accepted[i].sub \in visited[accepted[i].event]
    /\ \A p \in Publishes : pc[p] = "send" =>
          /\ cur[p] \in visited[p]
          /\ \A i \in 1..Len(accepted) : accepted[i] # Task(p, cur[p])

\* Nothing was sent initially.
LEMMA OnceInit == Init => OnceInv
  BY DEF Init, OnceInv, AsyncOnce, Pool!PoolInit, Calls

\* Every step keeps it.
LEMMA OnceStep == TypeInv /\ OnceInv /\ [Next]_vars => OnceInv'
<1> SUFFICES ASSUME TypeInv, OnceInv, [Next]_vars PROVE OnceInv'
  OBVIOUS
<1>0. /\ pc \in [Calls -> {"idle", "range", "send", "handler", "lock", "wait"} \cup Ended]
      /\ visited \in [Publishes -> SUBSET Subscribes]
      /\ cur \in [Publishes -> Subscribes \cup {None}]
      /\ accepted \in Seq(Tasks)
      /\ Publishes \subseteq Calls /\ Subscribes \subseteq Calls
      /\ Unsubscribes \subseteq Calls /\ Shutdowns \subseteq Calls
  BY DEF TypeInv, TypeOK, Calls
<1>a. \A i \in 1..Len(accepted) : accepted[i].event \in Publishes /\ accepted[i].sub \in Subscribes
  <2>1. \A i \in 1..Len(accepted) : accepted[i] \in Tasks
    BY <1>0
  <2>2. QED
    BY <2>1 DEF Tasks
<1> USE DEF OnceInv, AsyncOnce
<1>1. ASSUME NEW f \in Frames \cup {None}, NEW p \in Publishes, PublishCall(p, f)
      PROVE  OnceInv'
  BY <1>1, <1>0, CallsAssumption DEF PublishCall, Start, Goto
<1>2. ASSUME NEW f \in Frames \cup {None}, NEW s \in Subscribes, SubscribeCall(s, f)
      PROVE  OnceInv'
  BY <1>2, <1>0, CallsAssumption DEF SubscribeCall, Start, Goto
<1>3. ASSUME NEW f \in Frames \cup {None}, NEW u \in Unsubscribes, NEW s \in Subscribes,
             UnsubscribeCall(u, s, f)
      PROVE  OnceInv'
  BY <1>3, <1>0, CallsAssumption DEF UnsubscribeCall, Start, Goto
<1>4. ASSUME NEW f \in Frames \cup {None}, NEW d \in Shutdowns, ShutdownCall(d, f)
      PROVE  OnceInv'
  BY <1>4, <1>0, CallsAssumption DEF ShutdownCall, Start, Goto, Pool!CloseStop
<1>5. ASSUME NEW p \in Publishes, NEW s \in Subscribes, Visit(p, s)
      PROVE  OnceInv'
  <2>1. /\ s \notin visited[p] /\ UNCHANGED accepted
        /\ visited' = [visited EXCEPT ![p] = @ \cup {s}]
        /\ cur' = [cur EXCEPT ![p] = s]
        /\ \A q \in Publishes : q # p => pc'[q] = pc[q]
    BY <1>5, <1>0 DEF Visit, Goto
  <2>2. \A i \in 1..Len(accepted) : accepted[i] # Task(p, s)
    BY <2>1 DEF Task
  <2>3. \A i \in 1..Len(accepted) : accepted[i].sub \in visited'[accepted[i].event]
    BY <1>0, <1>a, <2>1
  <2>4. QED
    BY <1>0, <2>1, <2>2, <2>3
<1>6. ASSUME NEW p \in Publishes, Enqueue(p)
      PROVE  OnceInv'
  <2> DEFINE t == Task(p, cur[p])
  <2>1. /\ pc[p] = "send" /\ t \in Tasks /\ t.event = p /\ t.sub = cur[p]
        /\ accepted' = Append(accepted, t) /\ UNCHANGED visited
        /\ cur' = [cur EXCEPT ![p] = None]
        /\ pc'[p] = "range"
        /\ \A q \in Publishes : q # p => pc'[q] = pc[q]
    BY <1>6, <1>0 DEF Enqueue, Pool!enqueue, Goto, Task, Tasks, TypeInv
  <2>2. /\ \A i \in 1..Len(accepted) : accepted[i] # t
        /\ t.sub \in visited[t.event]
    BY <2>1
  <2>3. \A q \in Publishes : q # p => Task(q, cur[q]) # t
    BY DEF Task
  <2> HIDE DEF t
  <2>4. /\ Len(accepted') = Len(accepted) + 1 /\ Len(accepted) \in Nat
        /\ accepted'[Len(accepted) + 1] = t
        /\ \A i \in 1..Len(accepted) : accepted'[i] = accepted[i]
    BY <1>0, <2>1
  <2>5. \A i \in 1..Len(accepted') : i \in 1..Len(accepted) \/ i = Len(accepted) + 1
    BY <2>4
  <2>6. AsyncOnce'
    BY <2>2, <2>4, <2>5
  <2>7. \A i \in 1..Len(accepted') : accepted'[i].sub \in visited'[accepted'[i].event]
    BY <2>1, <2>2, <2>4, <2>5
  <2>8. \A q \in Publishes : pc'[q] = "send" =>
           /\ cur'[q] \in visited'[q]
           /\ \A i \in 1..Len(accepted') : accepted'[i] # Task(q, cur'[q])
    BY <1>0, <2>1, <2>3, <2>4, <2>5
  <2>9. QED
    BY <2>6, <2>7, <2>8
<1>7. ASSUME NEW p \in Publishes, NEW err \in BOOLEAN, HandlerReturn(p, err)
      PROVE  OnceInv'
  BY <1>7, <1>0, CallsAssumption DEF HandlerReturn, Goto
<1>8. ASSUME NEW p \in Publishes, HandlerPanic(p)
      PROVE  OnceInv'
  BY <1>8, <1>0, CallsAssumption DEF HandlerPanic, Goto
<1>9. ASSUME NEW p \in Publishes, PublishReturn(p)
      PROVE  OnceInv'
  BY <1>9, <1>0, CallsAssumption DEF PublishReturn, AtRange, Goto
<1>10. ASSUME NEW s \in Subscribes, Register(s)
       PROVE  OnceInv'
  BY <1>10, <1>0, CallsAssumption DEF Register, Goto
<1>p. ASSUME NEW s \in Subscribes, RegisterPanics(s)
      PROVE  OnceInv'
  BY <1>p, <1>0, CallsAssumption DEF RegisterPanics, Goto
<1>11. ASSUME NEW u \in Unsubscribes, Delete(u)
       PROVE  OnceInv'
  BY <1>11, <1>0, CallsAssumption DEF Delete, Goto
<1>12. ASSUME NEW d \in Shutdowns, ShutdownReturn(d)
       PROVE  OnceInv'
  BY <1>12, <1>0, CallsAssumption DEF ShutdownReturn, Goto
<1>13. CASE UNCHANGED <<pc, visited, cur, accepted>>
  BY <1>13
<1>14. QED
  BY <1>p, <1>1, <1>2, <1>3, <1>4, <1>5, <1>6, <1>7, <1>8, <1>9, <1>10, <1>11, <1>12, <1>13
     DEF Next, Call, Progress, PublishStep, SubscribeStep, UnsubscribeStep, WorkerStep,
     LockAnnounce, WorkerTake, Pool!TakeTask, WorkerReturn, Pool!FinishTask, WorkerPanic,
     WorkerExit, Pool!Exit

\* However calls interleave and unsubscribe while the loop runs, no event is sent
\* twice to a subscription, for any number of calls and of workers.
THEOREM SentOnce == Spec => []AsyncOnce
<1>1. OnceInv => AsyncOnce
  BY DEF OnceInv
<1>2. QED
  BY <1>1, TypeInit, TypeStep, OnceInit, OnceStep, PTL DEF Spec

-----------------------------------------------------------------------------
(* The promise of the pool.                                                *)

\* The element behind a prefix.
LEMMA NextElement ==
    ASSUME NEW S, NEW f \in Seq(S), NEW q \in Seq(S), NEW t \in S,
           NEW a, a = f \o <<t>> \o q
    PROVE  Len(f) < Len(a) /\ a[Len(f) + 1] = t
<1>1. f \o <<t>> \in Seq(S) /\ Len(f \o <<t>>) = Len(f) + 1 /\ (f \o <<t>>)[Len(f) + 1] = t
  OBVIOUS
<1>2. Len(a) = Len(f) + 1 + Len(q) /\ a[Len(f) + 1] = (f \o <<t>>)[Len(f) + 1]
  BY <1>1
<1>3. QED
  BY <1>1, <1>2

\* Nothing was sent and nobody has shut the provider down initially.
LEMMA PromiseInit == Init => Promise!Init
  BY DEF Init, Promise!Init, Pool!PoolInit, Calls

\* With one worker every step sends a task for the first time, handles the next
\* one while no Shutdown has returned, closes the pool, or changes nothing of it.
LEMMA PromiseStep ==
    ASSUME TypeInv, OnceInv, PoolInv, AsyncInOrder, [Next]_vars,
           NEW v \in Workers, Workers = {v}
    PROVE  [Promise!Next]_(Promise!vars)
<1> DEFINE open == \A d \in Shutdowns : pc[d] # "done"
<1>0. /\ pc \in [Calls -> {"idle", "range", "send", "handler", "lock", "wait"} \cup Ended]
      /\ tasks \in Seq(Tasks) /\ finished \in Seq(Tasks) /\ accepted \in Seq(Tasks)
      /\ running \in [Workers -> Tasks \cup {None}]
      /\ Publishes \subseteq Calls /\ Subscribes \subseteq Calls
      /\ Unsubscribes \subseteq Calls /\ Shutdowns \subseteq Calls
  BY DEF TypeInv, TypeOK, Calls
<1>1. ASSUME NEW c \in Calls \ Shutdowns, NEW l, Goto(c, l),
             UNCHANGED <<accepted, finished>>
      PROVE  UNCHANGED Promise!vars
  <2>1. \A d \in Shutdowns : pc'[d] = pc[d]
    BY <1>0, <1>1 DEF Goto
  <2>2. QED
    BY <1>1, <2>1 DEF Promise!vars
<1>2. ASSUME NEW f \in Frames \cup {None}, Call(f)
      PROVE  UNCHANGED Promise!vars
  <2>1. ASSUME NEW p \in Publishes, PublishCall(p, f) PROVE UNCHANGED Promise!vars
    BY <1>0, <1>1, <2>1, CallsAssumption DEF PublishCall
  <2>2. ASSUME NEW s \in Subscribes, SubscribeCall(s, f) PROVE UNCHANGED Promise!vars
    BY <1>0, <1>1, <2>2, CallsAssumption DEF SubscribeCall
  <2>3. ASSUME NEW u \in Unsubscribes, NEW s \in Subscribes, UnsubscribeCall(u, s, f)
        PROVE  UNCHANGED Promise!vars
    BY <1>0, <1>1, <2>3, CallsAssumption DEF UnsubscribeCall
  <2>4. ASSUME NEW d \in Shutdowns, ShutdownCall(d, f) PROVE UNCHANGED Promise!vars
    <3>1. /\ UNCHANGED <<accepted, finished>> /\ pc[d] = "idle"
          /\ Goto(d, "wait") \/ Goto(d, "panicked")
      BY <2>4 DEF ShutdownCall, Start, Pool!CloseStop
    <3>2. \A e \in Shutdowns : pc'[e] = "done" <=> pc[e] = "done"
      BY <1>0, <3>1 DEF Goto
    <3>3. QED
      BY <3>1, <3>2 DEF Promise!vars
  <2>5. QED
    BY <1>2, <2>1, <2>2, <2>3, <2>4 DEF Call
<1>3. ASSUME NEW p \in Publishes, PublishStep(p)
      PROVE  [Promise!Next]_(Promise!vars)
  <2>1. CASE Enqueue(p)
    <3>1. /\ Task(p, cur[p]) \in Tasks
          /\ \A i \in 1..Len(accepted) : accepted[i] # Task(p, cur[p])
      BY <2>1 DEF Enqueue, Task, Tasks, TypeInv, OnceInv
    <3>2. /\ accepted' = Append(accepted, Task(p, cur[p])) /\ finished' = finished
          /\ \A d \in Shutdowns : pc'[d] = pc[d]
      BY <1>0, <2>1, CallsAssumption DEF Enqueue, Pool!enqueue, Goto
    <3>3. Promise!Send(Task(p, cur[p]))
      BY <3>1, <3>2 DEF Promise!Send
    <3>4. QED
      BY <3>1, <3>3 DEF Promise!Next
  <2>2. CASE ~Enqueue(p)
    <3>1. UNCHANGED <<accepted, finished>> /\ \E l : Goto(p, l)
      BY <1>3, <2>2 DEF PublishStep, Visit, HandlerReturn, HandlerPanic, PublishReturn
    <3>2. QED
      BY <1>0, <1>1, <3>1, CallsAssumption
  <2>3. QED
    BY <2>1, <2>2
<1>4. ASSUME NEW c \in Subscribes \cup Unsubscribes,
             LockAnnounce(c) \/ (c \in Subscribes /\ (Register(c) \/ RegisterPanics(c))) \/ (c \in Unsubscribes /\ Delete(c))
      PROVE  UNCHANGED Promise!vars
  <2>1. UNCHANGED <<accepted, finished>> /\ (UNCHANGED pc \/ \E l : Goto(c, l))
    BY <1>4 DEF LockAnnounce, Register, RegisterPanics, Delete
  <2>2. CASE UNCHANGED pc
    BY <2>1, <2>2 DEF Promise!vars
  <2>3. QED
    BY <1>0, <1>1, <2>1, <2>2, CallsAssumption
<1>5. ASSUME NEW d \in Shutdowns, ShutdownReturn(d)
      PROVE  [Promise!Next]_(Promise!vars)
  <2>1. UNCHANGED <<accepted, finished>> /\ open' = FALSE
    BY <1>0, <1>5 DEF ShutdownReturn, Goto
  <2>2. open \in BOOLEAN
    OBVIOUS
  <2>3. CASE open
    BY <2>1, <2>3 DEF Promise!Next, Promise!Close
  <2>4. CASE ~open
    BY <2>1, <2>4 DEF Promise!vars
  <2>5. QED
    BY <2>3, <2>4
<1>6. ASSUME NEW w \in Workers, NEW err \in BOOLEAN, WorkerReturn(w, err)
      PROVE  Promise!Next
  <2>1. /\ running[v] \in Tasks /\ running[v] # None
        /\ finished' = Append(finished, running[v])
        /\ accepted' = accepted /\ pc' = pc
    BY <1>0, <1>6, w = v DEF WorkerReturn, Pool!FinishTask
  <2>2. accepted = finished \o <<running[v]>> \o tasks
    BY <2>1 DEF AsyncInOrder, InHand
  <2>3. Len(finished) < Len(accepted) /\ accepted[Len(finished) + 1] = running[v]
    BY <1>0, <2>1, <2>2, NextElement
  <2>4. open
    BY <1>0, <2>1 DEF PoolInv
  <2>5. Promise!Handle
    BY <2>1, <2>3, <2>4 DEF Promise!Handle
  <2>6. QED
    BY <2>5 DEF Promise!Next
<1>7. ASSUME NEW w \in Workers, WorkerTake(w) \/ WorkerPanic(w) \/ WorkerExit(w)
      PROVE  UNCHANGED Promise!vars
  <2>1. UNCHANGED <<pc, accepted, finished>>
    BY <1>7 DEF WorkerTake, Pool!TakeTask, WorkerPanic, WorkerExit, Pool!Exit
  <2>2. QED
    BY <2>1 DEF Promise!vars
<1>8. CASE UNCHANGED vars
  BY <1>8 DEF Promise!vars
<1>9. QED
  BY <1>2, <1>3, <1>4, <1>5, <1>6, <1>7, <1>8
     DEF Next, Progress, SubscribeStep, UnsubscribeStep, WorkerStep

\* The pool keeps its promise with the one worker that the code starts, for any
\* number of calls and any capacity of the queue.
THEOREM OneWorkerDeliversInOrder ==
    ASSUME NEW v \in Workers, Workers = {v}
    PROVE  Spec => DeliversInOrder
<1>1. TypeInv /\ OnceInv /\ PoolInv /\ AsyncInOrder /\ [Next]_vars
      => [Promise!Next]_(Promise!vars)
  BY PromiseStep
<1>2. QED
  BY <1>1, PromiseInit, TypeInit, TypeStep, OnceInit, OnceStep, PoolInit, PoolStep,
     OrderInit, OrderStep, PTL DEF Spec, DeliversInOrder, Promise!Spec

-----------------------------------------------------------------------------
(* What a Publish reaches as long as nobody unsubscribes: the ids are then *)
(* unique, up to the first number that is no character.                    *)

FirstSurrogate == 55296

Made == {s \in Subscribes : pc[s] = "done"}

NoUnsubscribe == \A u \in Unsubscribes : pc[u] = "idle"

\* The map holds every subscription under the number of those made before it.
ReachInv ==
    /\ \A p \in Publishes : before[p] \subseteq Made
    /\ NoUnsubscribe =>
          /\ DOMAIN subscriptions = 0..(Cardinality(Made) - 1)
          /\ \A s \in Made : subID[s] \in DOMAIN subscriptions /\ subscriptions[subID[s]] = s
          /\ \A p \in Publishes : pc[p] = "done" => before[p] \subseteq visited[p]

\* The map is empty initially.
LEMMA ReachInit == Init => ReachInv
<1> SUFFICES ASSUME Init PROVE ReachInv
  OBVIOUS
<1>1. Made = {}
  BY DEF Init, Made, Calls
<1>2. Cardinality(Made) = 0
  BY <1>1, FS_EmptySet
<1>3. DOMAIN subscriptions = 0..(Cardinality(Made) - 1)
  BY <1>2 DEF Init
<1>4. \A p \in Publishes : before[p] = {} /\ pc[p] = "idle"
  BY DEF Init, Calls
<1>5. QED
  BY <1>1, <1>3, <1>4 DEF ReachInv

\* A Subscribe in its critical section takes the next number.
LEMMA ReachRegister ==
    ASSUME IsFiniteSet(Subscribes), Cardinality(Subscribes) <= FirstSurrogate,
           TypeInv, ReachInv, NoUnsubscribe,
           NEW s \in Subscribes, Register(s)
    PROVE  /\ DOMAIN subscriptions' = 0..(Cardinality(Made') - 1)
           /\ \A t \in Made' : subID'[t] \in DOMAIN subscriptions' /\ subscriptions'[subID'[t]] = t
<1> DEFINE n == Cardinality(Made)
<1>1. /\ pc \in [Calls -> {"idle", "range", "send", "handler", "lock", "wait"} \cup Ended]
      /\ Subscribes \subseteq Calls /\ subID \in [Subscribes -> Nat \cup {None}]
  BY DEF TypeInv, TypeOK, Calls
<1>2. s \notin Made /\ Made' = Made \cup {s}
  BY <1>1 DEF Register, Goto, Made
<1>3. /\ IsFiniteSet(Made) /\ IsFiniteSet(Made') /\ Made' \subseteq Subscribes
      /\ n \in Nat
  BY <1>2, FS_Subset, FS_CardinalityType DEF Made
<1>4. Cardinality(Made') = n + 1
  BY <1>2, <1>3, FS_AddElement
<1>5. n + 1 <= FirstSurrogate
  <2>1. Cardinality(Made') <= Cardinality(Subscribes)
    BY <1>3, FS_Subset
  <2>2. Cardinality(Subscribes) \in Nat
    BY FS_CardinalityType
  <2>3. QED
    BY <1>3, <1>4, <2>1, <2>2 DEF FirstSurrogate
<1>6. Cardinality(DOMAIN subscriptions) = n
  <2>1. DOMAIN subscriptions = 0..(n - 1)
    BY DEF ReachInv
  <2>2. Cardinality(0..(n - 1)) = IF 0 > n - 1 THEN 0 ELSE (n - 1) - 0 + 1
    BY <1>3, FS_Interval
  <2>3. QED
    BY <1>3, <2>1, <2>2
<1> HIDE DEF n
<1>7. SubID(n) = n
  BY <1>3, <1>5 DEF SubID, FirstSurrogate
<1>8. /\ subID' = [subID EXCEPT ![s] = n]
      /\ subscriptions' = [i \in DOMAIN subscriptions \cup {n} |->
                              IF i = n THEN s ELSE subscriptions[i]]
  BY <1>6, <1>7 DEF Register
<1>9. /\ DOMAIN subscriptions = 0..(n - 1)
      /\ \A t \in Made : subID[t] \in DOMAIN subscriptions /\ subscriptions[subID[t]] = t
  BY DEF ReachInv, n
<1>10. DOMAIN subscriptions' = 0..((n + 1) - 1)
  <2>1. DOMAIN subscriptions' = 0..(n - 1) \cup {n}
    BY <1>8, <1>9
  <2>2. QED
    BY <1>3, <2>1
<1>11. \A t \in Made' : subID'[t] \in DOMAIN subscriptions' /\ subscriptions'[subID'[t]] = t
  <2>1. subID'[s] = n /\ subscriptions'[n] = s /\ n \in DOMAIN subscriptions'
    BY <1>1, <1>8
  <2>2. ASSUME NEW t \in Made
        PROVE  subID'[t] \in DOMAIN subscriptions' /\ subscriptions'[subID'[t]] = t
    <3>1. t # s /\ subID'[t] = subID[t] /\ subID[t] # n
      BY <1>1, <1>2, <1>3, <1>8, <1>9 DEF Made
    <3>2. QED
      BY <1>8, <1>9, <3>1
  <2>3. QED
    BY <1>2, <2>1, <2>2
<1>12. QED
  BY <1>4, <1>10, <1>11

\* Every step keeps it, as long as the ids do not run into the surrogates.
LEMMA ReachStep ==
    ASSUME IsFiniteSet(Subscribes), Cardinality(Subscribes) <= FirstSurrogate
    PROVE  TypeInv /\ ReachInv /\ [Next]_vars => ReachInv'
<1> SUFFICES ASSUME TypeInv, ReachInv, [Next]_vars PROVE ReachInv'
  OBVIOUS
<1>0. /\ pc \in [Calls -> {"idle", "range", "send", "handler", "lock", "wait"} \cup Ended]
      /\ visited \in [Publishes -> SUBSET Subscribes] /\ before \in [Publishes -> SUBSET Subscribes]
      /\ Publishes \subseteq Calls /\ Subscribes \subseteq Calls
      /\ Unsubscribes \subseteq Calls /\ Shutdowns \subseteq Calls
  BY DEF TypeInv, TypeOK, Calls
<1> USE DEF ReachInv
<1>1. ASSUME NEW f \in Frames \cup {None}, NEW p \in Publishes, PublishCall(p, f)
      PROVE  ReachInv'
  <2>1. /\ Made' = Made /\ (NoUnsubscribe' => NoUnsubscribe)
        /\ UNCHANGED <<visited, subscriptions, subID>>
        /\ before' = [before EXCEPT ![p] = Made]
        /\ \A q \in Publishes : pc'[q] = "done" => pc[q] = "done" /\ q # p
    BY <1>1, <1>0, CallsAssumption DEF PublishCall, Start, Goto, Made, NoUnsubscribe
  <2>2. QED
    BY <1>0, <2>1
<1>2. ASSUME NEW f \in Frames \cup {None}, NEW s \in Subscribes, SubscribeCall(s, f)
      PROVE  ReachInv'
  <2>1. /\ Made' = Made /\ (NoUnsubscribe' => NoUnsubscribe)
        /\ UNCHANGED <<before, visited, subscriptions, subID>>
        /\ \A q \in Publishes : pc'[q] = "done" => pc[q] = "done"
    BY <1>2, <1>0, CallsAssumption DEF SubscribeCall, Start, Goto, Made, NoUnsubscribe, Ended
  <2>2. QED
    BY <2>1
<1>3. ASSUME NEW f \in Frames \cup {None}, NEW u \in Unsubscribes, NEW s \in Subscribes,
             UnsubscribeCall(u, s, f)
      PROVE  ReachInv'
  <2>1. /\ Made' = Made /\ (NoUnsubscribe' => NoUnsubscribe)
        /\ UNCHANGED <<before, visited, subscriptions, subID>>
        /\ \A q \in Publishes : pc'[q] = "done" => pc[q] = "done"
    BY <1>3, <1>0, CallsAssumption DEF UnsubscribeCall, Start, Goto, Made, NoUnsubscribe, Ended
  <2>2. QED
    BY <2>1
<1>4. ASSUME NEW f \in Frames \cup {None}, NEW d \in Shutdowns, ShutdownCall(d, f)
      PROVE  ReachInv'
  <2>1. /\ Made' = Made /\ (NoUnsubscribe' => NoUnsubscribe)
        /\ UNCHANGED <<before, visited, subscriptions, subID>>
        /\ \A q \in Publishes : pc'[q] = "done" => pc[q] = "done"
    BY <1>4, <1>0, CallsAssumption DEF ShutdownCall, Start, Goto, Pool!CloseStop, Made, NoUnsubscribe, Ended
  <2>2. QED
    BY <2>1
<1>5. ASSUME NEW p \in Publishes, NEW s \in Subscribes, Visit(p, s)
      PROVE  ReachInv'
  <2>1. /\ Made' = Made /\ (NoUnsubscribe' => NoUnsubscribe)
        /\ UNCHANGED <<before, subscriptions, subID>>
        /\ visited' = [visited EXCEPT ![p] = @ \cup {s}]
        /\ \A q \in Publishes : pc'[q] = "done" => pc[q] = "done"
    BY <1>5, <1>0, CallsAssumption DEF Visit, Goto, Made, NoUnsubscribe
  <2>2. QED
    BY <1>0, <2>1
<1>6. ASSUME NEW p \in Publishes, Enqueue(p)
      PROVE  ReachInv'
  <2>1. /\ Made' = Made /\ (NoUnsubscribe' => NoUnsubscribe)
        /\ UNCHANGED <<before, visited, subscriptions, subID>>
        /\ \A q \in Publishes : pc'[q] = "done" => pc[q] = "done"
    BY <1>6, <1>0, CallsAssumption DEF Enqueue, Goto, Made, NoUnsubscribe, Ended
  <2>2. QED
    BY <2>1
<1>7. ASSUME NEW p \in Publishes, NEW err \in BOOLEAN, HandlerReturn(p, err)
      PROVE  ReachInv'
  <2>1. /\ Made' = Made /\ (NoUnsubscribe' => NoUnsubscribe)
        /\ UNCHANGED <<before, visited, subscriptions, subID>>
        /\ \A q \in Publishes : pc'[q] = "done" => pc[q] = "done"
    BY <1>7, <1>0, CallsAssumption DEF HandlerReturn, Goto, Made, NoUnsubscribe, Ended
  <2>2. QED
    BY <2>1
<1>8. ASSUME NEW p \in Publishes, HandlerPanic(p)
      PROVE  ReachInv'
  <2>1. /\ Made' = Made /\ (NoUnsubscribe' => NoUnsubscribe)
        /\ UNCHANGED <<before, visited, subscriptions, subID>>
        /\ \A q \in Publishes : pc'[q] = "done" => pc[q] = "done"
    BY <1>8, <1>0, CallsAssumption DEF HandlerPanic, Goto, Made, NoUnsubscribe, Ended
  <2>2. QED
    BY <2>1
<1>9. ASSUME NEW p \in Publishes, PublishReturn(p)
      PROVE  ReachInv'
  <2>1. /\ Made' = Made /\ (NoUnsubscribe' => NoUnsubscribe)
        /\ UNCHANGED <<before, visited, subscriptions, subID>>
        /\ \A q \in Publishes : pc'[q] = "done" => pc[q] = "done" \/ q = p
        /\ Registered \subseteq visited[p]
    BY <1>9, <1>0, CallsAssumption DEF PublishReturn, Goto, Made, NoUnsubscribe
  <2>2. NoUnsubscribe => Made \subseteq Registered
    BY DEF Registered
  <2>3. QED
    BY <2>1, <2>2
<1>10. ASSUME NEW s \in Subscribes, Register(s)
       PROVE  ReachInv'
  <2>1. /\ Made \subseteq Made' /\ (NoUnsubscribe' => NoUnsubscribe)
        /\ UNCHANGED <<before, visited>>
        /\ \A q \in Publishes : pc'[q] = "done" => pc[q] = "done"
    BY <1>10, <1>0, CallsAssumption DEF Register, Goto, Made, NoUnsubscribe
  <2>2. ASSUME NoUnsubscribe
        PROVE  /\ DOMAIN subscriptions' = 0..(Cardinality(Made') - 1)
               /\ \A t \in Made' : subID'[t] \in DOMAIN subscriptions'
                                   /\ subscriptions'[subID'[t]] = t
    BY <1>10, <2>2, ReachRegister
  <2>3. QED
    BY <2>1, <2>2
<1>p. ASSUME NEW s \in Subscribes, RegisterPanics(s)
      PROVE  ReachInv'
  <2>1. /\ Made' = Made /\ (NoUnsubscribe' => NoUnsubscribe)
        /\ UNCHANGED <<before, visited, subscriptions, subID>>
        /\ \A q \in Publishes : pc'[q] = "done" => pc[q] = "done"
    BY <1>p, <1>0, CallsAssumption DEF RegisterPanics, Goto, Made, NoUnsubscribe, Ended
  <2>2. QED
    BY <2>1
<1>11. ASSUME NEW u \in Unsubscribes, Delete(u)
       PROVE  ReachInv'
  <2>1. /\ Made' = Made /\ ~NoUnsubscribe'
        /\ UNCHANGED before
    BY <1>11, <1>0, CallsAssumption DEF Delete, Goto, Made, NoUnsubscribe
  <2>2. QED
    BY <2>1
<1>12. ASSUME NEW d \in Shutdowns, ShutdownReturn(d)
       PROVE  ReachInv'
  <2>1. /\ Made' = Made /\ (NoUnsubscribe' => NoUnsubscribe)
        /\ UNCHANGED <<before, visited, subscriptions, subID>>
        /\ \A q \in Publishes : pc'[q] = "done" => pc[q] = "done"
    BY <1>12, <1>0, CallsAssumption DEF ShutdownReturn, Goto, Made, NoUnsubscribe, Ended
  <2>2. QED
    BY <2>1
<1>13. CASE UNCHANGED <<pc, before, visited, subscriptions, subID>>
  BY <1>13 DEF Made, NoUnsubscribe
<1>14. QED
  BY <1>p, <1>1, <1>2, <1>3, <1>4, <1>5, <1>6, <1>7, <1>8, <1>9, <1>10, <1>11, <1>12, <1>13
     DEF Next, Call, Progress, PublishStep, SubscribeStep, UnsubscribeStep, WorkerStep,
     LockAnnounce, WorkerTake, Pool!TakeTask, WorkerReturn, Pool!FinishTask, WorkerPanic,
     WorkerExit, Pool!Exit

\* With at most 55,296 subscriptions, which get the numbers below the first
\* surrogate, and no unsubscribe, a Publish reaches every subscription made
\* before it began.
THEOREM SubscribersReached ==
    ASSUME IsFiniteSet(Subscribes), Cardinality(Subscribes) <= FirstSurrogate
    PROVE  Spec => []PublishReachesSubscribers
<1>1. TypeInv /\ ReachInv => PublishReachesSubscribers
  BY DEF TypeInv, ReachInv, PublishReachesSubscribers, NoUnsubscribe
<1>2. TypeInv /\ ReachInv /\ [Next]_vars => ReachInv'
  BY ReachStep
<1>3. QED
  BY <1>1, <1>2, TypeInit, TypeStep, ReachInit, PTL DEF Spec

\* local_provider.go:90 is right about "unique" until the first unsubscribe: with
\* at most 55,296 subscriptions, two of them then have different ids.
UniqueUntilUnsubscribe ==
    NoUnsubscribe => \A s, t \in Made : subID[s] = subID[t] => s = t

\* The ids are unique as long as nobody has unsubscribed.
THEOREM IdsUnique ==
    ASSUME IsFiniteSet(Subscribes), Cardinality(Subscribes) <= FirstSurrogate
    PROVE  Spec => []UniqueUntilUnsubscribe
<1>1. ReachInv => UniqueUntilUnsubscribe
  BY DEF ReachInv, UniqueUntilUnsubscribe
<1>2. TypeInv /\ ReachInv /\ [Next]_vars => ReachInv'
  BY ReachStep
<1>3. QED
  BY <1>1, <1>2, TypeInit, TypeStep, ReachInit, PTL DEF Spec

-----------------------------------------------------------------------------
(* The table of the subscribers.                                           *)

\* What the loop of a Publish has reached is in the map as long as it has the lock.
VisitInv ==
    /\ \A p \in Publishes : pc[p] = "idle" \/ p \in queued => visited[p] = {}
    /\ \A p \in readers : visited[p] \subseteq Registered

\* No loop has begun initially.
LEMMA VisitInit == Init => VisitInv
  BY DEF Init, VisitInv, Mu!MuInit

\* Every step keeps it: the map changes only without readers, and the Publishes
\* that are let in afterwards have reached nothing.
LEMMA VisitStep == TypeInv /\ LockInv /\ VisitInv /\ [Next]_vars => VisitInv'
<1> SUFFICES ASSUME TypeInv, LockInv, VisitInv, [Next]_vars PROVE VisitInv'
  OBVIOUS
<1>0. /\ pc \in [Calls -> {"idle", "range", "send", "handler", "lock", "wait"} \cup Ended]
      /\ visited \in [Publishes -> SUBSET Subscribes]
      /\ readers \subseteq Publishes /\ queued \subseteq Publishes
  BY DEF TypeInv, TypeOK
<1>a. UNCHANGED subscriptions => Registered' = Registered
  BY DEF Registered
<1>b. \A p \in queued : pc[p] = "range" /\ p \notin readers
  BY <1>0 DEF LockInv, LockHeldByActiveCalls
<1> USE <1>0, CallsAssumption DEF VisitInv, Calls, Goto
<1>1. ASSUME NEW f \in Frames \cup {None}, NEW p \in Publishes, PublishCall(p, f)
      PROVE  VisitInv'
  BY <1>1, <1>a DEF PublishCall, Start, Mu!RLock
<1>2. ASSUME NEW f \in Frames \cup {None}, NEW s \in Subscribes, SubscribeCall(s, f)
      PROVE  VisitInv'
  BY <1>2, <1>a DEF SubscribeCall, Start
<1>3. ASSUME NEW f \in Frames \cup {None}, NEW u \in Unsubscribes, NEW s \in Subscribes,
             UnsubscribeCall(u, s, f)
      PROVE  VisitInv'
  BY <1>3, <1>a DEF UnsubscribeCall, Start
<1>4. ASSUME NEW f \in Frames \cup {None}, NEW d \in Shutdowns, ShutdownCall(d, f)
      PROVE  VisitInv'
  BY <1>4, <1>a DEF ShutdownCall, Start
<1>5. ASSUME NEW p \in Publishes, PublishStep(p)
      PROVE  VisitInv'
  <2>1. ASSUME NEW s \in Subscribes, Visit(p, s) PROVE VisitInv'
    <3>1. p \in readers /\ s \in Registered /\ pc[p] = "range"
      BY <2>1 DEF Visit, AtRange
    <3>2. p \notin queued
      BY <3>1, <1>b
    <3>3. UNCHANGED <<subscriptions, readers, queued>>
          /\ visited' = [visited EXCEPT ![p] = @ \cup {s}]
          /\ pc'[p] # "idle" /\ \A q \in Publishes : pc'[q] = "idle" => pc[q] = "idle"
      BY <2>1, <3>1 DEF Visit
    <3>4. QED
      BY <1>a, <3>1, <3>2, <3>3
  <2>2. CASE Enqueue(p)
    BY <2>2, <1>a DEF Enqueue
  <2>3. ASSUME NEW err \in BOOLEAN, HandlerReturn(p, err) PROVE VisitInv'
    BY <2>3, <1>a DEF HandlerReturn
  <2>4. CASE HandlerPanic(p)
    BY <2>4, <1>a DEF HandlerPanic, Mu!RUnlock
  <2>5. CASE PublishReturn(p)
    BY <2>5, <1>a DEF PublishReturn, Mu!RUnlock
  <2>6. QED
    BY <1>5, <2>1, <2>2, <2>3, <2>4, <2>5 DEF PublishStep
<1>6. ASSUME NEW c \in Subscribes \cup Unsubscribes, LockAnnounce(c)
      PROVE  VisitInv'
  BY <1>6, <1>a DEF LockAnnounce, Mu!Announce
<1>7. ASSUME NEW s \in Subscribes, Register(s)
      PROVE  VisitInv'
  BY <1>7 DEF Register, Mu!Holds, Mu!Unlock
<1>p. ASSUME NEW s \in Subscribes, RegisterPanics(s)
      PROVE  VisitInv'
  BY <1>p, <1>a DEF RegisterPanics, Mu!Holds, Mu!Unlock
<1>8. ASSUME NEW u \in Unsubscribes, Delete(u)
      PROVE  VisitInv'
  BY <1>8 DEF Delete, Mu!Holds, Mu!Unlock
<1>9. ASSUME NEW d \in Shutdowns, ShutdownReturn(d)
      PROVE  VisitInv'
  BY <1>9, <1>a DEF ShutdownReturn
<1>10. ASSUME NEW w \in Workers, WorkerStep(w)
       PROVE  VisitInv'
  BY <1>10, <1>a DEF WorkerStep, WorkerTake, WorkerReturn, WorkerPanic, WorkerExit
<1>11. CASE UNCHANGED vars
  BY <1>11, <1>a
<1>12. QED
  BY <1>p, <1>1, <1>2, <1>3, <1>4, <1>5, <1>6, <1>7, <1>8, <1>9, <1>10, <1>11
     DEF Next, Call, Progress, SubscribeStep, UnsubscribeStep

\* A Subscribe adds its subscription and replaces the one that has its id, if any.
LEMMA RegisterReplacesOne ==
    ASSUME TypeInv, EntryInv, NEW s \in Subscribes, Register(s)
    PROVE  \E replaced \in {{}} \cup {{t} : t \in Registered} :
               Registered' = (Registered \ replaced) \cup {s}
<1> DEFINE id == SubID(Cardinality(DOMAIN subscriptions))
<1>1. subscriptions' = [i \in DOMAIN subscriptions \cup {id} |->
                           IF i = id THEN s ELSE subscriptions[i]]
  BY DEF Register
<1>2. \A i, j \in DOMAIN subscriptions : subscriptions[i] = subscriptions[j] => i = j
  BY DEF EntryInv
<1> HIDE DEF id
<1>3. CASE id \in DOMAIN subscriptions
  <2>1. {subscriptions[id]} \in {{}} \cup {{t} : t \in Registered}
    BY <1>3 DEF Registered
  <2>2. Registered' = (Registered \ {subscriptions[id]}) \cup {s}
    BY <1>1, <1>2, <1>3 DEF Registered
  <2>3. QED
    BY <2>1, <2>2
<1>4. CASE id \notin DOMAIN subscriptions
  <2>1. Registered' = (Registered \ {}) \cup {s}
    BY <1>1, <1>4 DEF Registered
  <2>2. QED
    BY <2>1
<1>5. QED
  BY <1>3, <1>4

\* A closure removes the subscription that has its id, if any.
LEMMA DeleteRemovesOne ==
    ASSUME TypeInv, EntryInv, NEW u \in Unsubscribes, Delete(u)
    PROVE  \E removed \in {{}} \cup {{t} : t \in Registered} : Registered' = Registered \ removed
<1> DEFINE id == subID[target[u]]
<1>1. subscriptions' = [i \in DOMAIN subscriptions \ {id} |-> subscriptions[i]]
  BY DEF Delete
<1>2. \A i, j \in DOMAIN subscriptions : subscriptions[i] = subscriptions[j] => i = j
  BY DEF EntryInv
<1> HIDE DEF id
<1>3. CASE id \in DOMAIN subscriptions
  <2>1. {subscriptions[id]} \in {{}} \cup {{t} : t \in Registered}
    BY <1>3 DEF Registered
  <2>2. Registered' = Registered \ {subscriptions[id]}
    BY <1>1, <1>2, <1>3 DEF Registered
  <2>3. QED
    BY <2>1, <2>2
<1>4. CASE id \notin DOMAIN subscriptions
  <2>1. Registered' = Registered \ {}
    BY <1>1, <1>4 DEF Registered
  <2>2. QED
    BY <2>1
<1>5. QED
  BY <1>3, <1>4

\* The table is empty initially.
LEMMA TableInit == Init => Table!Init
<1> SUFFICES ASSUME Init PROVE Table!Init
  OBVIOUS
<1>1. \A c \in MapCalls : pc[c] = "idle"
  BY DEF Init, MapCalls, Calls
<1>2. Registered = {}
  BY DEF Init, Registered
<1>3. \A p \in Publishes : pc[p] # "done"
  BY <1>1 DEF MapCalls
<1>4. QED
  BY <1>1, <1>2, <1>3 DEF Table!Init

\* A call that starts is called.
LEMMA TableCall ==
    ASSUME TypeInv, NEW c \in MapCalls, NEW l \in {"range", "lock"},
           pc[c] = "idle", pc' = [pc EXCEPT ![c] = l], UNCHANGED <<subscriptions, visited>>
    PROVE  Table!Next
<1>1. pc \in [Calls -> {"idle", "range", "send", "handler", "lock", "wait"} \cup Ended]
      /\ MapCalls \subseteq Calls /\ Publishes \subseteq MapCalls
  BY DEF TypeInv, TypeOK, MapCalls, Calls
<1>2. {d \in MapCalls : pc'[d] # "idle"} = {d \in MapCalls : pc[d] # "idle"} \cup {c}
  BY <1>1
<1>3. \A d \in MapCalls : pc'[d] = "done" <=> pc[d] = "done"
  BY <1>1
<1>4. Registered' = Registered
  BY DEF Registered
<1>5. Table!Call(c)
  BY <1>1, <1>2, <1>3, <1>4 DEF Table!Call
<1>6. QED
  BY <1>5 DEF Table!Next, MapCalls

\* A step in the middle of the calls changes nothing.
LEMMA TableStutter ==
    ASSUME \A c \in MapCalls : (pc'[c] = "idle" <=> pc[c] = "idle") /\ (pc'[c] = "done" <=> pc[c] = "done"),
           UNCHANGED subscriptions,
           \A p \in Publishes : pc[p] = "done" => visited'[p] = visited[p]
    PROVE  UNCHANGED Table!vars
<1>1. Registered' = Registered
  BY DEF Registered
<1>2. Publishes \subseteq MapCalls
  BY DEF MapCalls
<1>3. [p \in Publishes |-> IF pc'[p] = "done" THEN visited'[p] ELSE {}]
        = [p \in Publishes |-> IF pc[p] = "done" THEN visited[p] ELSE {}]
  BY <1>2
<1>4. QED
  BY <1>1, <1>3 DEF Table!vars

\* A call that returns takes effect.
LEMMA TableTakeEffect ==
    ASSUME TypeInv, NEW c \in MapCalls, pc[c] \notin {"idle", "done"},
           pc' = [pc EXCEPT ![c] = "done"]
    PROVE  Table!TakeEffect(c)
<1>1. pc \in [Calls -> {"idle", "range", "send", "handler", "lock", "wait"} \cup Ended]
      /\ MapCalls \subseteq Calls
  BY DEF TypeInv, TypeOK, MapCalls, Calls
<1>2. {d \in MapCalls : pc'[d] # "idle"} = {d \in MapCalls : pc[d] # "idle"}
  BY <1>1
<1>3. {d \in MapCalls : pc'[d] = "done"} = {d \in MapCalls : pc[d] = "done"} \cup {c}
  BY <1>1
<1>4. QED
  BY <1>2, <1>3 DEF Table!TakeEffect

\* Every step is one of the table or leaves it as it is.
LEMMA TableStep ==
    TypeInv /\ LockInv /\ EntryInv /\ VisitInv /\ [Next]_vars => [Table!Next]_(Table!vars)
<1> SUFFICES ASSUME TypeInv, LockInv, EntryInv, VisitInv, [Next]_vars
             PROVE  [Table!Next]_(Table!vars)
  OBVIOUS
<1>0. /\ pc \in [Calls -> {"idle", "range", "send", "handler", "lock", "wait"} \cup Ended]
      /\ visited \in [Publishes -> SUBSET Subscribes]
      /\ MapCalls \subseteq Calls /\ Publishes \subseteq MapCalls
      /\ Subscribes \subseteq MapCalls /\ Unsubscribes \subseteq MapCalls
      /\ Shutdowns \subseteq Calls /\ MapCalls \cap Shutdowns = {}
  BY CallsAssumption DEF TypeInv, TypeOK, MapCalls, Calls
<1>1. ASSUME NEW f \in Frames \cup {None}, NEW p \in Publishes, PublishCall(p, f)
      PROVE  Table!Next
  BY <1>0, <1>1, TableCall DEF PublishCall, Start, Goto
<1>2. ASSUME NEW f \in Frames \cup {None}, NEW s \in Subscribes, SubscribeCall(s, f)
      PROVE  Table!Next
  BY <1>0, <1>2, TableCall DEF SubscribeCall, Start, Goto
<1>3. ASSUME NEW f \in Frames \cup {None}, NEW u \in Unsubscribes, NEW s \in Subscribes,
             UnsubscribeCall(u, s, f)
      PROVE  Table!Next
  BY <1>0, <1>3, TableCall DEF UnsubscribeCall, Start, Goto
<1>4. ASSUME NEW f \in Frames \cup {None}, NEW d \in Shutdowns, ShutdownCall(d, f)
      PROVE  UNCHANGED Table!vars
  <2>1. \A c \in MapCalls : pc'[c] = pc[c]
    BY <1>0, <1>4 DEF ShutdownCall, Goto
  <2>2. UNCHANGED <<subscriptions, visited>>
    BY <1>4 DEF ShutdownCall
  <2>3. QED
    BY <2>1, <2>2, TableStutter
<1>5. ASSUME NEW p \in Publishes, NEW s \in Subscribes, Visit(p, s)
      PROVE  UNCHANGED Table!vars
  <2>1. pc[p] = "range" /\ UNCHANGED subscriptions
        /\ visited' = [visited EXCEPT ![p] = @ \cup {s}]
        /\ (pc' = [pc EXCEPT ![p] = "send"] \/ pc' = [pc EXCEPT ![p] = "handler"])
    BY <1>5 DEF Visit, AtRange, Goto
  <2>2. QED
    BY <1>0, <2>1, TableStutter
<1>6. ASSUME NEW p \in Publishes, Enqueue(p) \/ HandlerPanic(p)
                                  \/ \E err \in BOOLEAN : HandlerReturn(p, err)
      PROVE  UNCHANGED Table!vars
  <2>1. pc[p] \in {"send", "handler"} /\ UNCHANGED <<subscriptions, visited>>
        /\ (pc' = [pc EXCEPT ![p] = "range"] \/ pc' = [pc EXCEPT ![p] = "panicked"])
    BY <1>6 DEF Enqueue, HandlerPanic, HandlerReturn, Goto
  <2>2. QED
    BY <1>0, <2>1, TableStutter
<1>7. ASSUME NEW p \in Publishes, PublishReturn(p)
      PROVE  Table!Next
  <2>1. pc[p] = "range" /\ pc' = [pc EXCEPT ![p] = "done"] /\ UNCHANGED <<subscriptions, visited>>
        /\ visited[p] = Registered
    BY <1>7 DEF PublishReturn, AtRange, Goto, VisitInv
  <2>2. Registered' = Registered
    BY <2>1 DEF Registered
  <2>3. Table!TakeEffect(p)
    BY <1>0, <2>1, TableTakeEffect
  <2>4. [q \in Publishes |-> IF pc'[q] = "done" THEN visited'[q] ELSE {}]
          = [[q \in Publishes |-> IF pc[q] = "done" THEN visited[q] ELSE {}] EXCEPT ![p] = Registered]
    BY <1>0, <2>1
  <2>5. QED
    BY <2>2, <2>3, <2>4 DEF Table!Publish, Table!Next
<1>8. ASSUME NEW c \in Subscribes \cup Unsubscribes, LockAnnounce(c)
      PROVE  UNCHANGED Table!vars
  BY <1>8, TableStutter DEF LockAnnounce
<1>9. ASSUME NEW s \in Subscribes, Register(s)
      PROVE  Table!Next
  <2>1. pc[s] = "lock" /\ pc' = [pc EXCEPT ![s] = "done"] /\ UNCHANGED visited
    BY <1>9 DEF Register, Goto
  <2>2. Table!TakeEffect(s)
    BY <1>0, <2>1, TableTakeEffect
  <2>3. [q \in Publishes |-> IF pc'[q] = "done" THEN visited'[q] ELSE {}]
          = [q \in Publishes |-> IF pc[q] = "done" THEN visited[q] ELSE {}]
    BY <1>0, <2>1, CallsAssumption
  <2>4. \E replaced \in Table!AtMostOne : Registered' = (Registered \ replaced) \cup {s}
    BY <1>9, RegisterReplacesOne DEF Table!AtMostOne
  <2>5. QED
    BY <2>2, <2>3, <2>4 DEF Table!Subscribe, Table!Next
<1>p. ASSUME NEW s \in Subscribes, RegisterPanics(s)
      PROVE  UNCHANGED Table!vars
  <2>1. pc[s] = "lock" /\ pc' = [pc EXCEPT ![s] = "panicked"] /\ UNCHANGED <<subscriptions, visited>>
    BY <1>p DEF RegisterPanics, Goto
  <2>2. QED
    BY <1>0, <2>1, TableStutter
<1>10. ASSUME NEW u \in Unsubscribes, Delete(u)
       PROVE  Table!Next
  <2>1. pc[u] = "lock" /\ pc' = [pc EXCEPT ![u] = "done"] /\ UNCHANGED visited
    BY <1>10 DEF Delete, Goto
  <2>2. Table!TakeEffect(u)
    BY <1>0, <2>1, TableTakeEffect
  <2>3. [q \in Publishes |-> IF pc'[q] = "done" THEN visited'[q] ELSE {}]
          = [q \in Publishes |-> IF pc[q] = "done" THEN visited[q] ELSE {}]
    BY <1>0, <2>1, CallsAssumption
  <2>4. \E removed \in Table!AtMostOne : Registered' = Registered \ removed
    BY <1>10, DeleteRemovesOne DEF Table!AtMostOne
  <2>5. QED
    BY <2>2, <2>3, <2>4 DEF Table!Unsubscribe, Table!Next
<1>11. ASSUME NEW d \in Shutdowns, ShutdownReturn(d)
       PROVE  UNCHANGED Table!vars
  <2>1. \A c \in MapCalls : pc'[c] = pc[c]
    BY <1>0, <1>11 DEF ShutdownReturn, Goto
  <2>2. UNCHANGED <<subscriptions, visited>>
    BY <1>11 DEF ShutdownReturn
  <2>3. QED
    BY <2>1, <2>2, TableStutter
<1>12. ASSUME NEW w \in Workers, WorkerStep(w)
       PROVE  UNCHANGED Table!vars
  <2>1. UNCHANGED <<pc, subscriptions, visited>>
    BY <1>12 DEF WorkerStep, WorkerTake, WorkerReturn, WorkerPanic, WorkerExit
  <2>2. QED
    BY <2>1, TableStutter
<1>13. CASE UNCHANGED vars
  BY <1>13, TableStutter
<1>14. QED
  BY <1>p, <1>1, <1>2, <1>3, <1>4, <1>5, <1>6, <1>7, <1>8, <1>9, <1>10, <1>11, <1>12, <1>13
     DEF Next, Call, Progress, PublishStep, SubscribeStep, UnsubscribeStep

\* The read lock that Publish keeps while it calls handlers makes it one step on
\* the map, for any calls that race, nest and panic.
THEOREM PublishIsAtomic == Spec => PublishesAtOneInstant
<1>1. Init => Table!Init
  BY TableInit
<1>2. TypeInv /\ LockInv /\ EntryInv /\ VisitInv /\ [Next]_vars => [Table!Next]_(Table!vars)
  BY TableStep
<1>3. QED
  BY <1>1, <1>2, TypeInit, TypeStep, LockInit, LockStep, EntryInit, EntryStep, VisitInit,
     VisitStep, PTL DEF Spec, PublishesAtOneInstant, Table!Spec

=============================================================================
