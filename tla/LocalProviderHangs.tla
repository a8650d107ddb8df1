-------------------------- MODULE LocalProviderHangs --------------------------
(***************************************************************************)
(* When the in-process provider hangs: for any number of calls and of      *)
(* workers, any capacity of the queue and any nesting of the handlers,     *)
(* nothing can move only in the two ways HangsOnlyByReentryOrStop names.   *)
(***************************************************************************)
EXTENDS LocalProviderProofs, CallForest

USE DEF vars, callVars, publishVars, mapVars, errorVars, muVars, poolVars

\* Calls nest without cycles, and only calls that have started take part.
NestInv ==
    /\ IsForest(parent, Calls)
    /\ \A c \in Calls : parent[c] # None => c \in Nested /\ pc[c] # "idle"
    /\ \A c \in Calls : parent[c] \in Calls => pc[parent[c]] # "idle"

\* Initially no call is made in another one.
LEMMA NestInit == Init => NestInv
<1> SUFFICES ASSUME Init PROVE NestInv
  OBVIOUS
<1>1. \A c \in Calls : parent[c] = None
  BY DEF Init
<1>2. IsForest(parent, Calls)
  BY <1>1, NoneAssumption, ForestInit
<1>3. QED
  BY <1>1, <1>2, NoneAssumption DEF NestInv

\* A step starts a call or leaves the nesting and the idle calls alone.
LEMMA StartOrNot ==
    ASSUME TypeInv, [Next]_vars
    PROVE  \/ \E c \in Calls, f \in Frames \cup {None} :
                 /\ Start(c, f)
                 /\ pc'[c] # "idle"
                 /\ \A d \in Calls \ {c} : pc'[d] = pc[d]
           \/ /\ parent' = parent
              /\ \A c \in Calls : pc'[c] = "idle" => pc[c] = "idle"
<1>0. /\ pc \in [Calls -> {"idle", "range", "send", "handler", "lock", "wait"} \cup Ended]
      /\ Publishes \subseteq Calls /\ Subscribes \subseteq Calls
      /\ Unsubscribes \subseteq Calls /\ Shutdowns \subseteq Calls
  BY DEF TypeInv, TypeOK, Calls
<1> DEFINE Starts == \E c \in Calls, f \in Frames \cup {None} :
                        /\ Start(c, f)
                        /\ pc'[c] # "idle"
                        /\ \A d \in Calls \ {c} : pc'[d] = pc[d]
           Keeps == /\ parent' = parent
                    /\ \A c \in Calls : pc'[c] = "idle" => pc[c] = "idle"
<1>1. ASSUME NEW f \in Frames \cup {None}, Call(f)
      PROVE  Starts
  <2>1. ASSUME NEW p \in Publishes, PublishCall(p, f) PROVE Starts
    BY <1>0, <2>1 DEF PublishCall, Goto
  <2>2. ASSUME NEW s \in Subscribes, SubscribeCall(s, f) PROVE Starts
    BY <1>0, <2>2 DEF SubscribeCall, Goto
  <2>3. ASSUME NEW u \in Unsubscribes, NEW s \in Subscribes, UnsubscribeCall(u, s, f)
        PROVE Starts
    BY <1>0, <2>3 DEF UnsubscribeCall, Goto
  <2>4. ASSUME NEW d \in Shutdowns, ShutdownCall(d, f) PROVE Starts
    <3>1. Start(d, f) /\ (Goto(d, "wait") \/ Goto(d, "panicked"))
      BY <2>4 DEF ShutdownCall
    <3>2. QED
      BY <1>0, <3>1 DEF Goto
  <2>5. QED
    BY <1>1, <2>1, <2>2, <2>3, <2>4 DEF Call
<1>2. CASE Progress
  <2>1. ASSUME NEW p \in Publishes, PublishStep(p) PROVE Keeps
    BY <1>0, <2>1 DEF PublishStep, Visit, Enqueue, HandlerReturn, HandlerPanic, PublishReturn, Goto
  <2>2. ASSUME NEW s \in Subscribes, SubscribeStep(s) PROVE Keeps
    BY <1>0, <2>2 DEF SubscribeStep, LockAnnounce, Register, RegisterPanics, Ended, Goto
  <2>3. ASSUME NEW u \in Unsubscribes, UnsubscribeStep(u) PROVE Keeps
    BY <1>0, <2>3 DEF UnsubscribeStep, LockAnnounce, Delete, Goto
  <2>4. ASSUME NEW d \in Shutdowns, ShutdownReturn(d) PROVE Keeps
    BY <1>0, <2>4 DEF ShutdownReturn, Goto
  <2>5. ASSUME NEW w \in Workers, WorkerStep(w) PROVE Keeps
    BY <2>5 DEF WorkerStep, WorkerTake, WorkerReturn, WorkerPanic, WorkerExit
  <2>6. QED
    BY <1>2, <2>1, <2>2, <2>3, <2>4, <2>5 DEF Progress
<1>3. CASE UNCHANGED vars
  BY <1>3
<1>4. QED
  BY <1>1, <1>2, <1>3 DEF Next

\* Every step keeps the nesting: a call is made in a frame that runs, and has
\* none inside before it starts.
LEMMA NestStep == TypeInv /\ NestInv /\ [Next]_vars => NestInv'
<1> SUFFICES ASSUME TypeInv, NestInv, [Next]_vars PROVE NestInv'
  OBVIOUS
<1>0. parent \in [Calls -> Frames \cup {None}]
  BY DEF TypeInv, TypeOK
<1>1. CASE /\ parent' = parent
           /\ \A c \in Calls : pc'[c] = "idle" => pc[c] = "idle"
  BY <1>1 DEF NestInv
<1>2. ASSUME NEW c \in Calls, NEW f \in Frames \cup {None}, Start(c, f),
             pc'[c] # "idle",
             \A d \in Calls \ {c} : pc'[d] = pc[d]
      PROVE  NestInv'
  <2>1. pc[c] = "idle" /\ parent' = [parent EXCEPT ![c] = f]
    BY <1>2 DEF Start
  <2>2. \A d \in Calls : parent[d] # c
    BY <2>1 DEF NestInv
  <2>3. f \in Calls => pc[f] # "idle"
    <3>1. f # None => InUserCode(f)
      BY <1>2 DEF Start
    <3>2. QED
      BY <3>1, NoneAssumption, CallsAssumption DEF InUserCode
  <2>4. f # c
    BY <2>1, <2>3
  <2>5. IsForest(parent', Calls)
    <3>1. IsForest(parent, Calls)
      BY DEF NestInv
    <3>2. IsForest([parent EXCEPT ![c] = f], Calls)
      BY <1>0, <2>2, <2>4, <3>1, ForestStart
    <3>3. QED
      BY <2>1, <3>2
  <2>6. \A d \in Calls : parent'[d] # None => d \in Nested /\ pc'[d] # "idle"
    BY <1>0, <1>2, <2>1 DEF NestInv, Start
  <2>7. \A d \in Calls : parent'[d] \in Calls => pc'[parent'[d]] # "idle"
    <3>1. \A e \in Calls : pc[e] # "idle" => pc'[e] # "idle"
      BY <1>2
    <3>2. \A d \in Calls : parent'[d] = IF d = c THEN f ELSE parent[d]
      BY <1>0, <2>1
    <3>3. QED
      BY <2>3, <3>1, <3>2 DEF NestInv
  <2>8. QED
    BY <2>5, <2>6, <2>7 DEF NestInv
<1>3. QED
  BY <1>1, <1>2, StartOrNot

-----------------------------------------------------------------------------

\* Who waits where: a range loop has the read lock or queues for it behind a
\* writer; only a closed stopCh makes a Shutdown wait and a worker end.
WaitInv ==
    /\ \A p \in Publishes : pc[p] = "range" => p \in readers \cup queued
    /\ queued # {} => writers # {}
    /\ \A c \in Calls :
          /\ pc[c] \in {"range", "send", "handler"} => c \in Publishes
          /\ pc[c] = "lock" => c \in Subscribes \cup Unsubscribes
          /\ pc[c] = "wait" => c \in Shutdowns /\ stopCh
    /\ exited # {} => stopCh

\* Nobody waits initially.
LEMMA WaitInit == Init => WaitInv
  BY DEF Init, WaitInv, Mu!MuInit, Pool!PoolInit, Calls

\* Every step keeps it.
LEMMA WaitStep == TypeInv /\ LockInv /\ WaitInv /\ [Next]_vars => WaitInv'
<1> SUFFICES ASSUME TypeInv, LockInv, WaitInv, [Next]_vars PROVE WaitInv'
  OBVIOUS
<1>0. /\ pc \in [Calls -> {"idle", "range", "send", "handler", "lock", "wait"} \cup Ended]
      /\ readers \subseteq Publishes /\ queued \subseteq Publishes
      /\ writers \subseteq Subscribes \cup Unsubscribes
      /\ Publishes \subseteq Calls /\ Subscribes \subseteq Calls
      /\ Unsubscribes \subseteq Calls /\ Shutdowns \subseteq Calls
  BY DEF TypeInv, TypeOK, Calls
<1> USE <1>0, CallsAssumption DEF WaitInv, Goto, Ended
<1>1. ASSUME NEW f \in Frames \cup {None}, NEW p \in Publishes, PublishCall(p, f)
      PROVE  WaitInv'
  BY <1>1 DEF PublishCall, Mu!RLock
<1>2. ASSUME NEW f \in Frames \cup {None}, NEW s \in Subscribes, SubscribeCall(s, f)
      PROVE  WaitInv'
  BY <1>2 DEF SubscribeCall
<1>3. ASSUME NEW f \in Frames \cup {None}, NEW u \in Unsubscribes, NEW s \in Subscribes,
             UnsubscribeCall(u, s, f)
      PROVE  WaitInv'
  BY <1>3 DEF UnsubscribeCall
<1>4. ASSUME NEW f \in Frames \cup {None}, NEW d \in Shutdowns, ShutdownCall(d, f)
      PROVE  WaitInv'
  BY <1>4 DEF ShutdownCall, Pool!CloseStop
<1>5. ASSUME NEW p \in Publishes, PublishStep(p)
      PROVE  WaitInv'
  <2>1. ASSUME NEW s \in Subscribes, Visit(p, s) PROVE WaitInv'
    BY <2>1 DEF Visit
  <2>2. CASE Enqueue(p)
    BY <2>2 DEF Enqueue, Pool!enqueue, LockInv
  <2>3. ASSUME NEW err \in BOOLEAN, HandlerReturn(p, err) PROVE WaitInv'
    BY <2>3 DEF HandlerReturn, LockInv
  <2>4. CASE HandlerPanic(p)
    BY <2>4 DEF HandlerPanic, Mu!RUnlock
  <2>5. CASE PublishReturn(p)
    BY <2>5 DEF PublishReturn, Mu!RUnlock
  <2>6. QED
    BY <1>5, <2>1, <2>2, <2>3, <2>4, <2>5 DEF PublishStep
<1>6. ASSUME NEW c \in Subscribes \cup Unsubscribes, LockAnnounce(c)
      PROVE  WaitInv'
  BY <1>6 DEF LockAnnounce, Mu!Announce
<1>7. ASSUME NEW s \in Subscribes, Register(s)
      PROVE  WaitInv'
  BY <1>7 DEF Register, Mu!Unlock
<1>p. ASSUME NEW s \in Subscribes, RegisterPanics(s)
      PROVE  WaitInv'
  BY <1>p DEF RegisterPanics, Mu!Unlock
<1>8. ASSUME NEW u \in Unsubscribes, Delete(u)
      PROVE  WaitInv'
  BY <1>8 DEF Delete, Mu!Unlock
<1>9. ASSUME NEW d \in Shutdowns, ShutdownReturn(d)
      PROVE  WaitInv'
  BY <1>9 DEF ShutdownReturn
<1>10. ASSUME NEW w \in Workers, WorkerStep(w)
       PROVE  WaitInv'
  BY <1>10 DEF WorkerStep, WorkerTake, Pool!TakeTask, WorkerReturn, Pool!FinishTask,
     WorkerPanic, WorkerExit, Pool!Exit
<1>11. CASE UNCHANGED vars
  BY <1>11
<1>12. QED
  BY <1>p, <1>1, <1>2, <1>3, <1>4, <1>5, <1>6, <1>7, <1>8, <1>9, <1>10, <1>11
     DEF Next, Call, Progress, SubscribeStep, UnsubscribeStep

-----------------------------------------------------------------------------

\* When nothing moves and no nested call waits, none is under way: the innermost
\* one would be in a range loop or in a handler, and could go on.
LEMMA NoneInside ==
    ASSUME TypeInv, NestInv, WaitInv, ~CanMove,
           \A c \in Calls : ~ReentryWaits(c)
    PROVE  \A c \in Calls : parent[c] # None => pc[c] \in Ended
<1> DEFINE V == {c \in Calls : parent[c] # None /\ pc[c] \notin Ended}
<1> SUFFICES ASSUME V # {} PROVE FALSE
  OBVIOUS
<1>1. PICK c \in V : \A d \in V : parent[d] # c
  <2>1. V \subseteq Calls /\ IsForest(parent, Calls)
    BY DEF NestInv
  <2> HIDE DEF V
  <2>2. QED
    BY <2>1, InnermostCall
<1>2. /\ c \in Calls /\ parent[c] # None /\ pc[c] \notin Ended
      /\ pc[c] \notin {"idle", "lock", "send", "wait"} /\ c \notin queued
  BY DEF NestInv, ReentryWaits
<1>3. pc[c] \in {"range", "handler"} /\ c \in Publishes
  <2>1. pc[c] \in {"range", "handler"}
    BY <1>2 DEF TypeInv, TypeOK
  <2>2. QED
    BY <1>2, <2>1 DEF WaitInv
<1>4. pc[c] # "range"
  BY <1>2, <1>3 DEF WaitInv, CanMove, AtRange
<1>5. Busy(c)
  BY <1>3, <1>4 DEF CanMove
<1>6. PICK d \in Nested : parent[d] = c /\ pc[d] \notin Ended
  BY <1>5 DEF Busy
<1>7. d \in V
  BY <1>2, <1>6, CallsAssumption, NoneAssumption
<1>8. QED
  BY <1>1, <1>6, <1>7

\* When nothing moves and no user code waits for a call of its own, the lock
\* has no reader inside and nobody wants it.
LEMMA LockIsFree ==
    ASSUME TypeInv, LockInv, WaitInv, ~CanMove,
           \A f \in Frames : ~Busy(f),
           \A p \in Publishes : pc[p] # "send"
    PROVE  \A c \in Calls : pc[c] \notin {"range", "lock"}
<1>1. readers = {}
  <2> SUFFICES ASSUME NEW p \in readers PROVE FALSE
    OBVIOUS
  <2>1. p \in Publishes /\ pc[p] \in {"range", "handler"}
    BY DEF TypeInv, TypeOK, LockInv, LockHeldByActiveCalls, InLoop
  <2>2. p \in Frames
    BY <2>1 DEF Frames
  <2>3. QED
    BY <2>1, <2>2 DEF CanMove, AtRange
<1>2. \A u \in Unsubscribes : ~Busy(u)
  <2> SUFFICES ASSUME NEW u \in Unsubscribes, Busy(u) PROVE FALSE
    OBVIOUS
  <2>1. PICK d \in Nested : parent[d] = u
    BY DEF Busy
  <2>2. u \in Frames \cup {None}
    BY <2>1, CallsAssumption DEF TypeInv, TypeOK
  <2>3. QED
    BY <2>2, CallsAssumption, NoneAssumption DEF Frames, Calls
<1>3. \A c \in writers : FALSE
  <2> SUFFICES ASSUME NEW c \in writers PROVE FALSE
    OBVIOUS
  <2>1. c \in Subscribes \cup Unsubscribes /\ pc[c] = "lock"
    BY DEF TypeInv, TypeOK, LockInv, LockHeldByActiveCalls
  <2>2. Mu!Holds(c)
    BY <1>1 DEF Mu!Holds
  <2>3. ~Busy(c)
    BY <1>2, <2>1 DEF Frames
  <2>4. QED
    BY <2>1, <2>2, <2>3 DEF CanMove
<1>4. writers = {} /\ queued = {}
  BY <1>3 DEF WaitInv
<1>5. QED
  BY <1>1, <1>4 DEF WaitInv, CanMove

\* What a stuck provider looks like.
LEMMA StuckProvider ==
    ASSUME TypeInv, LockInv, NestInv, WaitInv
    PROVE  HangsOnlyByReentryOrStop
<1> SUFFICES ASSUME ~CanMove,
                    \A c \in Calls : ~ReentryWaits(c),
                    ~(stopCh /\ Pool!QueueFull /\ \E p \in Publishes : pc[p] = "send")
             PROVE  \A c \in Calls : AtRest(c)
  BY DEF HangsOnlyByReentryOrStop
<1>1. \A f \in Frames : ~Busy(f)
  <2> SUFFICES ASSUME NEW f \in Frames, Busy(f) PROVE FALSE
    OBVIOUS
  <2>1. PICK c \in Nested : parent[c] = f /\ pc[c] \notin Ended
    BY DEF Busy
  <2>2. c \in Calls /\ f # None
    BY CallsAssumption, NoneAssumption DEF Frames, Calls
  <2>3. QED
    BY <2>1, <2>2, NoneInside
<1>2. /\ \A p \in Publishes : pc[p] # "handler"
      /\ \A w \in Workers : running[w] = None
  BY <1>1 DEF CanMove, Frames
<1>3. \A w \in Workers : w \notin exited => tasks = <<>> /\ ~stopCh
  BY <1>2 DEF CanMove, Pool!Idle
<1>4. \A p \in Publishes : pc[p] # "send"
  <2> SUFFICES ASSUME NEW p \in Publishes, pc[p] = "send" PROVE FALSE
    OBVIOUS
  <2>1. Pool!QueueFull
    BY DEF CanMove
  <2>2. tasks # <<>>
    BY <2>1, PoolAssumption DEF Pool!QueueFull
  <2>3. PICK w \in Workers : w \in exited
    BY <1>3, <2>2, PoolAssumption
  <2>4. stopCh
    BY <2>3 DEF WaitInv
  <2>5. QED
    BY <2>1, <2>4
<1>5. \A c \in Calls : pc[c] \notin {"range", "lock"}
  BY <1>1, <1>4, LockIsFree
<1>6. \A c \in Calls : pc[c] # "wait"
  <2> SUFFICES ASSUME NEW c \in Calls, pc[c] = "wait" PROVE FALSE
    OBVIOUS
  <2>1. c \in Shutdowns /\ stopCh
    BY DEF WaitInv
  <2>2. exited = Workers
    BY <1>3, <2>1 DEF TypeInv, TypeOK
  <2>3. QED
    BY <2>1, <2>2 DEF CanMove, Pool!AllExited
<1>7. \A c \in Calls : pc[c] \notin {"send", "handler"}
  BY <1>2, <1>4 DEF WaitInv
<1>8. QED
  BY <1>5, <1>6, <1>7 DEF TypeInv, TypeOK, AtRest

\* The provider hangs only when user code that runs inside it called back and
\* waits, or when a Publish waits on the full queue of stopped workers: for any
\* number of calls and workers, any capacity and any depth of the nesting.
THEOREM HangsExplained == Spec => []HangsOnlyByReentryOrStop
<1>1. TypeInv /\ LockInv /\ NestInv /\ WaitInv => HangsOnlyByReentryOrStop
  BY StuckProvider
<1>2. QED
  BY <1>1, TypeInit, TypeStep, LockInit, LockStep, NestInit, NestStep, WaitInit, WaitStep,
     PTL DEF Spec

\* Without calls from handlers, a provider that runs never gets stuck.
NeverStuck == (\A c \in Calls : AtRest(c)) \/ CanMove \/ crashed \/ stopCh

\* Calls made from outside the handlers never deadlock a provider that has not
\* been shut down, however many there are and however small the queue.
THEOREM NoDeadlock ==
    ASSUME Nested = {}
    PROVE  Spec => []NeverStuck
<1>1. NestInv /\ HangsOnlyByReentryOrStop => NeverStuck
  BY DEF NestInv, HangsOnlyByReentryOrStop, ReentryWaits, NeverStuck
<1>2. Spec => []NestInv
  BY TypeInit, TypeStep, NestInit, NestStep, PTL DEF Spec
<1>3. QED
  BY <1>1, <1>2, HangsExplained, PTL

-----------------------------------------------------------------------------
(* What can move.                                                          *)

\* Half of WaitsForNothingElse: no action of the provider or of a worker is taken
\* in a state in which CanMove says that everything waits.
LEMMA ProgressMoves == TypeInv /\ Progress => CanMove
<1> SUFFICES ASSUME TypeInv, Progress PROVE CanMove
  OBVIOUS
<1>1. ASSUME NEW p \in Publishes, PublishStep(p)
      PROVE  CanMove
  BY <1>1 DEF CanMove, PublishStep, Visit, Enqueue, HandlerReturn, HandlerPanic, PublishReturn,
              Pool!enqueue
<1>2. ASSUME NEW c \in Subscribes \cup Unsubscribes, LockAnnounce(c)
      PROVE  CanMove
  BY <1>2 DEF CanMove, LockAnnounce, Mu!Announce
<1>3. ASSUME NEW s \in Subscribes, Register(s) \/ RegisterPanics(s)
      PROVE  CanMove
  BY <1>3 DEF CanMove, Register, RegisterPanics
<1>4. ASSUME NEW u \in Unsubscribes, Delete(u)
      PROVE  CanMove
  <2>1. \A c \in Calls : parent[c] \in Frames \cup {None}
    BY DEF TypeInv, TypeOK
  <2>2. u \notin Frames \cup {None}
    BY CallsAssumption, NoneAssumption DEF Frames, Calls
  <2>3. ~Busy(u)
    BY <2>1, <2>2, CallsAssumption DEF Busy
  <2>4. QED
    BY <1>4, <2>3 DEF CanMove, Delete
<1>5. ASSUME NEW d \in Shutdowns, ShutdownReturn(d)
      PROVE  CanMove
  BY <1>5 DEF CanMove, ShutdownReturn
<1>6. ASSUME NEW w \in Workers, WorkerStep(w)
      PROVE  CanMove
  BY <1>6 DEF CanMove, WorkerStep, WorkerTake, WorkerReturn, WorkerPanic, WorkerExit,
              Pool!TakeTask, Pool!FinishTask, Pool!Exit
<1>7. QED
  BY <1>1, <1>2, <1>3, <1>4, <1>5, <1>6 DEF Progress, SubscribeStep, UnsubscribeStep

\* The provider and its workers take a step of their own only when CanMove says that
\* something can move: what HangsExplained calls stuck is stuck.
THEOREM MovesAsNamed == Spec => [][Progress => CanMove]_vars
  BY TypeInit, TypeStep, ProgressMoves, PTL DEF Spec

=============================================================================
