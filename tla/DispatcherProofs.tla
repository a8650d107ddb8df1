--------------------------- MODULE DispatcherProofs ---------------------------
(***************************************************************************)
(* Theorems about the provider of a dispatcher, for any number of calls,   *)
(* nested or not.                                                          *)
(***************************************************************************)
EXTENDS Dispatcher, CallForest, TLAPS

USE DEF vars, muVars

\* What is handed out is the handler in place, which never changes once it is
\* set; a Register that has returned left one in place.
HandlerInv ==
    /\ \A c \in Calls : result[c] \in Registers => result[c] = handler
    /\ \A r \in Registers : pc[r] = "done" => handler # None
    /\ \A c \in Dispatches : before[c] # {} => handler # None
    /\ \A c \in Dispatches : result[c] = Error => before[c] = {}
    /\ \A c \in Calls : pc[c] \in {"idle", "enter", "lock"} => result[c] = None

Inv == TypeOK /\ LockHeldByActiveCalls /\ HandlerInv

\* The invariant holds initially.
LEMMA InvInit == Init => Inv
  BY DispatcherAssumption
     DEF Init, Inv, TypeOK, LockHeldByActiveCalls, HandlerInv, Calls, Ended, Mu!MuInit

\* Every step keeps it.
LEMMA InvStep == Inv /\ [Next]_vars => Inv'
<1> SUFFICES ASSUME Inv, [Next]_vars PROVE Inv'
  OBVIOUS
<1> USE DispatcherAssumption
    DEF Inv, TypeOK, LockHeldByActiveCalls, HandlerInv, Calls, Ended, Goto
<1>1. ASSUME NEW f \in Dispatches \cup {None}, NEW c \in Dispatches, DispatchCall(c, f)
      PROVE Inv'
  <2>1. TypeOK'
    BY <1>1 DEF DispatchCall, Start, Mu!RLock
  <2>2. LockHeldByActiveCalls'
    BY <1>1 DEF DispatchCall, Start, Mu!RLock
  <2>3. HandlerInv'
    BY <1>1 DEF DispatchCall, Start
  <2>4. QED
    BY <2>1, <2>2, <2>3
<1>2. ASSUME NEW f \in Dispatches \cup {None}, NEW r \in Registers, RegisterCall(r, f)
      PROVE Inv'
  BY <1>2 DEF RegisterCall, Start
<1>3. ASSUME NEW c \in Dispatches, NoHandler(c)
      PROVE Inv'
  <2>1. TypeOK'
    BY <1>3 DEF NoHandler, Mu!RUnlock
  <2>2. LockHeldByActiveCalls'
    BY <1>3 DEF NoHandler, Mu!RUnlock
  <2>3. HandlerInv'
    BY <1>3 DEF NoHandler
  <2>4. QED
    BY <2>1, <2>2, <2>3
<1>4. ASSUME NEW c \in Dispatches, CallHandler(c)
      PROVE Inv'
  BY <1>4 DEF CallHandler
<1>5. ASSUME NEW c \in Dispatches, HandlerReturn(c)
      PROVE Inv'
  <2>1. TypeOK'
    BY <1>5 DEF HandlerReturn, Mu!RUnlock
  <2>2. LockHeldByActiveCalls'
    BY <1>5 DEF HandlerReturn, Mu!RUnlock
  <2>3. HandlerInv'
    BY <1>5 DEF HandlerReturn
  <2>4. QED
    BY <2>1, <2>2, <2>3
<1>6. ASSUME NEW c \in Dispatches, HandlerPanic(c)
      PROVE Inv'
  <2>1. TypeOK'
    BY <1>6 DEF HandlerPanic, Mu!RUnlock
  <2>2. LockHeldByActiveCalls'
    BY <1>6 DEF HandlerPanic, Mu!RUnlock
  <2>3. HandlerInv'
    BY <1>6 DEF HandlerPanic
  <2>4. QED
    BY <2>1, <2>2, <2>3
<1>7. ASSUME NEW r \in Registers, LockAnnounce(r)
      PROVE Inv'
  BY <1>7 DEF LockAnnounce, Mu!Announce
<1>8. ASSUME NEW r \in Registers, Store(r)
      PROVE Inv'
  <2>1. TypeOK'
    BY <1>8 DEF Store, Mu!Holds, Mu!Unlock
  <2>2. LockHeldByActiveCalls'
    BY <1>8 DEF Store, Mu!Holds, Mu!Unlock
  <2>3. HandlerInv'
    BY <1>8 DEF Store
  <2>4. QED
    BY <2>1, <2>2, <2>3
<1>9. CASE UNCHANGED vars
  BY <1>9
<1>10. QED
  BY <1>1, <1>2, <1>3, <1>4, <1>5, <1>6, <1>7, <1>8, <1>9
     DEF Next, Call, Progress, DispatchStep, RegisterStep

\* The variables keep their types; what a Dispatch calls is a handler.
THEOREM TypeCorrect == Spec => []TypeOK
<1>1. Inv => TypeOK
  BY DEF Inv
<1>2. QED
  BY <1>1, InvInit, InvStep, PTL DEF Spec

\* However many Registers race, one at most succeeds, and every Dispatch that
\* is answered is answered by its handler.
THEOREM ExactlyOneHandler == Spec => []OneHandler
<1>1. Inv => OneHandler
  BY DEF Inv, HandlerInv, OneHandler
<1>2. QED
  BY <1>1, InvInit, InvStep, PTL DEF Spec

\* A Dispatch that begins after some Register has returned finds a handler.
THEOREM HandlerFound == Spec => []RegisteredIsFound
<1>1. Inv => RegisteredIsFound
  BY DEF Inv, HandlerInv, RegisteredIsFound
<1>2. QED
  BY <1>1, InvInit, InvStep, PTL DEF Spec

\* Handlers run under the read lock, and a call that is over has left it.
THEOREM DispatcherLock == Spec => []LockHeldByActiveCalls
<1>1. Inv => LockHeldByActiveCalls
  BY DEF Inv
<1>2. QED
  BY <1>1, InvInit, InvStep, PTL DEF Spec

-----------------------------------------------------------------------------
(* The slot.                                                               *)

\* Nothing was called and the slot is empty initially.
LEMMA SlotInit == Init => Promise!Init
  BY DEF Init, Promise!Init, Promise!Calls, Calls

\* Every step starts a call, takes effect, or changes nothing a caller sees.
LEMMA SlotStep == Inv /\ [Next]_vars => [Promise!Next]_(Promise!vars)
<1> SUFFICES ASSUME Inv, [Next]_vars PROVE [Promise!Next]_(Promise!vars)
  OBVIOUS
<1>0. /\ pc \in [Calls -> {"idle", "enter", "handler", "lock"} \cup Ended]
      /\ result \in [Calls -> Registers \cup {None, Error}]
      /\ Dispatches \subseteq Calls /\ Registers \subseteq Calls
      /\ \A c \in Calls : pc[c] \in {"idle", "enter", "lock"} => result[c] = None
  BY DEF Inv, TypeOK, HandlerInv, Calls
<1> DEFINE called == {c \in Calls : pc[c] # "idle"}
<1>a. ASSUME NEW c \in Calls, pc[c] = "idle", NEW l \in {"enter", "lock"}, Goto(c, l),
             UNCHANGED <<handler, result>>
      PROVE  Promise!Next
  <2>1. c \notin called /\ called' = called \cup {c}
    BY <1>0, <1>a DEF Goto
  <2>2. Promise!Call(c)
    BY <1>a, <2>1 DEF Promise!Call
  <2>3. QED
    BY <2>2 DEF Promise!Next, Promise!Calls, Calls
<1>b. ASSUME NEW c \in Calls, pc[c] # "idle", NEW l \in {"handler", "done", "panicked"}, Goto(c, l)
      PROVE  c \in called /\ called' = called
  BY <1>0, <1>b DEF Goto
<1>1. ASSUME NEW f \in Dispatches \cup {None}, NEW c \in Dispatches, DispatchCall(c, f)
      PROVE  Promise!Next
  BY <1>0, <1>1, <1>a DEF DispatchCall, Start
<1>2. ASSUME NEW f \in Dispatches \cup {None}, NEW r \in Registers, RegisterCall(r, f)
      PROVE  Promise!Next
  BY <1>0, <1>2, <1>a DEF RegisterCall, Start
<1>3. ASSUME NEW c \in Dispatches, NoHandler(c) \/ CallHandler(c)
      PROVE  Promise!Next
  <2>1. /\ pc[c] = "enter" /\ (Goto(c, "done") \/ Goto(c, "handler"))
        /\ UNCHANGED handler
        /\ result' = [result EXCEPT ![c] = IF handler = None THEN Error ELSE handler]
    BY <1>3 DEF NoHandler, CallHandler
  <2>2. c \in called /\ called' = called /\ result[c] = None
    BY <1>0, <1>b, <2>1
  <2>3. Promise!Dispatch(c)
    BY <2>1, <2>2 DEF Promise!Dispatch, Promise!Answer
  <2>4. QED
    BY <2>3 DEF Promise!Next
<1>4. ASSUME NEW c \in Dispatches, HandlerReturn(c) \/ HandlerPanic(c)
      PROVE  UNCHANGED Promise!vars
  <2>1. /\ pc[c] = "handler" /\ (Goto(c, "done") \/ Goto(c, "panicked"))
        /\ UNCHANGED <<handler, result>>
    BY <1>4 DEF HandlerReturn, HandlerPanic
  <2>2. called' = called
    BY <1>0, <1>b, <2>1
  <2>3. QED
    BY <2>1, <2>2 DEF Promise!vars
<1>5. ASSUME NEW r \in Registers, LockAnnounce(r)
      PROVE  UNCHANGED Promise!vars
  BY <1>5 DEF LockAnnounce, Promise!vars
<1>6. ASSUME NEW r \in Registers, Store(r)
      PROVE  Promise!Next
  <2>1. /\ pc[r] = "lock" /\ Goto(r, "done")
        /\ handler' = IF handler = None THEN r ELSE handler
        /\ result' = [result EXCEPT ![r] = IF handler = None THEN r ELSE Error]
    BY <1>6 DEF Store
  <2>2. r \in called /\ called' = called /\ result[r] = None
    BY <1>0, <1>b, <2>1
  <2>3. Promise!Fill(r) \/ Promise!Refuse(r)
    BY <2>1, <2>2 DEF Promise!Fill, Promise!Refuse, Promise!Answer
  <2>4. QED
    BY <2>3 DEF Promise!Next
<1>7. CASE UNCHANGED vars
  BY <1>7 DEF Promise!vars
<1>8. QED
  BY <1>1, <1>2, <1>3, <1>4, <1>5, <1>6, <1>7
     DEF Next, Call, Progress, DispatchStep, RegisterStep

\* The provider is an atomic slot, for any number of racing and nested calls.
THEOREM Implements == Spec => FillsOneSlot
<1>1. Init => Promise!Init
  BY SlotInit
<1>2. Inv /\ [Next]_vars => [Promise!Next]_(Promise!vars)
  BY SlotStep
<1>3. QED
  BY <1>1, <1>2, InvInit, InvStep, PTL DEF Spec, FillsOneSlot, Promise!Spec

-----------------------------------------------------------------------------
(* Hangs.                                                                  *)

\* Calls nest without cycles, and only calls that have started take part; a
\* Dispatch that waits for the read lock is in the queue behind a Register.
NestInv ==
    /\ IsForest(parent, Calls)
    /\ \A c \in Calls : parent[c] # None => pc[c] # "idle"
    /\ \A c \in Calls : parent[c] \in Calls => pc[parent[c]] # "idle"
    /\ \A c \in Calls :
          /\ pc[c] \in {"enter", "handler"} => c \in Dispatches
          /\ pc[c] = "lock" => c \in Registers
          /\ pc[c] = "enter" => c \in readers \cup queued
    /\ queued # {} => writers # {}

\* Initially no call is made in another one.
LEMMA NestInit == Init => NestInv
<1> SUFFICES ASSUME Init PROVE NestInv
  OBVIOUS
<1>1. \A c \in Calls : parent[c] = None /\ pc[c] = "idle"
  BY DEF Init
<1>2. IsForest(parent, Calls)
  BY <1>1, DispatcherAssumption, ForestInit
<1>3. queued = {}
  BY DEF Init, Mu!MuInit
<1>4. QED
  BY <1>1, <1>2, <1>3, DispatcherAssumption DEF NestInv

\* A call starts where user code runs, and has none inside.
LEMMA NestStart ==
    ASSUME Inv, NestInv,
           NEW c \in Calls, NEW f \in Dispatches \cup {None}, Start(c, f),
           pc' = [pc EXCEPT ![c] = IF c \in Dispatches THEN "enter" ELSE "lock"]
    PROVE  /\ IsForest(parent', Calls)
           /\ \A d \in Calls : parent'[d] # None => pc'[d] # "idle"
           /\ \A d \in Calls : parent'[d] \in Calls => pc'[parent'[d]] # "idle"
<1>0. /\ parent \in [Calls -> Dispatches \cup {None}]
      /\ \A d \in Calls : pc'[d] = IF d = c THEN IF c \in Dispatches THEN "enter" ELSE "lock"
                                           ELSE pc[d]
  BY DEF Inv, TypeOK
<1>1. pc[c] = "idle" /\ parent' = [parent EXCEPT ![c] = f]
  BY DEF Start
<1>2. \A d \in Calls : parent[d] # c
  BY <1>1 DEF NestInv
<1>3. f \in Calls => pc[f] = "handler"
  BY DispatcherAssumption DEF Start
<1>4. IsForest([parent EXCEPT ![c] = f], Calls)
  <2>1. f # c /\ IsForest(parent, Calls)
    BY <1>1, <1>3 DEF NestInv
  <2>2. QED
    BY <1>0, <1>2, <2>1, ForestStart
<1>5. \A d \in Calls : parent'[d] = IF d = c THEN f ELSE parent[d]
  BY <1>0, <1>1
<1>6. QED
  BY <1>0, <1>1, <1>3, <1>4, <1>5 DEF NestInv

\* Every step keeps it.
LEMMA NestStep == Inv /\ NestInv /\ [Next]_vars => NestInv'
<1> SUFFICES ASSUME Inv, NestInv, [Next]_vars PROVE NestInv'
  OBVIOUS
<1>0. /\ pc \in [Calls -> {"idle", "enter", "handler", "lock"} \cup Ended]
      /\ readers \subseteq Dispatches /\ queued \subseteq Dispatches
      /\ Dispatches \subseteq Calls /\ Registers \subseteq Calls
      /\ Dispatches \cap Registers = {}
  BY DispatcherAssumption DEF Inv, TypeOK, Calls
<1>1. ASSUME NEW f \in Dispatches \cup {None}, NEW c \in Dispatches, DispatchCall(c, f)
      PROVE  NestInv'
  <2>1. Start(c, f) /\ pc' = [pc EXCEPT ![c] = IF c \in Dispatches THEN "enter" ELSE "lock"]
    BY <1>1 DEF DispatchCall, Goto
  <2>2. /\ c \in readers' \cup queued' /\ readers \subseteq readers' /\ queued \subseteq queued'
        /\ writers' = writers
        /\ queued' # {} => queued # {} \/ writers # {}
    BY <1>1 DEF DispatchCall, Mu!RLock
  <2>3. QED
    BY <1>0, <2>1, <2>2, NestStart DEF NestInv
<1>2. ASSUME NEW f \in Dispatches \cup {None}, NEW r \in Registers, RegisterCall(r, f)
      PROVE  NestInv'
  <2>1. Start(r, f) /\ pc' = [pc EXCEPT ![r] = IF r \in Dispatches THEN "enter" ELSE "lock"]
    BY <1>0, <1>2 DEF RegisterCall, Goto
  <2>2. UNCHANGED muVars
    BY <1>2 DEF RegisterCall
  <2>3. QED
    BY <1>0, <2>1, <2>2, NestStart DEF NestInv
<1>3. ASSUME NEW c \in Dispatches, DispatchStep(c)
      PROVE  NestInv'
  BY <1>0, <1>3
     DEF NestInv, Ended, DispatchStep, NoHandler, CallHandler, HandlerReturn, HandlerPanic, Goto,
     Mu!RUnlock
<1>4. ASSUME NEW r \in Registers, RegisterStep(r)
      PROVE  NestInv'
  BY <1>0, <1>4
     DEF NestInv, Ended, RegisterStep, LockAnnounce, Store, Goto, Mu!Announce, Mu!Unlock
<1>5. CASE UNCHANGED vars
  BY <1>5 DEF NestInv
<1>6. QED
  BY <1>1, <1>2, <1>3, <1>4, <1>5 DEF Next, Call, Progress

\* What a stuck dispatcher looks like: the innermost call under way waits.
LEMMA StuckDispatcher ==
    ASSUME Inv, NestInv
    PROVE  HangsOnlyByReentry
<1> DEFINE V == {c \in Calls : pc[c] \notin {"idle"} \cup Ended}
<1> SUFFICES ASSUME ~CanMove, V # {}
             PROVE  /\ writers # {}
                    /\ \E d \in Calls : parent[d] # None /\ (pc[d] = "lock" \/ d \in queued)
  BY DEF HangsOnlyByReentry, AtRest
<1>0. /\ pc \in [Calls -> {"idle", "enter", "handler", "lock"} \cup Ended]
      /\ Dispatches \subseteq Calls /\ Registers \subseteq Calls
      /\ readers \subseteq Dispatches /\ writers \subseteq Registers
  BY DEF Inv, TypeOK, Calls
<1>1. \A c \in Calls : pc[c] = "enter" => c \in queued
  BY DEF NestInv, CanMove
<1>2. \A c \in Calls : pc[c] = "lock" => writers # {}
  BY DEF NestInv, CanMove
<1>3. \A c \in Calls : pc[c] = "handler" => Busy(c)
  BY DEF NestInv, CanMove
<1>4. \A c \in Calls : Busy(c) => \E d \in V : parent[d] = c
  BY DispatcherAssumption DEF Busy, NestInv
<1>5. \E c \in V : pc[c] # "handler"
  <2>1. PICK c \in V : \A d \in V : parent[d] # c
    <3>1. V \subseteq Calls /\ IsForest(parent, Calls)
      BY DEF NestInv
    <3> HIDE DEF V
    <3>2. QED
      BY <3>1, InnermostCall
  <2>2. QED
    BY <1>3, <1>4, <2>1
<1>6. writers # {}
  BY <1>0, <1>1, <1>2, <1>5 DEF NestInv
<1>7. PICK r \in writers : TRUE
  BY <1>6
<1>8. PICK c \in readers : TRUE
  <2>1. pc[r] = "lock" /\ r \in Registers
    BY <1>0 DEF Inv, LockHeldByActiveCalls
  <2>2. ~Mu!Holds(r)
    BY <2>1 DEF CanMove
  <2>3. QED
    BY <2>2 DEF Mu!Holds
<1>9. c \in Calls /\ pc[c] = "handler"
  BY <1>0, <1>1 DEF Inv, LockHeldByActiveCalls
<1>10. PICK d \in V : parent[d] # None /\ pc[d] # "handler"
  <2> DEFINE W == {d \in V : parent[d] # None}
  <2>1. W # {}
    BY <1>3, <1>4, <1>9, DispatcherAssumption
  <2>2. PICK d \in W : \A e \in W : parent[e] # d
    <3>1. W \subseteq Calls /\ IsForest(parent, Calls)
      BY DEF NestInv
    <3> HIDE DEF W
    <3>2. QED
      BY <2>1, <3>1, InnermostCall
  <2>3. pc[d] # "handler"
    BY <1>3, <1>4, <2>2, DispatcherAssumption
  <2>4. QED
    BY <2>2, <2>3
<1>11. pc[d] = "lock" \/ d \in queued
  BY <1>0, <1>1, <1>10
<1>12. QED
  BY <1>6, <1>10, <1>11

\* A dispatcher hangs only when a handler calls back while a Register wants the
\* lock, for any number of calls and any depth of the nesting.
THEOREM HangsExplained == Spec => []HangsOnlyByReentry
<1>1. Inv /\ NestInv => HangsOnlyByReentry
  BY StuckDispatcher
<1>2. QED
  BY <1>1, InvInit, InvStep, NestInit, NestStep, PTL DEF Spec

\* Half of WaitsForNothingElse: no action of the dispatcher is taken in a state
\* in which CanMove says that everything waits.
LEMMA ProgressMoves == Inv /\ Progress => CanMove
<1> SUFFICES ASSUME Inv, Progress PROVE CanMove
  OBVIOUS
<1>1. ASSUME NEW c \in Dispatches, DispatchStep(c)
      PROVE  CanMove
  BY <1>1 DEF CanMove, DispatchStep, NoHandler, CallHandler, HandlerReturn, HandlerPanic
<1>2. ASSUME NEW r \in Registers, RegisterStep(r)
      PROVE  CanMove
  BY <1>2 DEF CanMove, RegisterStep, LockAnnounce, Store, Mu!Announce
<1>3. QED
  BY <1>1, <1>2 DEF Progress

\* The dispatcher takes a step of its own only when CanMove says that something
\* can move: what HangsExplained calls stuck is stuck.
THEOREM MovesAsNamed == Spec => [][Progress => CanMove]_vars
  BY InvInit, InvStep, ProgressMoves, PTL DEF Spec

=============================================================================
