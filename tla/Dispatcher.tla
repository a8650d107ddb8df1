------------------------------ MODULE Dispatcher ------------------------------
(***************************************************************************)
(* bus/command/provider.go (bus/query/provider.go is the same code): the   *)
(* in-process provider of a dispatcher, which has at most one handler and  *)
(* runs it under the read lock of the provider.                            *)
(*                                                                         *)
(* Every call is an identifier that is made at most once; a handler is     *)
(* named by the Register call that brings it.  The calls in Nested may     *)
(* also be made by a handler that runs for a Dispatch.                     *)
(***************************************************************************)
EXTENDS Naturals, FiniteSets

CONSTANTS
    Dispatches, Registers,
    Nested,         \* the calls that a handler may make
    Panicking,      \* the Registers whose handler may panic
    None, Error

Calls == Dispatches \cup Registers

ASSUME DispatcherAssumption ==
    /\ Dispatches \cap Registers = {}
    /\ Nested \subseteq Calls
    /\ Panicking \subseteq Registers
    /\ None \notin Calls
    /\ Error \notin Calls \cup {None}

VARIABLES
    pc,         \* where each call is
    parent,     \* the Dispatch whose handler made the call, if any
    handler,    \* p.handler: nil (None) or the Register that brought it
    result,     \* Dispatch: the handler that answered, or Error;
                \* Register: itself when it was stored, or Error
    before,     \* history: the Registers that had returned when a Dispatch began
    readers, queued, writers    \* p.mu

Mu == INSTANCE GoRWMutex

muVars == <<readers, queued, writers>>
vars == <<pc, parent, handler, result, before, muVars>>

Ended == {"done", "panicked"}

Init ==
    /\ pc = [c \in Calls |-> "idle"]
    /\ parent = [c \in Calls |-> None]
    /\ handler = None
    /\ result = [c \in Calls |-> None]
    /\ before = [c \in Dispatches |-> {}]
    /\ Mu!MuInit

Goto(c, label) == pc' = [pc EXCEPT ![c] = label]

\* A call made by the handler of Dispatch f has not returned.
Busy(f) == \E c \in Calls : parent[c] = f /\ pc[c] \notin Ended

\* A call starts on a goroutine of its own (None) or in the handler of f.
Start(c, f) ==
    /\ pc[c] = "idle"
    /\ f # None => c \in Nested /\ pc[f] = "handler" /\ ~Busy(f)
    /\ parent' = [parent EXCEPT ![c] = f]

DispatchCall(c, f) ==
    /\ Start(c, f)
    /\ Goto(c, "enter")
    /\ before' = [before EXCEPT ![c] = {r \in Registers : pc[r] = "done"}]
    /\ Mu!RLock(c)
    /\ UNCHANGED <<handler, result>>

\* No handler: Dispatch returns an error.
NoHandler(c) ==
    /\ pc[c] = "enter"
    /\ c \in readers
    /\ handler = None
    /\ result' = [result EXCEPT ![c] = Error]
    /\ Goto(c, "done")
    /\ Mu!RUnlock(c)
    /\ UNCHANGED <<parent, handler, before>>

\* A faulty variant of CallHandler: a nil handler is called, too.
CallUnchecked(c) ==
    /\ pc[c] = "enter"
    /\ c \in readers
    /\ result' = [result EXCEPT ![c] = handler]
    /\ Goto(c, "handler")
    /\ UNCHANGED <<parent, handler, before, muVars>>

\* The handler is called with the read lock held.
CallHandler(c) ==
    /\ pc[c] = "enter"
    /\ c \in readers
    /\ handler # None
    /\ result' = [result EXCEPT ![c] = handler]
    /\ Goto(c, "handler")
    /\ UNCHANGED <<parent, handler, before, muVars>>

\* The handler answers, with a result or an error of its own.
HandlerReturn(c) ==
    /\ pc[c] = "handler"
    /\ ~Busy(c)
    /\ Goto(c, "done")
    /\ Mu!RUnlock(c)
    /\ UNCHANGED <<parent, handler, result, before>>

\* A faulty variant of HandlerPanic: the RUnlock is not deferred.
PanicKeepsLock(c) ==
    /\ pc[c] = "handler"
    /\ ~Busy(c)
    /\ result[c] \in Panicking
    /\ Goto(c, "panicked")
    /\ UNCHANGED <<parent, handler, result, before, muVars>>

\* The handler panics: the deferred RUnlock runs, the caller recovers.
HandlerPanic(c) ==
    /\ pc[c] = "handler"
    /\ ~Busy(c)
    /\ result[c] \in Panicking
    /\ Goto(c, "panicked")
    /\ Mu!RUnlock(c)
    /\ UNCHANGED <<parent, handler, result, before>>

RegisterCall(r, f) ==
    /\ Start(r, f)
    /\ Goto(r, "lock")
    /\ UNCHANGED <<handler, result, before, muVars>>

\* A faulty variant of LockAnnounce: it tries until no handler runs.
AnnounceWhenFree(r) ==
    /\ pc[r] = "lock"
    /\ readers = {}
    /\ Mu!Announce(r)
    /\ UNCHANGED <<pc, parent, handler, result, before>>

LockAnnounce(r) ==
    /\ pc[r] = "lock"
    /\ Mu!Announce(r)
    /\ UNCHANGED <<pc, parent, handler, result, before>>

\* Faulty variants of Store: the last handler wins; the lock is kept.
StoreAlways(r) ==
    /\ pc[r] = "lock"
    /\ Mu!Holds(r)
    /\ handler' = r
    /\ result' = [result EXCEPT ![r] = r]
    /\ Goto(r, "done")
    /\ Mu!Unlock(r)
    /\ UNCHANGED <<parent, before>>

StoreKeepsLock(r) ==
    /\ pc[r] = "lock"
    /\ Mu!Holds(r)
    /\ handler' = IF handler = None THEN r ELSE handler
    /\ result' = [result EXCEPT ![r] = IF handler = None THEN r ELSE Error]
    /\ Goto(r, "done")
    /\ UNCHANGED <<parent, before, muVars>>

\* The critical section of Register: the first handler stays, another one is
\* refused with an error.
Store(r) ==
    /\ pc[r] = "lock"
    /\ Mu!Holds(r)
    /\ handler' = IF handler = None THEN r ELSE handler
    /\ result' = [result EXCEPT ![r] = IF handler = None THEN r ELSE Error]
    /\ Goto(r, "done")
    /\ Mu!Unlock(r)
    /\ UNCHANGED <<parent, before>>

\* The program calls the dispatcher.
Call(f) ==
    \/ \E c \in Dispatches : DispatchCall(c, f)
    \/ \E r \in Registers : RegisterCall(r, f)

DispatchStep(c) == NoHandler(c) \/ CallHandler(c) \/ HandlerReturn(c) \/ HandlerPanic(c)
RegisterStep(r) == LockAnnounce(r) \/ Store(r)

Progress ==
    \/ \E c \in Dispatches : DispatchStep(c)
    \/ \E r \in Registers : RegisterStep(r)

Next == (\E f \in Dispatches \cup {None} : Call(f)) \/ Progress

\* Handlers return and goroutines that can run do.
Fairness ==
    /\ \A c \in Dispatches : WF_vars(DispatchStep(c))
    /\ \A r \in Registers : WF_vars(RegisterStep(r))

Spec == Init /\ [][Next]_vars
FairSpec == Spec /\ Fairness

-----------------------------------------------------------------------------
(* Properties.                                                             *)

\* The values the variables take; what a Dispatch calls is not nil.
TypeOK ==
    /\ pc \in [Calls -> {"idle", "enter", "handler", "lock"} \cup Ended]
    /\ parent \in [Calls -> Dispatches \cup {None}]
    /\ handler \in Registers \cup {None}
    /\ \A c \in Dispatches : pc[c] = "handler" => result[c] \in Registers
    /\ result \in [Calls -> Registers \cup {None, Error}]
    /\ before \in [Dispatches -> SUBSET Registers]
    /\ readers \subseteq Dispatches
    /\ queued \subseteq Dispatches
    /\ writers \subseteq Registers

\* A command has exactly one handler: however many Registers race, one at most
\* succeeds, and every Dispatch that is answered is answered by that one.
OneHandler ==
    \A c, d \in Calls :
        result[c] \in Registers /\ result[d] \in Registers => result[c] = result[d]

\* A Dispatch that begins after some Register has returned finds a handler.
RegisteredIsFound ==
    \A c \in Dispatches : result[c] = Error => before[c] = {}

\* A call that is over, by a return or a panic, has left the lock, and a
\* handler runs under it.
LockHeldByActiveCalls ==
    /\ \A c \in readers : pc[c] \in {"enter", "handler"} /\ c \notin queued
    /\ \A c \in queued : pc[c] = "enter"
    /\ \A r \in writers : pc[r] = "lock"
    /\ \A c \in Dispatches : pc[c] = "handler" => c \in readers

AtRest(c) == pc[c] \in {"idle"} \cup Ended

\* What can move: a Dispatch that was let in, a return of a handler, the next
\* owner of the lock.
CanMove ==
    \/ \E c \in Dispatches :
          \/ pc[c] = "enter" /\ c \in readers
          \/ pc[c] = "handler" /\ ~Busy(c)
    \/ \E r \in Registers : pc[r] = "lock" /\ (writers = {} \/ Mu!Holds(r))

\* Nothing waits for anything but what CanMove names: something can move exactly
\* when some action of the dispatcher is enabled.
WaitsForNothingElse == CanMove <=> ENABLED Progress

\* When nothing can move although a call is under way, a handler called back
\* and waits for the lock, which a Register wants while handlers run.
HangsOnlyByReentry ==
    ~CanMove =>
        \/ \A c \in Calls : AtRest(c)
        \/ /\ writers # {}
           /\ \E d \in Calls : parent[d] # None /\ (pc[d] = "lock" \/ d \in queued)

\* Every call that starts returns, unless a handler calls back while a
\* Register waits for the lock (its own, or one of another goroutine).
CallsReturnUnlessReentered ==
    \A c \in Calls :
        ~AtRest(c) ~> \/ AtRest(c)
                      \/ \E d \in Calls, r \in Registers : parent[d] # None /\ pc[d] \notin Ended
                                                           /\ pc[r] = "lock"

-----------------------------------------------------------------------------

\* What the callers see: the calls that started, the handler in place and what
\* each call was answered.
Promise == INSTANCE HandlerSlot WITH
    called <- {c \in Calls : pc[c] # "idle"},
    slot <- handler,
    answer <- result

\* However the calls race and nest and handlers panic, each Register and each
\* Dispatch takes effect at once between its start and its return: the lock
\* makes the provider an atomic slot.
FillsOneSlot == Promise!Spec

=============================================================================
