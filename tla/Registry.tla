------------------------------- MODULE Registry -------------------------------
(***************************************************************************)
(* The registries bus/event/registry.go, bus/command/registry.go and       *)
(* bus/query/registry.go: one bus, or dispatcher, for each topic, or name, *)
(* made on demand under a double-checked lock, and their common Shutdown.  *)
(*                                                                         *)
(* The three share their code but for three things: an event registry      *)
(* refuses the empty topic, its entries own a worker, and its Shutdown     *)
(* waits for that worker (stopCh is closed, a second close panics, and the *)
(* worker ends once its handler has returned), where the Shutdown of a     *)
(* dispatcher does nothing.  The variable kind says which one it is.       *)
(*                                                                         *)
(* An entry is named by the call that made it; below, "bus" stands for the *)
(* dispatcher and "topic" for its name, too.  The calls in Nested may also *)
(* be made by a handler of an entry, or by the options and middleware that *)
(* run while the entry is made.                                            *)
(***************************************************************************)
EXTENDS Naturals, FiniteSets

CONSTANTS
    BusCalls, Shutdowns,
    Nested,         \* the calls that user code of an entry may make
    Topics,
    EmptyTopic,     \* the topic "", for which event.NewBus fails
    Types,          \* the type arguments of Bus, or of Dispatcher
    None, Error

Calls == BusCalls \cup Shutdowns

ASSUME RegistryAssumption ==
    /\ BusCalls \cap Shutdowns = {}
    /\ Nested \subseteq Calls
    /\ None \notin Calls \cup Topics \cup Types
    /\ None \notin [topic : Topics, type : Types]
    /\ Error \notin BusCalls \cup {None}

VARIABLES
    kind,       \* "event", or "dispatcher" for commands and queries
    pc,         \* where each call is
    parent,     \* the bus whose user code made the call, if any
    asked,      \* the topic and the type each Bus call asks for
    result,     \* the bus it returned, or Error
    buses,      \* r.buses: the bus of each topic
    before,     \* history: the buses with a worker when a Shutdown began
    visited,    \* the topics the range loop of a Shutdown has reached
    waitsFor,   \* the bus whose workers it waits for
    started,    \* the buses whose worker was started
    stopped,    \* the buses whose stopCh is closed
    busy,       \* the buses that run a handler
    exited,     \* the buses whose worker has ended
    readers, queued, writers    \* r.mu

Mu == INSTANCE GoRWMutex

busVars == <<asked, result, buses>>
shutdownVars == <<before, visited, waitsFor>>
workerVars == <<started, stopped, busy, exited>>
muVars == <<readers, queued, writers>>
vars == <<kind, pc, parent, busVars, shutdownVars, workerVars, muVars>>

Ended == {"done", "panicked"}
Making == {"new", "wrap"}
Registered == {buses[t] : t \in Topics} \ {None}

Init ==
    /\ kind \in {"event", "dispatcher"}
    /\ pc = [c \in Calls |-> "idle"]
    /\ parent = [c \in Calls |-> None]
    /\ asked = [c \in BusCalls |-> None]
    /\ result = [c \in BusCalls |-> None]
    /\ buses = [t \in Topics |-> None]
    /\ before = [d \in Shutdowns |-> {}]
    /\ visited = [d \in Shutdowns |-> {}]
    /\ waitsFor = [d \in Shutdowns |-> None]
    /\ started = {} /\ stopped = {} /\ busy = {} /\ exited = {}
    /\ Mu!MuInit

Goto(c, label) == pc' = [pc EXCEPT ![c] = label]

Busy(b) == \E c \in Calls : parent[c] = b /\ pc[c] \notin Ended

\* A call starts on a goroutine of its own (None), in a handler of bus b, or in
\* an option or a middleware while b is made.
Start(c, b) ==
    /\ pc[c] = "idle"
    /\ b # None => c \in Nested /\ ~Busy(b) /\ (b \in busy \/ pc[b] \in Making)
    /\ parent' = [parent EXCEPT ![c] = b]
    /\ UNCHANGED kind

\* A faulty variant of TypedBus: the type assertion is not checked.
AnyBus(c, b) == b

\* What a call that finds bus b in the map returns: b, or an error when b is
\* not an IBus of the type asked for.
TypedBus(c, b) == IF asked[b].type = asked[c].type THEN b ELSE Error

-----------------------------------------------------------------------------
(* Bus.                                                                    *)

BusCall(c, b, topic, type) ==
    /\ Start(c, b)
    /\ asked' = [asked EXCEPT ![c] = [topic |-> topic, type |-> type]]
    /\ Goto(c, "check")
    /\ Mu!RLock(c)
    /\ UNCHANGED <<result, buses, shutdownVars, workerVars>>

\* The first lookup, under the read lock.
Check(c) ==
    /\ pc[c] = "check"
    /\ c \in readers
    /\ LET b == buses[asked[c].topic] IN
       IF b # None
       THEN Goto(c, "done") /\ result' = [result EXCEPT ![c] = TypedBus(c, b)]
       ELSE Goto(c, "lock") /\ UNCHANGED result
    /\ Mu!RUnlock(c)
    /\ UNCHANGED <<kind, parent, asked, buses, shutdownVars, workerVars>>

\* A faulty variant of LookAgain: it does not look again.
LookNoMore(c) ==
    /\ pc[c] = "lock"
    /\ Mu!Holds(c)
    /\ Goto(c, "new")
    /\ UNCHANGED <<kind, parent, busVars, shutdownVars, workerVars, muVars>>

\* The second lookup, under the write lock, and the check of NewBus.
LookAgain(c) ==
    /\ pc[c] = "lock"
    /\ Mu!Holds(c)
    /\ LET topic == asked[c].topic
           b == buses[topic] IN
       \/ /\ b = None /\ (topic # EmptyTopic \/ kind = "dispatcher")
          /\ Goto(c, "new")
          /\ UNCHANGED <<result, muVars>>
       \/ /\ b # None
          /\ result' = [result EXCEPT ![c] = TypedBus(c, b)]
          /\ Goto(c, "done")
          /\ Mu!Unlock(c)
       \/ /\ b = None /\ topic = EmptyTopic /\ kind = "event"
          /\ result' = [result EXCEPT ![c] = Error]
          /\ Goto(c, "done")
          /\ Mu!Unlock(c)
    /\ UNCHANGED <<kind, parent, asked, buses, shutdownVars, workerVars>>

\* NewBus: the options have run and the provider is made, that of a bus with a
\* running worker.
MakeProvider(c) ==
    /\ pc[c] = "new"
    /\ ~Busy(c)
    /\ started' = IF kind = "event" THEN started \cup {c} ELSE started
    /\ Goto(c, "wrap")
    /\ UNCHANGED <<kind, parent, busVars, shutdownVars, stopped, busy, exited, muVars>>

\* The middleware is wrapped around the provider; the bus is stored.
Store(c) ==
    /\ pc[c] = "wrap"
    /\ ~Busy(c)
    /\ result' = [result EXCEPT ![c] = c]
    /\ buses' = [buses EXCEPT ![asked[c].topic] = c]
    /\ Goto(c, "done")
    /\ Mu!Unlock(c)
    /\ UNCHANGED <<kind, parent, asked, shutdownVars, workerVars>>

\* A faulty variant of MakePanics: the Unlock is not deferred.
MakePanicKeepsLock(c) ==
    /\ pc[c] \in Making
    /\ ~Busy(c)
    /\ Goto(c, "panicked")
    /\ UNCHANGED <<kind, parent, busVars, shutdownVars, workerVars, muVars>>

\* An option or a middleware panics (NewMetricsMiddleware does when the meter
\* refuses an instrument): nothing is stored, a worker that was started stays.
MakePanics(c) ==
    /\ pc[c] \in Making
    /\ ~Busy(c)
    /\ Goto(c, "panicked")
    /\ Mu!Unlock(c)
    /\ UNCHANGED <<kind, parent, busVars, shutdownVars, workerVars>>

-----------------------------------------------------------------------------
(* Shutdown.                                                               *)

ShutdownCall(d, b) ==
    /\ Start(d, b)
    /\ Goto(d, "lock")
    /\ before' = [before EXCEPT ![d] = started]
    /\ UNCHANGED <<busVars, visited, waitsFor, workerVars, muVars>>

\* A faulty variant of CloseBus: the loop does not wait for the workers.
CloseWithoutWait(d, topic) ==
    /\ kind = "event"
    /\ pc[d] = "lock"
    /\ Mu!Holds(d)
    /\ topic \in Topics \ visited[d]
    /\ buses[topic] \notin stopped \cup {None}
    /\ visited' = [visited EXCEPT ![d] = @ \cup {topic}]
    /\ stopped' = stopped \cup {buses[topic]}
    /\ UNCHANGED <<kind, pc, parent, busVars, before, waitsFor, started, busy, exited, muVars>>

\* The range loop reaches a bus, in any order, and closes its stopCh.
CloseBus(d, topic) ==
    /\ kind = "event"
    /\ pc[d] = "lock"
    /\ Mu!Holds(d)
    /\ topic \in Topics \ visited[d]
    /\ buses[topic] \notin stopped \cup {None}
    /\ visited' = [visited EXCEPT ![d] = @ \cup {topic}]
    /\ waitsFor' = [waitsFor EXCEPT ![d] = buses[topic]]
    /\ stopped' = stopped \cup {buses[topic]}
    /\ Goto(d, "wait")
    /\ UNCHANGED <<kind, parent, busVars, before, started, busy, exited, muVars>>

\* A faulty variant of ClosePanics: the Unlock is not deferred.
PanicKeepsLock(d, topic) ==
    /\ pc[d] = "lock"
    /\ Mu!Holds(d)
    /\ topic \in Topics \ visited[d]
    /\ buses[topic] \in stopped
    /\ Goto(d, "panicked")
    /\ UNCHANGED <<kind, parent, busVars, shutdownVars, workerVars, muVars>>

\* It reaches a bus that is stopped already: close panics, the deferred
\* Unlock runs and the caller recovers.
ClosePanics(d, topic) ==
    /\ pc[d] = "lock"
    /\ Mu!Holds(d)
    /\ topic \in Topics \ visited[d]
    /\ buses[topic] \in stopped
    /\ Goto(d, "panicked")
    /\ Mu!Unlock(d)
    /\ UNCHANGED <<kind, parent, busVars, shutdownVars, workerVars>>

\* A dispatcher's Shutdown does nothing.
VisitDispatcher(d, topic) ==
    /\ kind = "dispatcher"
    /\ pc[d] = "lock"
    /\ Mu!Holds(d)
    /\ topic \in Topics \ visited[d]
    /\ buses[topic] # None
    /\ visited' = [visited EXCEPT ![d] = @ \cup {topic}]
    /\ UNCHANGED <<kind, pc, parent, busVars, before, waitsFor, workerVars, muVars>>

\* A faulty variant of WaitReturns: it waits for the workers of all buses.
WaitReturnsForAll(d) ==
    /\ pc[d] = "wait"
    /\ started \subseteq exited
    /\ Goto(d, "lock")
    /\ UNCHANGED <<kind, parent, busVars, shutdownVars, workerVars, muVars>>

\* The workers of the bus have ended: on to the next topic.
WaitReturns(d) ==
    /\ pc[d] = "wait"
    /\ waitsFor[d] \in exited
    /\ Goto(d, "lock")
    /\ UNCHANGED <<kind, parent, busVars, shutdownVars, workerVars, muVars>>

ShutdownReturn(d) ==
    /\ pc[d] = "lock"
    /\ Mu!Holds(d)
    /\ \A topic \in Topics : buses[topic] # None => topic \in visited[d]
    /\ Goto(d, "done")
    /\ Mu!Unlock(d)
    /\ UNCHANGED <<kind, parent, busVars, shutdownVars, workerVars>>

\* r.mu.Lock, of Bus or of Shutdown: the writer slot is taken.
LockAnnounce(c) ==
    /\ pc[c] = "lock"
    /\ Mu!Announce(c)
    /\ UNCHANGED <<kind, pc, parent, busVars, shutdownVars, workerVars>>

-----------------------------------------------------------------------------
(* The buses.                                                              *)

\* A program that holds a bus shuts it down itself.
StopDirectly(b) ==
    /\ kind = "event"
    /\ \E c \in BusCalls : result[c] = b
    /\ b \notin stopped
    /\ stopped' = stopped \cup {b}
    /\ UNCHANGED <<kind, pc, parent, busVars, shutdownVars, started, busy, exited, muVars>>

\* The worker of a bus takes a task; a Dispatch calls its handler.
HandlerStart(b) ==
    /\ b \in Registered \ (busy \cup exited)
    /\ busy' = busy \cup {b}
    /\ UNCHANGED <<kind, pc, parent, busVars, shutdownVars, started, stopped, exited, muVars>>

HandlerEnd(b) ==
    /\ b \in busy
    /\ ~Busy(b)
    /\ busy' = busy \ {b}
    /\ UNCHANGED <<kind, pc, parent, busVars, shutdownVars, started, stopped, exited, muVars>>

\* A faulty variant of WorkerExit: a worker without a task ends.
ExitUnstopped(b) ==
    /\ b \in Registered \ (busy \cup exited)
    /\ exited' = exited \cup {b}
    /\ UNCHANGED <<kind, pc, parent, busVars, shutdownVars, started, stopped, busy, muVars>>

WorkerExit(b) ==
    /\ b \in stopped \ (busy \cup exited)
    /\ exited' = exited \cup {b}
    /\ UNCHANGED <<kind, pc, parent, busVars, shutdownVars, started, stopped, busy, muVars>>

-----------------------------------------------------------------------------

\* The program starts something: a call, a Shutdown of one bus, an event.
Environment ==
    \/ \E c \in BusCalls, b \in BusCalls \cup {None}, topic \in Topics, type \in Types :
          BusCall(c, b, topic, type)
    \/ \E d \in Shutdowns, b \in BusCalls \cup {None} : ShutdownCall(d, b)
    \/ \E b \in BusCalls : StopDirectly(b) \/ HandlerStart(b)

\* What goes on by itself.
Progress ==
    \/ \E c \in BusCalls :
          \/ Check(c) \/ LockAnnounce(c) \/ LookAgain(c)
          \/ MakeProvider(c) \/ Store(c) \/ MakePanics(c)
    \/ \E d \in Shutdowns :
          \/ LockAnnounce(d)
          \/ \E topic \in Topics : CloseBus(d, topic) \/ ClosePanics(d, topic) \/ VisitDispatcher(d, topic)
          \/ WaitReturns(d)
          \/ ShutdownReturn(d)
    \/ \E b \in BusCalls : HandlerEnd(b) \/ WorkerExit(b)

Next == Environment \/ Progress

Spec == Init /\ [][Next]_vars

-----------------------------------------------------------------------------
(* Properties.                                                             *)

\* The values the variables take.
TypeOK ==
    /\ kind \in {"event", "dispatcher"}
    /\ pc \in [Calls -> {"idle", "check", "lock", "new", "wrap", "wait"} \cup Ended]
    /\ parent \in [Calls -> BusCalls \cup {None}]
    /\ asked \in [BusCalls -> [topic : Topics, type : Types] \cup {None}]
    /\ result \in [BusCalls -> BusCalls \cup {None, Error}]
    /\ buses \in [Topics -> BusCalls \cup {None}]
    /\ before \in [Shutdowns -> SUBSET BusCalls]
    /\ visited \in [Shutdowns -> SUBSET Topics]
    /\ waitsFor \in [Shutdowns -> BusCalls \cup {None}]
    /\ started \subseteq BusCalls
    /\ stopped \subseteq started
    /\ busy \subseteq BusCalls
    /\ exited \subseteq stopped
    /\ readers \subseteq BusCalls
    /\ queued \subseteq BusCalls
    /\ writers \subseteq Calls

\* Whatever a Bus call returns is the one bus of its topic, the one in the map:
\* racing calls never make two, and no bus is handed out that Shutdown would
\* not find.
OneBusPerTopic ==
    \A c \in BusCalls :
        result[c] \in BusCalls => buses[asked[c].topic] = result[c]

\* A bus has the topic and the type it was asked for with; an error means that
\* the topic is empty, which only event registries refuse, or is taken by
\* another type.
ResultsTyped ==
    \A c \in BusCalls :
        /\ result[c] \in BusCalls => asked[result[c]] = asked[c]
        /\ result[c] = Error =>
              \/ asked[c].topic = EmptyTopic /\ kind = "event"
              \/ LET b == buses[asked[c].topic] IN b # None /\ asked[b].type # asked[c].type

\* When a Shutdown returns, every worker that ran when it began has ended, also
\* that of a bus which was being made then; only the worker of a bus whose
\* NewBus panicked is out of reach.
ShutdownStopsAll ==
    \A d \in Shutdowns : pc[d] = "done" =>
        \A b \in before[d] : b \in exited \/ pc[b] = "panicked"

\* A call that is over, by a return or a panic, has left the lock, and one
\* that makes a bus or waits for one has it.
LockHeldByActiveCalls ==
    /\ \A c \in readers \cup queued : pc[c] = "check"
    /\ \A c \in writers : pc[c] \in {"lock", "wait"} \cup Making
    /\ \A c \in Calls : pc[c] \in {"wait"} \cup Making => writers = {c}

AtRest(c) == pc[c] \in {"idle"} \cup Ended

\* What can move: a first lookup, a return from user code, the next owner of the
\* lock, a Shutdown whose bus has ended, a stopped worker without a task.
CanMove ==
    \/ \E c \in BusCalls :
          \/ pc[c] = "check" /\ c \in readers
          \/ pc[c] \in Making /\ ~Busy(c)
    \/ \E c \in Calls : pc[c] = "lock" /\ (writers = {} \/ Mu!Holds(c))
    \/ \E d \in Shutdowns : pc[d] = "wait" /\ waitsFor[d] \in exited
    \/ \E b \in busy : ~Busy(b)
    \/ stopped \ (busy \cup exited) # {}

\* Nothing waits for anything but what CanMove names: something can move exactly
\* when some action of the registry and its buses is enabled.
WaitsForNothingElse == CanMove <=> ENABLED Progress

\* The registry hangs only when user code that it waits for called back into
\* it: an option or a middleware under the lock of its own Bus call, or a
\* handler of an event bus, whose Shutdown holds the lock and waits for the
\* handler.  A handler of a dispatcher may call the registry as it likes.
HangsOnlyByReentry ==
    ~CanMove =>
        \/ \A c \in Calls : AtRest(c)
        \/ \E c \in Calls :
              /\ parent[c] # None /\ ~AtRest(c)
              /\ kind = "event" \/ pc[parent[c]] \in Making

\* registry.go:61 says that Shutdown shuts down every registered bus: a
\* Shutdown that is over, however it ended, has stopped them.
ShutdownAlwaysStopsAll ==
    \A d \in Shutdowns : pc[d] \in Ended => before[d] \cap Registered \subseteq stopped

-----------------------------------------------------------------------------

\* What the registry promises its callers: every topic gets one value, once.
Promise == INSTANCE GetOrCreate WITH
    Callers <- BusCalls, Keys <- Topics, entry <- buses, answer <- result

\* The double-checked lookup implements the atomic one.
GetsOrCreates == Promise!Spec

=============================================================================
