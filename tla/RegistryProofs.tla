---------------------------- MODULE RegistryProofs ----------------------------
(***************************************************************************)
(* Theorems about the registries, for any number of calls and topics: the  *)
(* type invariant, the lock discipline, the uniqueness and the types of    *)
(* the buses, the completeness of Shutdown, what a hang needs, and the     *)
(* refinement of GetOrCreate.                                              *)
(***************************************************************************)
EXTENDS Registry, TLAPS

USE DEF vars, busVars, shutdownVars, workerVars, muVars

\* Only the holder of the lock makes a bus or waits for one.
LockInv ==
    /\ LockHeldByActiveCalls
    /\ \A c, d \in writers : c = d
    /\ readers \cap queued = {}
    /\ \A c \in BusCalls : pc[c] # "wait"
    /\ \A d \in Shutdowns : pc[d] \notin {"check"} \cup Making

\* A bus in the map was asked for with its topic by a call that is over; a topic
\* whose bus is being made has none; what a call returned is in the map or is
\* an error it could not avoid.
MapInv ==
    /\ \A t \in Topics : buses[t] # None =>
          /\ pc[buses[t]] = "done"
          /\ asked[buses[t]].topic = t
    /\ \A c \in BusCalls : pc[c] # "idle" => asked[c] \in [topic : Topics, type : Types]
    /\ \A c \in BusCalls : pc[c] = "idle" => asked[c] = None
    /\ \A c \in BusCalls : result[c] # None => pc[c] = "done"
    /\ \A c \in BusCalls : pc[c] \in Making => buses[asked[c].topic] = None
    /\ OneBusPerTopic
    /\ ResultsTyped

\* Every bus of an event registry has a worker, and a worker without a bus
\* belongs to one that is being made or whose NewBus panicked.
WorkerInv ==
    /\ kind = "event" => Registered \subseteq started
    /\ kind = "dispatcher" => started = {}
    /\ \A c \in BusCalls : kind = "event" /\ pc[c] = "wrap" => c \in started
    /\ \A b \in started : b \in Registered \/ pc[b] \in {"wrap", "panicked"}

Inv == TypeOK /\ LockInv /\ MapInv /\ WorkerInv

-----------------------------------------------------------------------------
(* Types.                                                                  *)

\* The variables have their types initially.
LEMMA TypeInit == Init => TypeOK
  BY DEF Init, TypeOK, Mu!MuInit

\* Every step keeps them.
LEMMA TypeStep == Inv /\ [Next]_vars => TypeOK'
<1> SUFFICES ASSUME TypeOK, MapInv, WorkerInv, [Next]_vars PROVE TypeOK'
  BY DEF Inv
<1>a. \A c \in BusCalls : pc[c] # "idle" => asked[c] \in [topic : Topics, type : Types]
  BY DEF MapInv
<1>b. \A c \in BusCalls : kind = "event" /\ result[c] \in BusCalls => result[c] \in started
  <2> SUFFICES ASSUME NEW c \in BusCalls, kind = "event", result[c] \in BusCalls PROVE result[c] \in started
    OBVIOUS
  <2>1. result[c] # None
    BY RegistryAssumption DEF Calls
  <2>2. pc[c] = "done" /\ buses[asked[c].topic] = result[c]
    BY <2>1 DEF MapInv, OneBusPerTopic
  <2>3. asked[c].topic \in Topics
    BY <2>2, <1>a
  <2>4. result[c] \in Registered
    BY <2>1, <2>2, <2>3 DEF Registered
  <2>5. QED
    BY <2>4 DEF WorkerInv
<1>c. kind = "event" => Registered \subseteq started
  BY DEF WorkerInv
<1> USE DEF TypeOK, Goto, Ended, Calls
<1>1. ASSUME NEW c \in BusCalls, NEW b \in BusCalls \cup {None}, NEW topic \in Topics,
             NEW type \in Types, BusCall(c, b, topic, type)
      PROVE TypeOK'
  BY <1>1 DEF BusCall, Start, Mu!RLock
<1>2. ASSUME NEW c \in BusCalls, Check(c)
      PROVE TypeOK'
  <2>1. asked[c] \in [topic : Topics, type : Types]
    BY <1>2, <1>a DEF Check
  <2>2. QED
    BY <1>2, <2>1 DEF Check, TypedBus, Mu!RUnlock
<1>3. ASSUME NEW c \in BusCalls, LookAgain(c)
      PROVE TypeOK'
  <2>1. asked[c] \in [topic : Topics, type : Types]
    BY <1>3, <1>a DEF LookAgain
  <2>2. QED
    BY <1>3, <2>1 DEF LookAgain, TypedBus, Mu!Unlock
<1>4. ASSUME NEW c \in BusCalls, MakeProvider(c)
      PROVE TypeOK'
  BY <1>4 DEF MakeProvider
<1>5. ASSUME NEW c \in BusCalls, Store(c)
      PROVE TypeOK'
  BY <1>5, <1>a DEF Store, Mu!Unlock
<1>6. ASSUME NEW c \in BusCalls, MakePanics(c)
      PROVE TypeOK'
  BY <1>6 DEF MakePanics, Mu!Unlock
<1>7. ASSUME NEW d \in Shutdowns, NEW b \in BusCalls \cup {None}, ShutdownCall(d, b)
      PROVE TypeOK'
  BY <1>7 DEF ShutdownCall, Start
<1>8. ASSUME NEW d \in Shutdowns, NEW topic \in Topics, CloseBus(d, topic)
      PROVE TypeOK'
  BY <1>8, <1>c DEF CloseBus, Registered
<1>9. ASSUME NEW d \in Shutdowns, NEW topic \in Topics, ClosePanics(d, topic)
      PROVE TypeOK'
  BY <1>9 DEF ClosePanics, Mu!Unlock
<1>10. ASSUME NEW d \in Shutdowns, NEW topic \in Topics, VisitDispatcher(d, topic)
       PROVE TypeOK'
  BY <1>10 DEF VisitDispatcher
<1>11. ASSUME NEW d \in Shutdowns, WaitReturns(d)
       PROVE TypeOK'
  BY <1>11 DEF WaitReturns
<1>12. ASSUME NEW d \in Shutdowns, ShutdownReturn(d)
       PROVE TypeOK'
  BY <1>12 DEF ShutdownReturn, Mu!Unlock
<1>13. ASSUME NEW c \in Calls, LockAnnounce(c)
       PROVE TypeOK'
  BY <1>13 DEF LockAnnounce, Mu!Announce
<1>14. ASSUME NEW b \in BusCalls, StopDirectly(b) \/ HandlerStart(b) \/ HandlerEnd(b) \/ WorkerExit(b)
       PROVE TypeOK'
  BY <1>14, <1>b DEF StopDirectly, HandlerStart, HandlerEnd, WorkerExit
<1>15. CASE UNCHANGED vars
  BY <1>15
<1>16. QED
  BY <1>1, <1>2, <1>3, <1>4, <1>5, <1>6, <1>7, <1>8, <1>9, <1>10, <1>11, <1>12, <1>13, <1>14, <1>15
     DEF Next, Environment, Progress

-----------------------------------------------------------------------------
(* The lock.                                                               *)

\* Only the holder makes or waits for a bus, initially.
LEMMA LockInit == Init => LockInv
  BY DEF Init, LockInv, LockHeldByActiveCalls, Making, Calls, Mu!MuInit

\* Every step keeps it.
LEMMA LockStep == Inv /\ [Next]_vars => LockInv'
<1> SUFFICES ASSUME TypeOK, LockInv, [Next]_vars PROVE LockInv'
  BY DEF Inv
<1>0. /\ pc \in [Calls -> {"idle", "check", "lock", "new", "wrap", "wait"} \cup Ended]
      /\ readers \subseteq BusCalls /\ queued \subseteq BusCalls /\ writers \subseteq Calls
  BY DEF TypeOK
<1> USE <1>0, RegistryAssumption DEF LockInv, LockHeldByActiveCalls, Goto, Making, Calls
<1>1. ASSUME NEW c \in BusCalls, NEW b \in BusCalls \cup {None}, NEW topic \in Topics,
             NEW type \in Types, BusCall(c, b, topic, type)
      PROVE LockInv'
  BY <1>1 DEF BusCall, Start, Mu!RLock
<1>2. ASSUME NEW c \in BusCalls, Check(c)
      PROVE LockInv'
  BY <1>2 DEF Check, Mu!RUnlock, Ended
<1>3. ASSUME NEW c \in BusCalls, LookAgain(c)
      PROVE LockInv'
  BY <1>3 DEF LookAgain, Mu!Holds, Mu!Unlock
<1>4. ASSUME NEW c \in BusCalls, MakeProvider(c)
      PROVE LockInv'
  BY <1>4 DEF MakeProvider
<1>5. ASSUME NEW c \in BusCalls, Store(c)
      PROVE LockInv'
  BY <1>5 DEF Store, Mu!Unlock
<1>6. ASSUME NEW c \in BusCalls, MakePanics(c)
      PROVE LockInv'
  BY <1>6 DEF MakePanics, Mu!Unlock
<1>7. ASSUME NEW d \in Shutdowns, NEW b \in BusCalls \cup {None}, ShutdownCall(d, b)
      PROVE LockInv'
  BY <1>7 DEF ShutdownCall, Start
<1>8. ASSUME NEW d \in Shutdowns, NEW topic \in Topics, CloseBus(d, topic)
      PROVE LockInv'
  BY <1>8 DEF CloseBus, Mu!Holds
<1>9. ASSUME NEW d \in Shutdowns, NEW topic \in Topics, ClosePanics(d, topic)
      PROVE LockInv'
  BY <1>9 DEF ClosePanics, Mu!Holds, Mu!Unlock
<1>10. ASSUME NEW d \in Shutdowns, NEW topic \in Topics, VisitDispatcher(d, topic)
       PROVE LockInv'
  BY <1>10 DEF VisitDispatcher
<1>11. ASSUME NEW d \in Shutdowns, WaitReturns(d)
       PROVE LockInv'
  BY <1>11 DEF WaitReturns
<1>12. ASSUME NEW d \in Shutdowns, ShutdownReturn(d)
       PROVE LockInv'
  BY <1>12 DEF ShutdownReturn, Mu!Holds, Mu!Unlock
<1>13. ASSUME NEW c \in Calls, LockAnnounce(c)
       PROVE LockInv'
  BY <1>13 DEF LockAnnounce, Mu!Announce
<1>14. ASSUME NEW b \in BusCalls, StopDirectly(b) \/ HandlerStart(b) \/ HandlerEnd(b) \/ WorkerExit(b)
       PROVE LockInv'
  BY <1>14 DEF StopDirectly, HandlerStart, HandlerEnd, WorkerExit
<1>15. CASE UNCHANGED vars
  BY <1>15
<1>16. QED
  BY <1>1, <1>2, <1>3, <1>4, <1>5, <1>6, <1>7, <1>8, <1>9, <1>10, <1>11, <1>12, <1>13, <1>14, <1>15
     DEF Next, Environment, Progress

-----------------------------------------------------------------------------
(* The map.                                                                *)

\* The map is in order initially.
LEMMA MapInit == Init => MapInv
  BY RegistryAssumption
     DEF Init, MapInv, OneBusPerTopic, ResultsTyped, Calls, Making

\* What leaves the Bus calls and what they wrote alone keeps it.
LEMMA MapFrame ==
    ASSUME TypeOK, MapInv, UNCHANGED <<kind, busVars>>,
           \A c \in BusCalls : pc'[c] = pc[c]
    PROVE  MapInv'
<1>1. buses \in [Topics -> BusCalls \cup {None}] /\ asked' = asked /\ result' = result /\ buses' = buses /\ kind' = kind
  BY DEF TypeOK
<1>2. QED
  BY <1>1 DEF MapInv, OneBusPerTopic, ResultsTyped

\* Every step keeps it.
LEMMA MapStep == Inv /\ [Next]_vars => MapInv'
<1> SUFFICES ASSUME TypeOK, LockInv, MapInv, [Next]_vars PROVE MapInv'
  BY DEF Inv
<1>0. /\ pc \in [Calls -> {"idle", "check", "lock", "new", "wrap", "wait"} \cup Ended]
      /\ asked \in [BusCalls -> [topic : Topics, type : Types] \cup {None}]
      /\ result \in [BusCalls -> BusCalls \cup {None, Error}]
      /\ buses \in [Topics -> BusCalls \cup {None}]
  BY DEF TypeOK
<1>m. \A c \in BusCalls : pc[c] # "idle" => asked[c] \in [topic : Topics, type : Types]
  BY DEF MapInv
<1> USE <1>0, RegistryAssumption DEF Goto, Calls
<1>1. ASSUME NEW c \in BusCalls, NEW b \in BusCalls \cup {None}, NEW topic \in Topics,
             NEW type \in Types, BusCall(c, b, topic, type)
      PROVE MapInv'
  BY <1>1 DEF BusCall, Start, MapInv, OneBusPerTopic, ResultsTyped, Ended, Making
<1>2. ASSUME NEW c \in BusCalls, Check(c)
      PROVE MapInv'
  <2>1. /\ asked[c] \in [topic : Topics, type : Types] /\ pc[c] = "check"
        /\ asked' = asked /\ buses' = buses /\ kind' = kind
    BY <1>2, <1>m DEF Check
  <2>2. CASE /\ buses[asked[c].topic] # None /\ pc' = [pc EXCEPT ![c] = "done"]
             /\ result' = [result EXCEPT ![c] = TypedBus(c, buses[asked[c].topic])]
    BY <2>1, <2>2 DEF TypedBus, MapInv, OneBusPerTopic, ResultsTyped, Ended, Making
  <2>3. CASE buses[asked[c].topic] = None /\ pc' = [pc EXCEPT ![c] = "lock"] /\ result' = result
    BY <2>1, <2>3 DEF MapInv, OneBusPerTopic, ResultsTyped, Ended, Making
  <2>4. QED
    BY <1>2, <2>2, <2>3 DEF Check
<1>3. ASSUME NEW c \in BusCalls, LookAgain(c)
      PROVE MapInv'
  <2>1. /\ asked[c] \in [topic : Topics, type : Types] /\ pc[c] = "lock"
        /\ asked' = asked /\ buses' = buses /\ kind' = kind
    BY <1>3, <1>m DEF LookAgain
  <2>2. CASE buses[asked[c].topic] = None /\ pc' = [pc EXCEPT ![c] = "new"] /\ result' = result
    BY <2>1, <2>2 DEF MapInv, OneBusPerTopic, ResultsTyped, Ended, Making
  <2>3. CASE /\ buses[asked[c].topic] # None /\ pc' = [pc EXCEPT ![c] = "done"]
             /\ result' = [result EXCEPT ![c] = TypedBus(c, buses[asked[c].topic])]
    BY <2>1, <2>3 DEF TypedBus, MapInv, OneBusPerTopic, ResultsTyped, Ended, Making
  <2>4. CASE /\ asked[c].topic = EmptyTopic /\ kind = "event" /\ pc' = [pc EXCEPT ![c] = "done"]
             /\ result' = [result EXCEPT ![c] = Error]
    BY <2>1, <2>4 DEF MapInv, OneBusPerTopic, ResultsTyped, Ended, Making
  <2>5. QED
    BY <1>3, <2>2, <2>3, <2>4 DEF LookAgain
<1>4. ASSUME NEW c \in BusCalls, MakeProvider(c)
      PROVE MapInv'
  BY <1>4 DEF MakeProvider, MapInv, OneBusPerTopic, ResultsTyped, Ended, Making
<1>5. ASSUME NEW c \in BusCalls, Store(c)
      PROVE MapInv'
  <2> DEFINE topic == asked[c].topic
  <2>1. /\ topic \in Topics /\ buses[topic] = None /\ pc[c] = "wrap"
        /\ asked' = asked /\ kind' = kind /\ pc' = [pc EXCEPT ![c] = "done"]
        /\ result' = [result EXCEPT ![c] = c] /\ buses' = [buses EXCEPT ![topic] = c]
    BY <1>5, <1>m DEF Store, MapInv, Making
  <2>2. \A b \in BusCalls : pc[b] \in Making => b = c
    <3>1. writers = {c}
      BY <2>1 DEF LockInv, LockHeldByActiveCalls, Making
    <3>2. QED
      BY <3>1 DEF LockInv, LockHeldByActiveCalls
  <2>3. OneBusPerTopic'
    BY <2>1 DEF MapInv, OneBusPerTopic, ResultsTyped, Ended, Making
  <2>4. ResultsTyped'
    BY <2>1 DEF MapInv, OneBusPerTopic, ResultsTyped, Ended, Making
  <2>5. \A t \in Topics : buses'[t] # None => pc'[buses'[t]] = "done" /\ asked'[buses'[t]].topic = t
    BY <2>1 DEF MapInv
  <2>6. \A b \in BusCalls : pc'[b] \in Making => buses'[asked'[b].topic] = None
    BY <2>1, <2>2 DEF Making
  <2>7. QED
    BY <2>1, <2>3, <2>4, <2>5, <2>6 DEF MapInv
<1>6. ASSUME NEW c \in BusCalls, MakePanics(c)
      PROVE MapInv'
  BY <1>6 DEF MakePanics, MapInv, OneBusPerTopic, ResultsTyped, Ended, Making
<1>7. ASSUME NEW d \in Shutdowns, NEW b \in BusCalls \cup {None}, ShutdownCall(d, b)
      PROVE MapInv'
  BY <1>7, MapFrame DEF ShutdownCall, Start
<1>8. ASSUME NEW d \in Shutdowns, NEW topic \in Topics, CloseBus(d, topic)
      PROVE MapInv'
  BY <1>8, MapFrame DEF CloseBus
<1>9. ASSUME NEW d \in Shutdowns, NEW topic \in Topics, ClosePanics(d, topic)
      PROVE MapInv'
  BY <1>9, MapFrame DEF ClosePanics
<1>10. ASSUME NEW d \in Shutdowns, NEW topic \in Topics, VisitDispatcher(d, topic)
       PROVE MapInv'
  BY <1>10, MapFrame DEF VisitDispatcher
<1>11. ASSUME NEW d \in Shutdowns, WaitReturns(d)
       PROVE MapInv'
  BY <1>11, MapFrame DEF WaitReturns
<1>12. ASSUME NEW d \in Shutdowns, ShutdownReturn(d)
       PROVE MapInv'
  BY <1>12, MapFrame DEF ShutdownReturn
<1>13. ASSUME NEW c \in Calls, LockAnnounce(c)
       PROVE MapInv'
  BY <1>13, MapFrame DEF LockAnnounce
<1>14. ASSUME NEW b \in BusCalls, StopDirectly(b) \/ HandlerStart(b) \/ HandlerEnd(b) \/ WorkerExit(b)
       PROVE MapInv'
  BY <1>14, MapFrame DEF StopDirectly, HandlerStart, HandlerEnd, WorkerExit
<1>15. CASE UNCHANGED vars
  BY <1>15, MapFrame
<1>16. QED
  BY <1>1, <1>2, <1>3, <1>4, <1>5, <1>6, <1>7, <1>8, <1>9, <1>10, <1>11, <1>12, <1>13, <1>14, <1>15
     DEF Next, Environment, Progress, Calls

-----------------------------------------------------------------------------
(* The workers.                                                            *)

\* There is no worker initially.
LEMMA WorkerInit == Init => WorkerInv
  BY DEF Init, WorkerInv, Registered, Calls

\* What makes no bus keeps it.
LEMMA WorkerFrame ==
    ASSUME TypeOK, WorkerInv, UNCHANGED <<kind, buses, started>>,
           \A c \in BusCalls : pc'[c] = "wrap" <=> pc[c] = "wrap",
           \A c \in BusCalls : pc[c] = "panicked" => pc'[c] = "panicked"
    PROVE  WorkerInv'
<1>1. kind' = kind /\ started' = started /\ Registered' = Registered /\ started \subseteq BusCalls
  BY DEF TypeOK, Registered
<1>2. QED
  BY <1>1 DEF WorkerInv

\* Every step keeps it.
LEMMA WorkerStep == Inv /\ [Next]_vars => WorkerInv'
<1> SUFFICES ASSUME TypeOK, MapInv, WorkerInv, [Next]_vars PROVE WorkerInv'
  BY DEF Inv
<1>0. /\ pc \in [Calls -> {"idle", "check", "lock", "new", "wrap", "wait"} \cup Ended]
      /\ asked \in [BusCalls -> [topic : Topics, type : Types] \cup {None}]
      /\ buses \in [Topics -> BusCalls \cup {None}]
      /\ started \subseteq BusCalls
  BY DEF TypeOK
<1> USE <1>0, RegistryAssumption DEF Goto, Calls
<1>1. ASSUME NEW c \in BusCalls, NEW b \in BusCalls \cup {None}, NEW topic \in Topics,
             NEW type \in Types, BusCall(c, b, topic, type)
      PROVE WorkerInv'
  BY <1>1, WorkerFrame DEF BusCall, Start
<1>2. ASSUME NEW c \in BusCalls, Check(c)
      PROVE WorkerInv'
  BY <1>2, WorkerFrame DEF Check
<1>3. ASSUME NEW c \in BusCalls, LookAgain(c)
      PROVE WorkerInv'
  BY <1>3, WorkerFrame DEF LookAgain
<1>4. ASSUME NEW c \in BusCalls, MakeProvider(c)
      PROVE WorkerInv'
  BY <1>4 DEF MakeProvider, WorkerInv, Registered, TypeOK
<1>5. ASSUME NEW c \in BusCalls, Store(c)
      PROVE WorkerInv'
  <2>1. /\ asked[c].topic \in Topics /\ buses[asked[c].topic] = None
        /\ kind' = kind /\ started' = started /\ pc[c] = "wrap" /\ pc' = [pc EXCEPT ![c] = "done"]
        /\ buses' = [buses EXCEPT ![asked[c].topic] = c]
    BY <1>5 DEF Store, MapInv, Making
  <2>2. Registered' = Registered \cup {c}
    BY <2>1 DEF Registered
  <2>3. QED
    BY <2>1, <2>2 DEF WorkerInv
<1>6. ASSUME NEW c \in BusCalls, MakePanics(c)
      PROVE WorkerInv'
  <2>1. kind' = kind /\ started' = started /\ Registered' = Registered /\ pc' = [pc EXCEPT ![c] = "panicked"]
    BY <1>6 DEF MakePanics, Registered
  <2>2. QED
    BY <2>1 DEF WorkerInv
<1>7. ASSUME NEW d \in Shutdowns, NEW b \in BusCalls \cup {None}, ShutdownCall(d, b)
      PROVE WorkerInv'
  BY <1>7, WorkerFrame DEF ShutdownCall, Start
<1>8. ASSUME NEW d \in Shutdowns, NEW topic \in Topics, CloseBus(d, topic)
      PROVE WorkerInv'
  BY <1>8, WorkerFrame DEF CloseBus
<1>9. ASSUME NEW d \in Shutdowns, NEW topic \in Topics, ClosePanics(d, topic)
      PROVE WorkerInv'
  BY <1>9, WorkerFrame DEF ClosePanics
<1>10. ASSUME NEW d \in Shutdowns, NEW topic \in Topics, VisitDispatcher(d, topic)
       PROVE WorkerInv'
  BY <1>10, WorkerFrame DEF VisitDispatcher
<1>11. ASSUME NEW d \in Shutdowns, WaitReturns(d)
       PROVE WorkerInv'
  BY <1>11, WorkerFrame DEF WaitReturns
<1>12. ASSUME NEW d \in Shutdowns, ShutdownReturn(d)
       PROVE WorkerInv'
  BY <1>12, WorkerFrame DEF ShutdownReturn
<1>13. ASSUME NEW c \in Calls, LockAnnounce(c)
       PROVE WorkerInv'
  BY <1>13, WorkerFrame DEF LockAnnounce
<1>14. ASSUME NEW b \in BusCalls, StopDirectly(b) \/ HandlerStart(b) \/ HandlerEnd(b) \/ WorkerExit(b)
       PROVE WorkerInv'
  BY <1>14, WorkerFrame DEF StopDirectly, HandlerStart, HandlerEnd, WorkerExit
<1>15. CASE UNCHANGED vars
  BY <1>15, WorkerFrame
<1>16. QED
  BY <1>1, <1>2, <1>3, <1>4, <1>5, <1>6, <1>7, <1>8, <1>9, <1>10, <1>11, <1>12, <1>13, <1>14, <1>15
     DEF Next, Environment, Progress, Calls

-----------------------------------------------------------------------------
(* The invariant.                                                          *)

\* The conjuncts together are inductive.
LEMMA Invariance == Spec => []Inv
<1>1. Init => Inv
  BY TypeInit, LockInit, MapInit, WorkerInit DEF Inv
<1>2. Inv /\ [Next]_vars => Inv'
  BY TypeStep, LockStep, MapStep, WorkerStep DEF Inv
<1>3. QED
  BY <1>1, <1>2, PTL DEF Spec

\* The variables of the registry keep their types.
THEOREM TypeCorrect == Spec => []TypeOK
<1>1. Inv => TypeOK
  BY DEF Inv
<1>2. QED
  BY <1>1, Invariance, PTL

\* Calls that are over have left the lock of the registry, panics of options and
\* middleware included, and a bus is made by the one holder.
THEOREM LockNotLeaked == Spec => []LockHeldByActiveCalls
<1>1. Inv => LockHeldByActiveCalls
  BY DEF Inv, LockInv
<1>2. QED
  BY <1>1, Invariance, PTL

\* Racing Bus calls get the one bus of their topic, which Shutdown will find.
THEOREM UniqueBus == Spec => []OneBusPerTopic
<1>1. Inv => OneBusPerTopic
  BY DEF Inv, MapInv
<1>2. QED
  BY <1>1, Invariance, PTL

\* A bus has the topic and type asked for; an error has one of two causes.
THEOREM TypedResults == Spec => []ResultsTyped
<1>1. Inv => ResultsTyped
  BY DEF Inv, MapInv
<1>2. QED
  BY <1>1, Invariance, PTL

-----------------------------------------------------------------------------
(* Shutdown.                                                               *)

\* The topics a Shutdown has been at have buses whose workers have ended, but
\* for the bus it waits for; the workers it has to see end were started.
ShutdownInv ==
    /\ \A d \in Shutdowns : before[d] \subseteq started
    /\ \A d \in Shutdowns : pc[d] = "idle" => visited[d] = {}
    /\ \A d \in Shutdowns, t \in Topics :
          pc[d] \in {"lock", "wait"} /\ t \in visited[d] => buses[t] # None
    /\ \A d \in Shutdowns, t \in Topics :
          kind = "event" /\ pc[d] = "lock" /\ t \in visited[d] => buses[t] \in exited
    /\ \A d \in Shutdowns, t \in Topics :
          pc[d] = "wait" /\ t \in visited[d] => buses[t] \in exited \cup {waitsFor[d]}
    /\ ShutdownStopsAll

\* The invariant holds initially.
LEMMA ShutdownInit == Init => ShutdownInv
  BY DEF Init, ShutdownInv, ShutdownStopsAll, Calls

\* What does not touch the Shutdowns keeps it, whatever it adds to the map and
\* to the workers that have started, ended or will never be reached.
LEMMA ShutdownFrame ==
    ASSUME TypeOK, ShutdownInv,
           UNCHANGED <<kind, shutdownVars>>,
           \A d \in Shutdowns : pc'[d] = pc[d],
           \A b \in BusCalls : pc[b] = "panicked" => pc'[b] = "panicked",
           \A t \in Topics : buses[t] # None => buses'[t] = buses[t],
           started \subseteq started', exited \subseteq exited'
    PROVE  ShutdownInv'
<1>1. before \in [Shutdowns -> SUBSET BusCalls]
  BY DEF TypeOK
<1>2. QED
  BY <1>1 DEF ShutdownInv, ShutdownStopsAll

\* Every step keeps it.
LEMMA ShutdownStep == Inv /\ ShutdownInv /\ [Next]_vars => ShutdownInv'
<1> SUFFICES ASSUME TypeOK, LockInv, MapInv, WorkerInv, ShutdownInv, [Next]_vars PROVE ShutdownInv'
  BY DEF Inv
<1>0. /\ pc \in [Calls -> {"idle", "check", "lock", "new", "wrap", "wait"} \cup Ended]
      /\ before \in [Shutdowns -> SUBSET BusCalls]
      /\ visited \in [Shutdowns -> SUBSET Topics]
      /\ waitsFor \in [Shutdowns -> BusCalls \cup {None}]
      /\ buses \in [Topics -> BusCalls \cup {None}]
      /\ kind \in {"event", "dispatcher"}
      /\ started \subseteq BusCalls
  BY DEF TypeOK
<1> USE <1>0, RegistryAssumption DEF Goto, Calls
<1>1. ASSUME NEW c \in BusCalls, NEW b \in BusCalls \cup {None}, NEW topic \in Topics,
             NEW type \in Types, BusCall(c, b, topic, type)
      PROVE ShutdownInv'
  BY <1>1, ShutdownFrame DEF BusCall, Start
<1>2. ASSUME NEW c \in BusCalls, Check(c)
      PROVE ShutdownInv'
  BY <1>2, ShutdownFrame DEF Check
<1>3. ASSUME NEW c \in BusCalls, LookAgain(c)
      PROVE ShutdownInv'
  BY <1>3, ShutdownFrame DEF LookAgain
<1>4. ASSUME NEW c \in BusCalls, MakeProvider(c)
      PROVE ShutdownInv'
  BY <1>4, ShutdownFrame DEF MakeProvider
<1>5. ASSUME NEW c \in BusCalls, Store(c)
      PROVE ShutdownInv'
  <2>1. \A t \in Topics : buses[t] # None => buses'[t] = buses[t]
    BY <1>5 DEF Store, MapInv, Making
  <2>2. QED
    BY <1>5, <2>1, ShutdownFrame DEF Store
<1>6. ASSUME NEW c \in BusCalls, MakePanics(c)
      PROVE ShutdownInv'
  BY <1>6, ShutdownFrame DEF MakePanics
<1>7. ASSUME NEW d \in Shutdowns, NEW b \in BusCalls \cup {None}, ShutdownCall(d, b)
      PROVE ShutdownInv'
  BY <1>7 DEF ShutdownCall, Start, ShutdownInv, ShutdownStopsAll
<1>8. ASSUME NEW d \in Shutdowns, NEW topic \in Topics, CloseBus(d, topic)
      PROVE ShutdownInv'
  BY <1>8 DEF CloseBus, ShutdownInv, ShutdownStopsAll
<1>9. ASSUME NEW d \in Shutdowns, NEW topic \in Topics, ClosePanics(d, topic)
      PROVE ShutdownInv'
  BY <1>9 DEF ClosePanics, ShutdownInv, ShutdownStopsAll
<1>10. ASSUME NEW d \in Shutdowns, NEW topic \in Topics, VisitDispatcher(d, topic)
       PROVE ShutdownInv'
  BY <1>10 DEF VisitDispatcher, ShutdownInv, ShutdownStopsAll
<1>11. ASSUME NEW d \in Shutdowns, WaitReturns(d)
       PROVE ShutdownInv'
  BY <1>11 DEF WaitReturns, ShutdownInv, ShutdownStopsAll
<1>12. ASSUME NEW d \in Shutdowns, ShutdownReturn(d)
       PROVE ShutdownInv'
  <2>1. \A b \in started : pc[b] # "wrap"
    BY <1>12 DEF ShutdownReturn, Mu!Holds, LockInv, LockHeldByActiveCalls, Making
  <2>2. kind = "event" => Registered \subseteq exited
    BY <1>12 DEF ShutdownReturn, ShutdownInv, Registered
  <2>3. \A b \in before[d] : b \in exited \/ pc[b] = "panicked"
    BY <2>1, <2>2 DEF WorkerInv, ShutdownInv
  <2>4. QED
    BY <1>12, <2>3 DEF ShutdownReturn, ShutdownInv, ShutdownStopsAll
<1>13. ASSUME NEW c \in Calls, LockAnnounce(c)
       PROVE ShutdownInv'
  BY <1>13, ShutdownFrame DEF LockAnnounce
<1>14. ASSUME NEW b \in BusCalls, StopDirectly(b) \/ HandlerStart(b) \/ HandlerEnd(b) \/ WorkerExit(b)
       PROVE ShutdownInv'
  BY <1>14, ShutdownFrame DEF StopDirectly, HandlerStart, HandlerEnd, WorkerExit
<1>15. CASE UNCHANGED vars
  BY <1>15, ShutdownFrame
<1>16. QED
  BY <1>1, <1>2, <1>3, <1>4, <1>5, <1>6, <1>7, <1>8, <1>9, <1>10, <1>11, <1>12, <1>13, <1>14, <1>15
     DEF Next, Environment, Progress, Calls

\* A Shutdown that returns has seen every worker end that ran when it began,
\* but for those of buses whose NewBus panicked.
THEOREM ShutdownComplete == Spec => []ShutdownStopsAll
<1>1. ShutdownInv => ShutdownStopsAll
  BY DEF ShutdownInv
<1>2. QED
  BY <1>1, Invariance, ShutdownInit, ShutdownStep, PTL DEF Spec

-----------------------------------------------------------------------------
(* Hangs.                                                                  *)

\* Who waits where: a first lookup has the read lock or queues for it behind a
\* writer; only the Shutdown of an event registry waits, for a bus it stopped.
WaitInv ==
    /\ \A c \in BusCalls : pc[c] = "check" => c \in readers \cup queued
    /\ queued # {} => writers # {}
    /\ \A d \in Shutdowns : pc[d] = "wait" => kind = "event" /\ waitsFor[d] \in stopped
    /\ \A c \in Calls : parent[c] # None => pc[c] # "idle"

\* Nobody waits initially.
LEMMA WaitInit == Init => WaitInv
  BY DEF Init, WaitInv, Calls, Mu!MuInit

\* Every step keeps it.
LEMMA WaitStep == Inv /\ WaitInv /\ [Next]_vars => WaitInv'
<1> SUFFICES ASSUME TypeOK, LockInv, WaitInv, [Next]_vars PROVE WaitInv'
  BY DEF Inv
<1>0. /\ pc \in [Calls -> {"idle", "check", "lock", "new", "wrap", "wait"} \cup Ended]
      /\ parent \in [Calls -> BusCalls \cup {None}]
      /\ waitsFor \in [Shutdowns -> BusCalls \cup {None}]
      /\ readers \subseteq BusCalls /\ queued \subseteq BusCalls /\ writers \subseteq Calls
      /\ BusCalls \cap Shutdowns = {}
  BY RegistryAssumption DEF TypeOK
<1> USE <1>0 DEF WaitInv, Goto, Calls, Ended
<1>1. ASSUME NEW c \in BusCalls, NEW b \in BusCalls \cup {None}, NEW topic \in Topics,
             NEW type \in Types, BusCall(c, b, topic, type)
      PROVE  WaitInv'
  BY <1>1 DEF BusCall, Start, Mu!RLock
<1>2. ASSUME NEW c \in BusCalls, Check(c)
      PROVE  WaitInv'
  BY <1>2 DEF Check, Mu!RUnlock
<1>3. ASSUME NEW c \in BusCalls, LookAgain(c)
      PROVE  WaitInv'
  BY <1>3 DEF LookAgain, Mu!Unlock
<1>4. ASSUME NEW c \in BusCalls, MakeProvider(c)
      PROVE  WaitInv'
  BY <1>4 DEF MakeProvider
<1>5. ASSUME NEW c \in BusCalls, Store(c)
      PROVE  WaitInv'
  BY <1>5 DEF Store, Mu!Unlock
<1>6. ASSUME NEW c \in BusCalls, MakePanics(c)
      PROVE  WaitInv'
  BY <1>6 DEF MakePanics, Mu!Unlock
<1>7. ASSUME NEW d \in Shutdowns, NEW b \in BusCalls \cup {None}, ShutdownCall(d, b)
      PROVE  WaitInv'
  BY <1>7 DEF ShutdownCall, Start
<1>8. ASSUME NEW d \in Shutdowns, NEW topic \in Topics, CloseBus(d, topic)
      PROVE  WaitInv'
  BY <1>8 DEF CloseBus
<1>9. ASSUME NEW d \in Shutdowns, NEW topic \in Topics, ClosePanics(d, topic)
      PROVE  WaitInv'
  BY <1>9 DEF ClosePanics, Mu!Unlock
<1>10. ASSUME NEW d \in Shutdowns, NEW topic \in Topics, VisitDispatcher(d, topic)
       PROVE  WaitInv'
  BY <1>10 DEF VisitDispatcher
<1>11. ASSUME NEW d \in Shutdowns, WaitReturns(d)
       PROVE  WaitInv'
  BY <1>11 DEF WaitReturns
<1>12. ASSUME NEW d \in Shutdowns, ShutdownReturn(d)
       PROVE  WaitInv'
  BY <1>12 DEF ShutdownReturn, Mu!Unlock
<1>13. ASSUME NEW c \in Calls, LockAnnounce(c)
       PROVE  WaitInv'
  BY <1>13 DEF LockAnnounce, Mu!Announce
<1>14. ASSUME NEW b \in BusCalls, StopDirectly(b) \/ HandlerStart(b) \/ HandlerEnd(b) \/ WorkerExit(b)
       PROVE  WaitInv'
  BY <1>14 DEF StopDirectly, HandlerStart, HandlerEnd, WorkerExit
<1>15. CASE UNCHANGED vars
  BY <1>15
<1>16. QED
  BY <1>1, <1>2, <1>3, <1>4, <1>5, <1>6, <1>7, <1>8, <1>9, <1>10, <1>11, <1>12, <1>13, <1>14, <1>15
     DEF Next, Environment, Progress

\* What a stuck registry looks like.
LEMMA StuckRegistry ==
    ASSUME Inv, WaitInv
    PROVE  HangsOnlyByReentry
<1> SUFFICES ASSUME ~CanMove,
                    ~ \E c \in Calls :
                        /\ parent[c] # None /\ ~AtRest(c)
                        /\ kind = "event" \/ pc[parent[c]] \in Making
             PROVE  \A c \in Calls : AtRest(c)
  BY DEF HangsOnlyByReentry
<1>0. /\ pc \in [Calls -> {"idle", "check", "lock", "new", "wrap", "wait"} \cup Ended]
      /\ readers \subseteq BusCalls /\ writers \subseteq Calls /\ busy \subseteq BusCalls
  BY DEF Inv, TypeOK
<1>1. ASSUME NEW b \in BusCalls, kind = "event" \/ pc[b] \in Making
      PROVE  ~Busy(b)
  <2> SUFFICES ASSUME NEW c \in Calls, parent[c] = b, pc[c] \notin Ended PROVE FALSE
    BY DEF Busy
  <2>1. parent[c] # None
    BY RegistryAssumption DEF Calls
  <2>2. ~AtRest(c)
    BY <2>1 DEF WaitInv, AtRest
  <2>3. QED
    BY <1>1, <2>1, <2>2
<1>2. \A c \in BusCalls : pc[c] \notin Making
  BY <1>1 DEF CanMove
<1>3. \A d \in Shutdowns : pc[d] # "wait"
  <2> SUFFICES ASSUME NEW d \in Shutdowns, pc[d] = "wait" PROVE FALSE
    OBVIOUS
  <2>1. kind = "event" /\ waitsFor[d] \in stopped
    BY DEF WaitInv
  <2>2. waitsFor[d] \notin busy
    BY <1>0, <1>1, <2>1 DEF CanMove
  <2>3. QED
    BY <2>1, <2>2 DEF CanMove
<1>4. readers = {}
  BY <1>0 DEF Inv, LockInv, LockHeldByActiveCalls, CanMove
<1>5. writers = {}
  <2> SUFFICES ASSUME NEW c \in writers PROVE FALSE
    OBVIOUS
  <2>1. c \in Calls /\ pc[c] = "lock"
    BY <1>0, <1>2, <1>3 DEF Inv, LockInv, LockHeldByActiveCalls, Calls
  <2>2. QED
    BY <1>4, <2>1 DEF CanMove, Mu!Holds
<1>6. \A c \in Calls : pc[c] \notin {"check", "lock"}
  BY <1>4, <1>5 DEF WaitInv, CanMove, Inv, LockInv, Calls
<1>7. \A c \in Calls : pc[c] \notin {"wait"} \cup Making
  BY <1>2, <1>3 DEF Inv, LockInv, Calls
<1>8. QED
  BY <1>0, <1>6, <1>7 DEF AtRest, Making

\* A registry hangs only when user code it waits for called back into it, for
\* any number of calls and topics and any nesting of the handlers.
THEOREM HangsExplained == Spec => []HangsOnlyByReentry
<1>1. Inv /\ WaitInv => HangsOnlyByReentry
  BY StuckRegistry
<1>2. WaitInv /\ Inv /\ [Next]_vars => WaitInv'
  BY WaitStep
<1>3. QED
  BY <1>1, <1>2, Invariance, WaitInit, PTL DEF Spec

-----------------------------------------------------------------------------
(* The refinement.                                                         *)

\* Every step is a step of the atomic lookup, or leaves its variables alone.
LEMMA PromiseStep == Inv /\ [Next]_vars => [Promise!Next]_(Promise!vars)
<1> SUFFICES ASSUME TypeOK, MapInv, [Next]_vars PROVE [Promise!Next]_(Promise!vars)
  BY DEF Inv
<1>0. /\ asked \in [BusCalls -> [topic : Topics, type : Types] \cup {None}]
      /\ result \in [BusCalls -> BusCalls \cup {None, Error}]
      /\ buses \in [Topics -> BusCalls \cup {None}]
  BY DEF TypeOK
<1>a. \A c \in BusCalls : pc[c] # "idle" => asked[c] \in [topic : Topics, type : Types]
  BY DEF MapInv
<1>w. ASSUME NEW c \in BusCalls, pc[c] \in {"check", "lock", "wrap"}
      PROVE  Promise!Waiting(c)
  BY <1>w, <1>a, RegistryAssumption DEF MapInv, Promise!Waiting
<1> USE DEF Goto, Promise!vars
<1>1. ASSUME NEW c \in BusCalls, NEW b \in BusCalls \cup {None}, NEW topic \in Topics,
             NEW type \in Types, BusCall(c, b, topic, type)
      PROVE [Promise!Next]_(Promise!vars)
  <2>1. asked[c] = None
    BY <1>1 DEF BusCall, Start, MapInv
  <2>2. Promise!Ask(c)
    BY <1>1, <2>1 DEF BusCall, Promise!Ask
  <2>3. QED
    BY <2>2 DEF Promise!Next
<1>2. ASSUME NEW c \in BusCalls, Check(c)
      PROVE [Promise!Next]_(Promise!vars)
  <2>1. CASE buses[asked[c].topic] = None
    BY <1>2, <2>1 DEF Check
  <2>2. CASE buses[asked[c].topic] # None
    <3>1. Promise!Get(c)
      BY <1>2, <2>2, <1>w DEF Check, TypedBus, Promise!Get
    <3>2. QED
      BY <3>1 DEF Promise!Next
  <2>3. QED
    BY <2>1, <2>2
<1>3. ASSUME NEW c \in BusCalls, LookAgain(c)
      PROVE [Promise!Next]_(Promise!vars)
  <2>0. Promise!Waiting(c) /\ asked' = asked /\ buses' = buses
    BY <1>3, <1>w DEF LookAgain
  <2>1. CASE result' = result
    BY <2>0, <2>1
  <2>2. CASE /\ buses[asked[c].topic] # None
             /\ result' = [result EXCEPT ![c] = TypedBus(c, buses[asked[c].topic])]
    BY <2>0, <2>2 DEF TypedBus, Promise!Get, Promise!Next
  <2>3. CASE buses[asked[c].topic] = None /\ result' = [result EXCEPT ![c] = Error]
    BY <2>0, <2>3 DEF Promise!Refuse, Promise!Next
  <2>4. QED
    BY <1>3, <2>1, <2>2, <2>3 DEF LookAgain
<1>4. ASSUME NEW c \in BusCalls, MakeProvider(c)
      PROVE [Promise!Next]_(Promise!vars)
  BY <1>4 DEF MakeProvider
<1>5. ASSUME NEW c \in BusCalls, Store(c)
      PROVE [Promise!Next]_(Promise!vars)
  <2>1. Promise!Waiting(c) /\ buses[asked[c].topic] = None
    BY <1>5, <1>w DEF Store, MapInv, Making
  <2>2. Promise!Create(c)
    BY <1>5, <2>1 DEF Store, Promise!Create
  <2>3. QED
    BY <2>2 DEF Promise!Next
<1>6. ASSUME NEW c \in BusCalls, MakePanics(c)
      PROVE [Promise!Next]_(Promise!vars)
  BY <1>6 DEF MakePanics
<1>7. ASSUME NEW d \in Shutdowns, NEW b \in BusCalls \cup {None}, ShutdownCall(d, b)
      PROVE [Promise!Next]_(Promise!vars)
  BY <1>7 DEF ShutdownCall
<1>8. ASSUME NEW d \in Shutdowns, NEW topic \in Topics, CloseBus(d, topic)
      PROVE [Promise!Next]_(Promise!vars)
  BY <1>8 DEF CloseBus
<1>9. ASSUME NEW d \in Shutdowns, NEW topic \in Topics, ClosePanics(d, topic)
      PROVE [Promise!Next]_(Promise!vars)
  BY <1>9 DEF ClosePanics
<1>10. ASSUME NEW d \in Shutdowns, NEW topic \in Topics, VisitDispatcher(d, topic)
       PROVE [Promise!Next]_(Promise!vars)
  BY <1>10 DEF VisitDispatcher
<1>11. ASSUME NEW d \in Shutdowns, WaitReturns(d)
       PROVE [Promise!Next]_(Promise!vars)
  BY <1>11 DEF WaitReturns
<1>12. ASSUME NEW d \in Shutdowns, ShutdownReturn(d)
       PROVE [Promise!Next]_(Promise!vars)
  BY <1>12 DEF ShutdownReturn
<1>13. ASSUME NEW c \in Calls, LockAnnounce(c)
       PROVE [Promise!Next]_(Promise!vars)
  BY <1>13 DEF LockAnnounce
<1>14. ASSUME NEW b \in BusCalls, StopDirectly(b) \/ HandlerStart(b) \/ HandlerEnd(b) \/ WorkerExit(b)
       PROVE [Promise!Next]_(Promise!vars)
  BY <1>14 DEF StopDirectly, HandlerStart, HandlerEnd, WorkerExit
<1>15. CASE UNCHANGED vars
  BY <1>15
<1>16. QED
  BY <1>1, <1>2, <1>3, <1>4, <1>5, <1>6, <1>7, <1>8, <1>9, <1>10, <1>11, <1>12, <1>13, <1>14, <1>15
     DEF Next, Environment, Progress, Calls

\* The double-checked lookup implements the atomic get-or-create.
THEOREM LookupIsAtomic == Spec => GetsOrCreates
<1>1. Init => Promise!Init
  BY DEF Init, Promise!Init
<1>2. QED
  BY <1>1, Invariance, PromiseStep, PTL DEF Spec, GetsOrCreates, Promise!Spec

-----------------------------------------------------------------------------
(* What can move.                                                          *)

\* Half of WaitsForNothingElse: no action of the registry or of a bus is taken in a
\* state in which CanMove says that everything waits.
LEMMA ProgressMoves == Inv /\ Progress => CanMove
<1> SUFFICES ASSUME Inv, Progress PROVE CanMove
  OBVIOUS
<1> USE DEF CanMove, Calls
<1>1. ASSUME NEW c \in BusCalls, Check(c)
      PROVE  CanMove
  BY <1>1 DEF Check
<1>2. ASSUME NEW c \in Calls, LockAnnounce(c)
      PROVE  CanMove
  BY <1>2 DEF LockAnnounce, Mu!Announce
<1>3. ASSUME NEW c \in BusCalls, LookAgain(c)
      PROVE  CanMove
  BY <1>3 DEF LookAgain
<1>4. ASSUME NEW c \in BusCalls, MakeProvider(c) \/ Store(c) \/ MakePanics(c)
      PROVE  CanMove
  BY <1>4 DEF MakeProvider, Store, MakePanics, Making
<1>5. ASSUME NEW d \in Shutdowns, NEW topic \in Topics,
             CloseBus(d, topic) \/ ClosePanics(d, topic) \/ VisitDispatcher(d, topic)
      PROVE  CanMove
  BY <1>5 DEF CloseBus, ClosePanics, VisitDispatcher
<1>6. ASSUME NEW d \in Shutdowns, WaitReturns(d) \/ ShutdownReturn(d)
      PROVE  CanMove
  BY <1>6 DEF WaitReturns, ShutdownReturn
<1>7. ASSUME NEW b \in BusCalls, HandlerEnd(b) \/ WorkerExit(b)
      PROVE  CanMove
  BY <1>7 DEF HandlerEnd, WorkerExit
<1>8. QED
  BY <1>1, <1>2, <1>3, <1>4, <1>5, <1>6, <1>7 DEF Progress

\* The registry and its buses take a step of their own only when CanMove says that
\* something can move: what HangsExplained calls stuck is stuck.
THEOREM MovesAsNamed == Spec => [][Progress => CanMove]_vars
  BY Invariance, ProgressMoves, PTL DEF Spec

=============================================================================
