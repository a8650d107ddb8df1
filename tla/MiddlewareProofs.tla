--------------------------- MODULE MiddlewareProofs ---------------------------
(***************************************************************************)
(* Theorems about the middleware, for any number of calls and messages.    *)
(***************************************************************************)
EXTENDS Middleware, TLAPS

USE DEF vars, callVars, metaVars, spanVars, statusVars

\* What a call that has not begun leaves alone, and where the others can be.
CallInv ==
    /\ \A c \in Calls : pc[c] = "idle" =>
          /\ msg[c] = None /\ run[c] = "none"
          /\ from[c] = None
          /\ outcome[c] = None /\ counted[c] = None
          /\ consumed[c] = None /\ logged[c] = None
          /\ \A k \in {"publish", "process"} : <<c, k>> \notin started
    /\ \A c \in Calls : pc[c] # "idle" => msg[c] \in Messages
    /\ \A c \in Calls : from[c] # None => pc[from[c]] # "idle"

\* The events: a handler runs after Inject, and a synchronous one before
\* Publish goes on.
EventInv ==
    \A c \in Calls : msg[c] \in Events =>
        /\ pc[c] \in {"inject", "provider"} \cup Ended
        /\ pc[c] = "inject" => run[c] = "none"
        /\ pc[c] = "panicked" => run[c] \in {"none", "over"}
        /\ ~async /\ run[c] \in {"extract", "handler"} => pc[c] = "provider"
        /\ <<c, "publish">> \in started
        /\ <<c, "publish">> \in ended <=> pc[c] \in Ended
        /\ <<c, "process">> \in started <=> run[c] \in {"handler", "over"}
        /\ <<c, "process">> \in ended <=> run[c] = "over"
        /\ run[c] # "over" => outcome[c] = None /\ consumed[c] = None

\* The commands: the span of Dispatch is around the one of the handler.
CommandInv ==
    \A c \in Calls : msg[c] \in Commands =>
        /\ run[c] = "none" /\ consumed[c] = None
        /\ pc[c] = "extract" =>
              \A k \in {"publish", "process"} : <<c, k>> \notin started
        /\ pc[c] # "extract" => <<c, "process">> \in started
        /\ pc[c] \in {"inject", "handler"} => <<c, "publish">> \in started
        /\ pc[c] = "provider" => <<c, "publish">> \notin started
        /\ pc[c] \notin Ended =>
              /\ outcome[c] = None /\ counted[c] = None /\ logged[c] = None
              /\ \A k \in {"publish", "process"} : <<c, k>> \notin ended
        /\ pc[c] \in Ended =>
              \A k \in {"publish", "process"} : <<c, k>> \in started => <<c, k>> \in ended

\* The span in a map is that of a call that used the message, and the span
\* that a handler passes on was started.
MetaInv ==
    /\ \A m \in Messages : meta[m] \notin {None, Restored} =>
          \E d \in Calls : msg[d] = m /\ meta[m] = <<d, "publish">>
    /\ \A c \in Calls : HandlerSpan(from[c]) \in started \cup {None}

\* What the retransmitter put into the map of an event is there only until the first
\* Publish of the event injects: before any handler could read it.
RestoredInv ==
    \A m \in Messages : meta[m] = Restored =>
        /\ m \in Events \ WithoutMap
        /\ \A c \in Calls : msg[c] = m => pc[c] = "inject"

\* From its Inject until its handler extracts, the map of an event holds the span of the
\* Publish, or that of a call that injected after it.
InjectedInv ==
    \A c \in Calls :
        msg[c] \in Events /\ pc[c] \in {"provider", "done"} /\ run[c] \in {"none", "extract"} =>
            \E d \in {c} \cup overtook[c] : meta[msg[c]] = <<d, "publish">>

\* No span is in the trace that came out of a row.
RestoredTraceUnused == \A s \in Spans : parent[s] # Restored

Inv ==
    /\ TypeOK /\ CallInv /\ EventInv /\ CommandInv /\ MetaInv
    /\ RestoredInv /\ InjectedInv /\ RestoredTraceUnused
    /\ HandlerInItsTrace /\ ErrorsObserved

\* The invariant holds initially.
LEMMA InvInit == Init => Inv
<1> SUFFICES ASSUME Init PROVE Inv
  OBVIOUS
<1> USE MiddlewareAssumption DEF Init, Restore
<1>1. TypeOK
  BY DEF TypeOK
<1>2. CallInv /\ EventInv /\ CommandInv
  BY DEF CallInv, EventInv, CommandInv, Messages
<1>3. MetaInv
  BY DEF MetaInv, HandlerSpan
<1>r. RestoredInv /\ InjectedInv /\ RestoredTraceUnused
  BY DEF RestoredInv, InjectedInv, RestoredTraceUnused, Messages
<1>4. HandlerInItsTrace /\ ErrorsObserved
  BY DEF HandlerInItsTrace, ErrorsObserved, Observed, Publishes, Dispatches
<1>5. QED
  BY <1>1, <1>2, <1>3, <1>r, <1>4 DEF Inv

\* The span that a handler passes on was started.
LEMMA HandlerSpanStarted ==
  ASSUME EventInv, CommandInv, CallInv,
         NEW f \in Calls, InHandler(f)
  PROVE  HandlerSpan(f) \in started /\ pc[f] # "idle"
BY MiddlewareAssumption
   DEF EventInv, CommandInv, CallInv, InHandler, HandlerSpan, Messages, Ended

\* It stays the same while the messages of the calls under way do.
LEMMA HandlerSpanKept ==
  ASSUME TypeOK, CallInv,
         \A d \in Calls : pc[d] # "idle" =>
             msg'[d] = msg[d] /\ from'[d] = from[d],
         NEW d \in Calls, pc[d] # "idle"
  PROVE  HandlerSpan(from[d])' = HandlerSpan(from[d])
<1>1. CASE from[d] = None
  BY <1>1 DEF HandlerSpan
<1>2. CASE from[d] # None
  <2>1. from[d] \in Calls /\ pc[from[d]] # "idle"
    BY <1>2 DEF TypeOK, CallInv
  <2>2. QED
    BY <1>2, <2>1 DEF HandlerSpan
<1>3. QED
  BY <1>1, <1>2

\* The process span of c is where HandlerInItsTrace wants it.
InTrace(c) ==
    /\ c \in Publishes => EventInTrace(c)
    /\ c \in Dispatches => CommandInTrace(c)

\* A step that changes neither the message of a call under way nor the parent
\* of a process span, but for one that is in its trace, keeps the traces.
LEMMA TraceKept ==
  ASSUME TypeOK, CallInv, HandlerInItsTrace,
         \A d \in Calls : pc[d] # "idle" =>
             msg'[d] = msg[d] /\ from'[d] = from[d],
         \A d \in Calls : <<d, "process">> \in started' =>
             \/ InTrace(d)'
             \/ /\ <<d, "process">> \in started
                /\ parent'[<<d, "process">>] = parent[<<d, "process">>]
                /\ overtook'[d] = overtook[d]
  PROVE  HandlerInItsTrace'
<1> SUFFICES ASSUME NEW d \in Calls, <<d, "process">> \in started,
                    parent'[<<d, "process">>] = parent[<<d, "process">>],
                    overtook'[d] = overtook[d]
             PROVE  InTrace(d)'
  BY DEF HandlerInItsTrace, InTrace
<1>1. pc[d] # "idle" /\ InTrace(d)
  BY DEF HandlerInItsTrace, CallInv, InTrace
<1>2. /\ msg'[d] = msg[d] /\ from'[d] = from[d]
      /\ msg[d] \in Messages
  BY <1>1 DEF CallInv
<1>3. HandlerSpan(from[d])' = HandlerSpan(from[d])
  BY <1>1, HandlerSpanKept
<1>4. \A e \in Calls : msg[e] = msg[d] => msg'[e] = msg'[d]
  <2>1. None \notin Messages
    BY MiddlewareAssumption
  <2>2. ASSUME NEW e \in Calls, msg[e] = msg[d] PROVE pc[e] # "idle"
    BY <2>1, <2>2, <1>2 DEF CallInv
  <2>3. QED
    BY <2>2, <1>2
<1>5. (d \in Publishes)' <=> d \in Publishes
  BY <1>2 DEF Publishes
<1>6. (d \in Dispatches)' <=> d \in Dispatches
  BY <1>2 DEF Dispatches
<1>7. EventInTrace(d) => EventInTrace(d)'
  BY DEF EventInTrace
<1>8. CommandInTrace(d) => CommandInTrace(d)'
  BY <1>2, <1>3, <1>4 DEF CommandInTrace
<1>9. QED
  BY <1>1, <1>5, <1>6, <1>7, <1>8 DEF InTrace

\* A step that tells only of call c, and truly, keeps what was told.
LEMMA ErrorsKept ==
  ASSUME ErrorsObserved, NEW c \in Calls, Observed(c)',
         \A s \in erred : s \in erred',
         \A d \in Calls \ {c} :
             /\ msg'[d] = msg[d] /\ outcome'[d] = outcome[d]
             /\ counted'[d] = counted[d] /\ consumed'[d] = consumed[d]
             /\ logged'[d] = logged[d]
  PROVE  ErrorsObserved'
<1> SUFFICES ASSUME NEW d \in Calls \ {c} PROVE Observed(d)'
  BY DEF ErrorsObserved
<1>1. Observed(d)
  BY DEF ErrorsObserved
<1>2. QED
  BY <1>1 DEF Observed, Publishes, Dispatches

\* Only the handlers of events run in a provider of their own.
LEMMA RunningIsEvent ==
  ASSUME CallInv, CommandInv, NEW c \in Calls, run[c] # "none"
  PROVE  msg[c] \in Events
BY DEF CallInv, CommandInv, Messages

\* Inject replaces what was restored, and an event with a map is not over before Inject.
LEMMA RestoredStep ==
    ASSUME TypeOK, CallInv, EventInv, CommandInv, RestoredInv, [Next]_vars
    PROVE  RestoredInv'
<1>0. /\ pc \in [Calls -> {"idle", "extract", "inject", "provider", "handler"} \cup Ended]
      /\ msg \in [Calls -> Messages \cup {None}]
      /\ DOMAIN meta = Messages
  BY DEF TypeOK
<1> USE <1>0, MiddlewareAssumption DEF Ended, RestoredInv, Goto
<1>1. ASSUME NEW c \in Calls, NEW f \in Calls \cup {None}, NEW e \in Events, PublishCall(c, f, e)
      PROVE  RestoredInv'
  BY <1>1 DEF PublishCall, Start
<1>2. ASSUME NEW c \in Calls, NEW f \in Calls \cup {None}, NEW m \in Commands, DispatchCall(c, f, m)
      PROVE  RestoredInv'
  BY <1>2 DEF DispatchCall, Start, Messages
<1>3. ASSUME NEW c \in Calls, PublishInject(c)
      PROVE  RestoredInv'
  BY <1>3 DEF PublishInject, Publishes, Inject, Spans
<1>4. ASSUME NEW c \in Calls, HandlerInject(c)
      PROVE  RestoredInv'
  BY <1>4 DEF HandlerInject, Dispatches, Inject, Spans, Messages
<1>5. ASSUME NEW c \in Calls, PublishPanics(c)
      PROVE  RestoredInv'
  BY <1>5 DEF PublishPanics, InjectPanics
<1>6. ASSUME NEW c \in Calls, ProcessPanic(c)
      PROVE  RestoredInv'
  <2>1. msg[c] \in Events /\ (~async => pc[c] = "provider")
    BY <1>6, RunningIsEvent DEF ProcessPanic, EventInv
  <2>2. UNCHANGED <<msg, meta>> /\ (async => UNCHANGED pc)
        /\ \A d \in Calls : d # c => pc'[d] = pc[d]
    <3>1. CASE async
      BY <1>6, <3>1 DEF ProcessPanic
    <3>2. CASE ~async
      BY <1>6, <3>2 DEF ProcessPanic
    <3>3. QED
      BY <3>1, <3>2
  <2>3. QED
    BY <2>1, <2>2
<1>7. ASSUME NEW c \in Calls, PublishReturn(c)
      PROVE  RestoredInv'
  BY <1>7 DEF PublishReturn
<1>8. ASSUME NEW c \in Calls,
             \/ DispatchStart(c) \/ NoHandler(c) \/ HandlerCall(c)
             \/ (\E err \in BOOLEAN : DispatchReturn(c, err)) \/ DispatchPanics(c)
      PROVE  RestoredInv'
  <2>1. msg[c] \in Commands /\ UNCHANGED <<msg, meta>>
        /\ \A d \in Calls : d # c => pc'[d] = pc[d]
    BY <1>8 DEF DispatchStart, NoHandler, HandlerCall, DispatchReturn, DispatchPanics, Dispatches
  <2>2. QED
    BY <2>1
<1>9. CASE UNCHANGED <<meta, msg, pc>>
  BY <1>9
<1>10. QED
  BY <1>1, <1>2, <1>3, <1>4, <1>5, <1>6, <1>7, <1>8, <1>9
     DEF Next, EventStep, CommandStep, HandOver, ProcessStart, ProcessReturn, ConcurrentMapAccess

\* Only a Publish of the event takes over its map.
LEMMA InjectedStep ==
    ASSUME TypeOK, CallInv, EventInv, CommandInv, InjectedInv, [Next]_vars
    PROVE  InjectedInv'
<1>0. /\ pc \in [Calls -> {"idle", "extract", "inject", "provider", "handler"} \cup Ended]
      /\ run \in [Calls -> {"none", "extract", "handler", "over"}]
      /\ msg \in [Calls -> Messages \cup {None}]
      /\ overtook \in [Calls -> SUBSET Calls]
      /\ DOMAIN meta = Messages
  BY DEF TypeOK
<1> USE <1>0, MiddlewareAssumption DEF Ended, InjectedInv, Goto
<1>1. ASSUME NEW c \in Calls, NEW f \in Calls \cup {None}, NEW e \in Events, PublishCall(c, f, e)
      PROVE  InjectedInv'
  BY <1>1 DEF PublishCall, Start
<1>2. ASSUME NEW c \in Calls, NEW f \in Calls \cup {None}, NEW m \in Commands, DispatchCall(c, f, m)
      PROVE  InjectedInv'
  BY <1>2 DEF DispatchCall, Start
<1>3. ASSUME NEW c \in Calls, PublishInject(c)
      PROVE  InjectedInv'
  <2>1. /\ msg[c] \in Events /\ msg[c] \in Messages \ Plain
        /\ pc' = [pc EXCEPT ![c] = "provider"] /\ UNCHANGED <<run, msg>>
        /\ Overtake(c) /\ Inject(c, msg[c])
    BY <1>3 DEF PublishInject, Publishes, Messages
  <2>2. meta' = [meta EXCEPT ![msg[c]] = <<c, "publish">>]
    BY <2>1 DEF Inject
  <2>3. SUFFICES ASSUME NEW d \in Calls, msg[d] \in Events, pc'[d] \in {"provider", "done"},
                        run[d] \in {"none", "extract"}
                 PROVE  \E x \in {d} \cup overtook'[d] : meta'[msg[d]] = <<x, "publish">>
    BY <2>1
  <2>4. CASE msg[d] = msg[c]
    <3>1. c \in {d} \cup overtook'[d]
      BY <2>1, <2>3, <2>4 DEF Overtake
    <3>2. meta'[msg[d]] = <<c, "publish">>
      BY <2>1, <2>2, <2>4
    <3>3. QED
      BY <3>1, <3>2
  <2>5. CASE msg[d] # msg[c]
    <3>1. d # c /\ overtook'[d] = overtook[d] /\ pc'[d] = pc[d]
      BY <2>1, <2>5 DEF Overtake
    <3>2. meta'[msg[d]] = meta[msg[d]]
      BY <2>2, <2>3, <2>5 DEF Messages
    <3>3. QED
      BY <2>3, <3>1, <3>2
  <2>6. QED
    BY <2>4, <2>5
<1>4. ASSUME NEW c \in Calls, HandlerInject(c)
      PROVE  InjectedInv'
  <2>1. /\ msg[c] \in Commands /\ pc' = [pc EXCEPT ![c] = "handler"]
        /\ UNCHANGED <<run, msg, overtook>> /\ Inject(c, msg[c])
    BY <1>4 DEF HandlerInject, Dispatches
  <2>2. \A m \in Events : meta'[m] = meta[m]
    BY <2>1 DEF Inject, Messages
  <2>3. QED
    BY <2>1, <2>2
<1>5. ASSUME NEW c \in Calls, PublishPanics(c)
      PROVE  InjectedInv'
  BY <1>5 DEF PublishPanics
<1>6. ASSUME NEW c \in Calls, ProcessPanic(c)
      PROVE  InjectedInv'
  BY <1>6 DEF ProcessPanic
<1>7. ASSUME NEW c \in Calls, PublishReturn(c)
      PROVE  InjectedInv'
  BY <1>7 DEF PublishReturn
<1>8. ASSUME NEW c \in Calls,
             \/ DispatchStart(c) \/ NoHandler(c) \/ HandlerCall(c)
             \/ (\E err \in BOOLEAN : DispatchReturn(c, err)) \/ DispatchPanics(c)
      PROVE  InjectedInv'
  <2>1. msg[c] \in Commands /\ UNCHANGED <<msg, meta, run, overtook>>
        /\ \A d \in Calls : d # c => pc'[d] = pc[d]
    BY <1>8 DEF DispatchStart, NoHandler, HandlerCall, DispatchReturn, DispatchPanics, Dispatches
  <2>2. QED
    BY <2>1
<1>9. ASSUME NEW c \in Calls, HandOver(c)
      PROVE  InjectedInv'
  BY <1>9 DEF HandOver
<1>10. ASSUME NEW c \in Calls, ProcessStart(c) \/ \E err \in BOOLEAN : ProcessReturn(c, err)
       PROVE  InjectedInv'
  <2>1. UNCHANGED <<msg, meta, pc, overtook>>
        /\ run'[c] \notin {"none", "extract"}
        /\ \A d \in Calls : d # c => run'[d] = run[d]
    BY <1>10 DEF ProcessStart, ProcessReturn
  <2>2. QED
    BY <2>1
<1>11. CASE UNCHANGED <<meta, msg, pc, run, overtook>>
  BY <1>11
<1>12. QED
  BY <1>1, <1>2, <1>3, <1>4, <1>5, <1>6, <1>7, <1>8, <1>9, <1>10, <1>11
     DEF Next, EventStep, CommandStep, ConcurrentMapAccess

\* A span is never started below what came out of a row.
LEMMA UnusedStep ==
    ASSUME TypeOK, CallInv, EventInv, CommandInv, MetaInv, RestoredInv,
           RestoredTraceUnused, [Next]_vars
    PROVE  RestoredTraceUnused'
<1>0. parent \in [Spans -> started \cup {Restored, None}] /\ Restored \notin Spans
      /\ started \subseteq Spans /\ Restored # None
  BY MiddlewareAssumption DEF TypeOK
<1> USE <1>0 DEF RestoredTraceUnused, StartSpan
<1>1. ASSUME NEW c \in Calls, NEW f \in Calls \cup {None}, NEW e \in Events, PublishCall(c, f, e)
      PROVE  RestoredTraceUnused'
  <2>1. f # None => HandlerSpan(f) \in started
    BY <1>1, HandlerSpanStarted DEF PublishCall, Start
  <2>2. HandlerSpan(f) # Restored
    BY <2>1 DEF HandlerSpan
  <2>3. QED
    BY <1>1, <2>2 DEF PublishCall
<1>2. ASSUME NEW c \in Calls, ProcessStart(c)
      PROVE  RestoredTraceUnused'
  <2>1. msg[c] \in Events /\ <<c, "publish">> \in started
    BY <1>2, RunningIsEvent DEF ProcessStart, EventInv
  <2>2. meta[msg[c]] # Restored
    BY <1>2, <2>1 DEF ProcessStart, EventInv, RestoredInv, Messages
  <2>3. Extract(msg[c], <<c, "publish">>) # Restored
    BY <2>1, <2>2 DEF Extract
  <2>4. QED
    BY <1>2, <2>3 DEF ProcessStart
<1>3. ASSUME NEW c \in Calls, DispatchStart(c)
      PROVE  RestoredTraceUnused'
  <2>1. meta[msg[c]] # Restored
    BY <1>3, MiddlewareAssumption DEF DispatchStart, Dispatches, RestoredInv, Messages
  <2>2. Extract(msg[c], HandlerSpan(from[c])) # Restored
    BY <2>1 DEF Extract, MetaInv
  <2>3. QED
    BY <1>3, <2>2 DEF DispatchStart
<1>4. ASSUME NEW c \in Calls, HandlerCall(c)
      PROVE  RestoredTraceUnused'
  <2>1. <<c, "process">> # Restored
    BY <1>4 DEF HandlerCall, Spans
  <2>2. QED
    BY <1>4, <2>1 DEF HandlerCall
<1>5. CASE UNCHANGED parent
  BY <1>5
<1>6. QED
  BY <1>1, <1>2, <1>3, <1>4, <1>5
     DEF Next, EventStep, CommandStep, PublishInject, PublishPanics, HandOver, ProcessReturn,
         ProcessPanic, PublishReturn, DispatchCall, NoHandler, HandlerInject, DispatchReturn,
         DispatchPanics, ConcurrentMapAccess

\* Every step keeps the invariant.
LEMMA InvStep == Inv /\ [Next]_vars => Inv'
<1> SUFFICES ASSUME TypeOK, CallInv, EventInv, CommandInv, MetaInv,
                    RestoredInv, InjectedInv, RestoredTraceUnused,
                    HandlerInItsTrace, ErrorsObserved, [Next]_vars
             PROVE  Inv'
  BY DEF Inv
<1>r. RestoredInv' /\ InjectedInv' /\ RestoredTraceUnused'
  BY RestoredStep, InjectedStep, UnusedStep
<1> USE MiddlewareAssumption DEF Ended
<1>1. ASSUME NEW c \in Calls, NEW f \in Calls \cup {None}, NEW e \in Events, PublishCall(c, f, e)
      PROVE Inv'
  <2>1. msg[c] = None /\ pc[c] = "idle"
    BY <1>1 DEF CallInv, Start, PublishCall
  <2>2. f # None => HandlerSpan(f) \in started /\ pc[f] # "idle" /\ f # c
    BY <1>1, HandlerSpanStarted, <2>1 DEF Start, PublishCall
  <2>3. TypeOK'
    BY <1>1, <2>1, <2>2
       DEF PublishCall, Start, StartSpan, Goto, HandlerSpan, TypeOK, Spans, Messages
  <2>4. CallInv'
    BY <1>1, <2>1, <2>2
       DEF PublishCall, Start, StartSpan, Goto, TypeOK, CallInv, Spans, Messages
  <2>5. EventInv'
    BY <1>1, <2>1, <2>2
       DEF PublishCall, Start, StartSpan, Goto, TypeOK, CallInv, EventInv,
           CommandInv, Spans, Messages
  <2>6. CommandInv'
    BY <1>1, <2>1, <2>2
       DEF PublishCall, Start, StartSpan, Goto, TypeOK, CallInv, EventInv,
           CommandInv, Spans, Messages
  <2>7. MetaInv'
    <3>1. \A m2 \in Messages : meta'[m2] \notin {None, Restored} =>
             \E d \in Calls : msg'[d] = m2 /\ meta'[m2] = <<d, "publish">>
      <4>1. None \notin Messages
        BY MiddlewareAssumption
      <4>2. \A d \in Calls : msg[d] # None => msg'[d] = msg[d]
        BY <1>1, <2>1 DEF PublishCall, Start, TypeOK
      <4>3. QED
        BY <1>1, <4>1, <4>2 DEF PublishCall, MetaInv
    <3>2. ASSUME NEW d \in Calls PROVE HandlerSpan(from[d])' \in started' \cup {None}
      <4>1. HandlerSpan(f)' = HandlerSpan(f) /\ from'[c] = f
        BY <1>1, <2>1, <2>2 DEF PublishCall, Start, HandlerSpan, TypeOK
      <4>2. HandlerSpan(f) \in started \cup {None}
        BY <2>2 DEF HandlerSpan
      <4>3. CASE d = c
        BY <1>1, <4>1, <4>2, <4>3 DEF PublishCall, StartSpan
      <4>4. CASE d # c /\ pc[d] # "idle"
        <5>1. HandlerSpan(from[d])' = HandlerSpan(from[d])
          BY <1>1, <2>1, <4>4, HandlerSpanKept DEF PublishCall, Start, TypeOK
        <5>2. QED
          BY <1>1, <5>1 DEF PublishCall, StartSpan, MetaInv
      <4>5. CASE d # c /\ pc[d] = "idle"
        BY <1>1, <4>5 DEF PublishCall, Start, TypeOK, CallInv, HandlerSpan
      <4>6. QED
        BY <4>3, <4>4, <4>5
    <3>3. QED
      BY <3>1, <3>2 DEF MetaInv
  <2>8. HandlerInItsTrace'
    BY <1>1, <2>1, <2>2, TraceKept
       DEF PublishCall, Start, StartSpan, Goto, TypeOK, CallInv, Spans, InTrace, MetaInv, HandlerSpan, Publishes
  <2>9. Observed(c)'
    BY <1>1, <2>1, <2>2
       DEF PublishCall, Start, StartSpan, Goto, TypeOK, Observed, ErrorsObserved,
           CallInv, EventInv, CommandInv, Publishes, Dispatches, Messages
  <2>10. ErrorsObserved'
    BY <1>1, <2>9, ErrorsKept DEF PublishCall, Start, StartSpan, Goto, TypeOK
  <2>11. QED
    BY <2>3, <2>4, <2>5, <2>6, <2>7, <2>8, <2>9, <2>10, <1>r DEF Inv
<1>2. ASSUME NEW c \in Calls, PublishInject(c)
      PROVE Inv'
  <2>1. <<c, "publish">> \in started
    BY <1>2 DEF PublishInject, Publishes, EventInv
  <2>2. TypeOK'
    BY <1>2, <2>1 DEF PublishInject, Publishes, Inject, Overtake, Goto, TypeOK, Spans, Messages
  <2>3. CallInv'
    BY <1>2, <2>1
       DEF PublishInject, Publishes, Inject, Goto, TypeOK, CallInv, Spans, Messages
  <2>4. EventInv'
    BY <1>2, <2>1
       DEF PublishInject, Publishes, Inject, Goto, TypeOK, CallInv, EventInv,
           CommandInv, Spans, Messages
  <2>5. CommandInv'
    BY <1>2, <2>1
       DEF PublishInject, Publishes, Inject, Goto, TypeOK, CallInv, EventInv,
           CommandInv, Spans, Messages
  <2>6. MetaInv'
    BY <1>2, <2>1
       DEF PublishInject, Publishes, Inject, Goto, TypeOK, CallInv, MetaInv,
           HandlerSpan, Spans, Messages
  <2>7. HandlerInItsTrace'
    <3>1. /\ UNCHANGED <<run, from, msg, started, parent>> /\ Overtake(c)
          /\ msg[c] \in Events /\ pc[c] = "inject"
      BY <1>2 DEF PublishInject, Publishes
    <3>2. run[c] = "none"
      BY <3>1 DEF EventInv
    <3>3. ASSUME NEW d \in Calls, <<d, "process">> \in started
          PROVE  overtook'[d] = overtook[d]
      <4>1. CASE msg[d] = msg[c]
        BY <3>1, <3>2, <3>3, <4>1 DEF EventInv, Overtake, TypeOK
      <4>2. CASE msg[d] # msg[c]
        BY <3>1, <4>2 DEF Overtake
      <4>3. QED
        BY <4>1, <4>2
    <3>4. QED
      BY <3>1, <3>3, TraceKept
  <2>8. Observed(c)'
    BY <1>2, <2>1
       DEF PublishInject, Publishes, Inject, Goto, TypeOK, Observed, ErrorsObserved,
           CallInv, EventInv, CommandInv, Dispatches, Messages
  <2>9. ErrorsObserved'
    BY <1>2, <2>8, ErrorsKept DEF PublishInject, Publishes, Inject, Goto, TypeOK
  <2>10. QED
    BY <2>2, <2>3, <2>4, <2>5, <2>6, <2>7, <2>8, <2>9, <1>r DEF Inv
<1>3. ASSUME NEW c \in Calls, PublishPanics(c)
      PROVE Inv'
  <2>1. <<c, "publish">> \in started
    BY <1>3 DEF PublishPanics, Publishes, EventInv
  <2>2. TypeOK'
    BY <1>3, <2>1 DEF PublishPanics, Publishes, EndSpan, Goto, TypeOK, Spans, Messages
  <2>3. CallInv'
    BY <1>3, <2>1
       DEF PublishPanics, Publishes, EndSpan, Goto, TypeOK, CallInv, Spans, Messages
  <2>4. EventInv'
    BY <1>3, <2>1
       DEF PublishPanics, Publishes, EndSpan, Goto, TypeOK, CallInv, EventInv,
           CommandInv, Spans, Messages
  <2>5. CommandInv'
    BY <1>3, <2>1
       DEF PublishPanics, Publishes, EndSpan, Goto, TypeOK, CallInv, EventInv,
           CommandInv, Spans, Messages
  <2>6. MetaInv'
    BY <1>3, <2>1
       DEF PublishPanics, Publishes, EndSpan, Goto, TypeOK, CallInv, MetaInv,
           HandlerSpan, Spans, Messages
  <2>7. HandlerInItsTrace'
    BY <1>3, <2>1, TraceKept
       DEF PublishPanics, Publishes, EndSpan, Goto, TypeOK, CallInv, Spans, InTrace, MetaInv, HandlerSpan
  <2>8. Observed(c)'
    BY <1>3, <2>1
       DEF PublishPanics, Publishes, EndSpan, Goto, TypeOK, Observed,
           ErrorsObserved, CallInv, EventInv, CommandInv, Dispatches, Messages
  <2>9. ErrorsObserved'
    BY <1>3, <2>8, ErrorsKept DEF PublishPanics, Publishes, EndSpan, Goto, TypeOK
  <2>10. QED
    BY <2>2, <2>3, <2>4, <2>5, <2>6, <2>7, <2>8, <2>9, <1>r DEF Inv
<1>4. ASSUME NEW c \in Calls, HandOver(c)
      PROVE Inv'
  <2>1. TypeOK'
    BY <1>4 DEF HandOver, Publishes, TypeOK, Spans, Messages
  <2>2. CallInv'
    BY <1>4 DEF HandOver, Publishes, TypeOK, CallInv, Spans, Messages
  <2>3. EventInv'
    BY <1>4
       DEF HandOver, Publishes, TypeOK, CallInv, EventInv, CommandInv, Spans,
           Messages
  <2>4. CommandInv'
    BY <1>4
       DEF HandOver, Publishes, TypeOK, CallInv, EventInv, CommandInv, Spans,
           Messages
  <2>5. MetaInv'
    BY <1>4
       DEF HandOver, Publishes, TypeOK, CallInv, MetaInv, HandlerSpan, Spans,
           Messages
  <2>6. HandlerInItsTrace'
    BY <1>4, TraceKept
       DEF HandOver, Publishes, TypeOK, CallInv, Spans, InTrace, MetaInv,
           HandlerSpan
  <2>7. Observed(c)'
    BY <1>4
       DEF HandOver, Publishes, TypeOK, Observed, ErrorsObserved, CallInv, EventInv,
           CommandInv, Dispatches, Messages
  <2>8. ErrorsObserved'
    BY <1>4, <2>7, ErrorsKept DEF HandOver, Publishes, TypeOK
  <2>9. QED
    BY <2>1, <2>2, <2>3, <2>4, <2>5, <2>6, <2>7, <2>8, <1>r DEF Inv
<1>5. ASSUME NEW c \in Calls, ProcessStart(c)
      PROVE Inv'
  <2>1. msg[c] \in Events
    BY <1>5, RunningIsEvent DEF ProcessStart
  <2>2. <<c, "publish">> \in started
    BY <1>5, <2>1 DEF ProcessStart, EventInv
  <2>r. meta[msg[c]] # Restored
    BY <1>5, <2>1 DEF ProcessStart, EventInv, RestoredInv, Messages
  <2>3. TypeOK'
    BY <1>5, <2>1, <2>2, <2>r DEF ProcessStart, StartSpan, Extract, TypeOK, Spans, Messages
  <2>4. CallInv'
    BY <1>5, <2>1, <2>2
       DEF ProcessStart, StartSpan, Extract, TypeOK, CallInv, Spans, Messages
  <2>5. EventInv'
    BY <1>5, <2>1, <2>2
       DEF ProcessStart, StartSpan, Extract, TypeOK, CallInv, EventInv, CommandInv,
           Spans, Messages
  <2>6. CommandInv'
    BY <1>5, <2>1, <2>2
       DEF ProcessStart, StartSpan, Extract, TypeOK, CallInv, EventInv, CommandInv,
           Spans, Messages
  <2>7. MetaInv'
    BY <1>5, <2>1, <2>2
       DEF ProcessStart, StartSpan, Extract, TypeOK, CallInv, MetaInv, HandlerSpan,
           Spans, Messages
  <2>8. InTrace(c)'
    <3>1. pc[c] \in {"provider", "done"} /\ run[c] = "extract"
      BY <1>5, <2>1 DEF ProcessStart, EventInv
    <3>2. PICK d \in {c} \cup overtook[c] : meta[msg[c]] = <<d, "publish">>
      BY <2>1, <3>1 DEF InjectedInv
    <3>3. Extract(msg[c], <<c, "publish">>) = <<d, "publish">>
      <4>1. msg[c] \notin Plain
        BY <2>1
      <4>2. <<d, "publish">> \in Spans
        BY <3>2 DEF Spans, TypeOK
      <4>3. QED
        BY <3>2, <4>1, <4>2 DEF Extract
    <3>4. /\ parent'[<<c, "process">>] = <<d, "publish">>
          /\ UNCHANGED <<msg, overtook>>
      BY <1>5, <3>3 DEF ProcessStart, StartSpan, TypeOK, Spans
    <3>5. QED
      BY <2>1, <3>2, <3>4 DEF InTrace, EventInTrace, Publishes, Dispatches
  <2>9. HandlerInItsTrace'
    BY <1>5, <2>8, TraceKept
       DEF ProcessStart, StartSpan, Extract, TypeOK, CallInv, Spans
  <2>10. Observed(c)'
    BY <1>5, <2>1, <2>2
       DEF ProcessStart, StartSpan, Extract, TypeOK, Observed, ErrorsObserved,
           CallInv, EventInv, CommandInv, Publishes, Dispatches, Messages
  <2>11. ErrorsObserved'
    BY <1>5, <2>10, ErrorsKept DEF ProcessStart, StartSpan, Extract, TypeOK
  <2>12. QED
    BY <2>3, <2>4, <2>5, <2>6, <2>7, <2>8, <2>9, <2>10, <2>11, <1>r DEF Inv
<1>6. ASSUME NEW c \in Calls, NEW err \in BOOLEAN, ProcessReturn(c, err)
      PROVE Inv'
  <2>1. msg[c] \in Events
    BY <1>6, RunningIsEvent DEF ProcessReturn
  <2>2. <<c, "publish">> \in started /\ <<c, "process">> \in started
    BY <1>6, <2>1 DEF ProcessReturn, EventInv
  <2>3. TypeOK'
    BY <1>6, <2>1, <2>2 DEF ProcessReturn, EndSpan, Status, TypeOK, Spans, Messages
  <2>4. CallInv'
    BY <1>6, <2>1, <2>2
       DEF ProcessReturn, EndSpan, Status, TypeOK, CallInv, Spans, Messages
  <2>5. EventInv'
    BY <1>6, <2>1, <2>2
       DEF ProcessReturn, EndSpan, Status, TypeOK, CallInv, EventInv, CommandInv,
           Spans, Messages
  <2>6. CommandInv'
    BY <1>6, <2>1, <2>2
       DEF ProcessReturn, EndSpan, Status, TypeOK, CallInv, EventInv, CommandInv,
           Spans, Messages
  <2>7. MetaInv'
    BY <1>6, <2>1, <2>2
       DEF ProcessReturn, EndSpan, Status, TypeOK, CallInv, MetaInv, HandlerSpan,
           Spans, Messages
  <2>8. HandlerInItsTrace'
    BY <1>6, <2>1, <2>2, TraceKept
       DEF ProcessReturn, EndSpan, Status, TypeOK, CallInv, Spans, InTrace,
           MetaInv, HandlerSpan, Publishes
  <2>9. Observed(c)'
    BY <1>6, <2>1, <2>2
       DEF ProcessReturn, EndSpan, Status, TypeOK, Observed, ErrorsObserved,
           CallInv, EventInv, CommandInv, Publishes, Dispatches, Messages
  <2>10. ErrorsObserved'
    BY <1>6, <2>9, ErrorsKept DEF ProcessReturn, EndSpan, Status, TypeOK
  <2>11. QED
    BY <2>3, <2>4, <2>5, <2>6, <2>7, <2>8, <2>9, <2>10, <1>r DEF Inv
<1>7. ASSUME NEW c \in Calls, ProcessPanic(c)
      PROVE Inv'
  <2>1. msg[c] \in Events
    BY <1>7, RunningIsEvent DEF ProcessPanic
  <2>2. <<c, "publish">> \in started /\ <<c, "process">> \in started
    BY <1>7, <2>1 DEF ProcessPanic, EventInv
  <2>3. TypeOK'
    <3>1. CASE async
      <4>1. ended' \subseteq started /\ erred' \subseteq ended'
        BY <1>7, <2>2, <3>1 DEF ProcessPanic, EndSpan, TypeOK
      <4>2. run' \in [Calls -> {"none", "extract", "handler", "over"}]
            /\ outcome' \in [Calls -> {None, "success", "error", "panic"}]
            /\ logged' \in [Calls -> {None, "success", "error"}]
        BY <1>7 DEF ProcessPanic, TypeOK
      <4>3. /\ crashed' \in BOOLEAN
            /\ UNCHANGED <<async, pc, from, msg, metaVars, started, parent, counted, consumed>>
        BY <1>7, <3>1 DEF ProcessPanic
      <4>4. QED
        BY <4>1, <4>2, <4>3 DEF TypeOK
    <3>2. CASE ~async
      <4>1. ended' \subseteq started /\ erred \subseteq ended'
        <5>1. ended' = ended \cup {<<c, "process">>, <<c, "publish">>}
          BY <1>7, <3>2 DEF ProcessPanic
        <5>2. ended \subseteq started /\ erred \subseteq ended
          BY DEF TypeOK
        <5>3. QED
          BY <2>2, <5>1, <5>2
      <4>2. pc' \in [Calls -> {"idle", "extract", "inject", "provider", "handler"} \cup Ended]
        BY <1>7, <3>2 DEF ProcessPanic, Goto, TypeOK
      <4>3. /\ run' \in [Calls -> {"none", "extract", "handler", "over"}]
            /\ outcome' \in [Calls -> {None, "success", "error", "panic"}]
            /\ logged' \in [Calls -> {None, "success", "error"}]
        BY <1>7 DEF ProcessPanic, TypeOK
      <4>4. QED
        BY <1>7, <3>2, <4>1, <4>2, <4>3 DEF ProcessPanic, TypeOK
    <3>3. QED
      BY <3>1, <3>2
  <2>4. CallInv'
    BY <1>7, <2>1, <2>2
       DEF ProcessPanic, EndSpan, Goto, TypeOK, CallInv, Spans, Messages
  <2>5. EventInv'
    BY <1>7, <2>1, <2>2
       DEF ProcessPanic, EndSpan, Goto, TypeOK, CallInv, EventInv, CommandInv,
           Spans, Messages
  <2>6. CommandInv'
    BY <1>7, <2>1, <2>2
       DEF ProcessPanic, EndSpan, Goto, TypeOK, CallInv, EventInv, CommandInv,
           Spans, Messages
  <2>7. MetaInv'
    BY <1>7, <2>1, <2>2
       DEF ProcessPanic, EndSpan, Goto, TypeOK, CallInv, MetaInv, HandlerSpan,
           Spans, Messages
  <2>8. HandlerInItsTrace'
    BY <1>7, <2>1, <2>2, TraceKept
       DEF ProcessPanic, EndSpan, Goto, TypeOK, CallInv, Spans, InTrace,
           MetaInv, HandlerSpan, Publishes
  <2>9. Observed(c)'
    BY <1>7, <2>1, <2>2
       DEF ProcessPanic, EndSpan, Goto, TypeOK, Observed, ErrorsObserved, CallInv,
           EventInv, CommandInv, Publishes, Dispatches, Messages
  <2>10. ErrorsObserved'
    BY <1>7, <2>9, ErrorsKept DEF ProcessPanic, EndSpan, Goto, TypeOK
  <2>11. QED
    BY <2>3, <2>4, <2>5, <2>6, <2>7, <2>8, <2>9, <2>10, <1>r DEF Inv
<1>8. ASSUME NEW c \in Calls, PublishReturn(c)
      PROVE Inv'
  <2>1. <<c, "publish">> \in started
    BY <1>8 DEF PublishReturn, Publishes, EventInv
  <2>2. TypeOK'
    BY <1>8, <2>1 DEF PublishReturn, Publishes, EndSpan, Goto, TypeOK, Spans, Messages
  <2>3. CallInv'
    BY <1>8, <2>1
       DEF PublishReturn, Publishes, EndSpan, Goto, TypeOK, CallInv, Spans, Messages
  <2>4. EventInv'
    BY <1>8, <2>1
       DEF PublishReturn, Publishes, EndSpan, Goto, TypeOK, CallInv, EventInv,
           CommandInv, Spans, Messages
  <2>5. CommandInv'
    BY <1>8, <2>1
       DEF PublishReturn, Publishes, EndSpan, Goto, TypeOK, CallInv, EventInv,
           CommandInv, Spans, Messages
  <2>6. MetaInv'
    BY <1>8, <2>1
       DEF PublishReturn, Publishes, EndSpan, Goto, TypeOK, CallInv, MetaInv,
           HandlerSpan, Spans, Messages
  <2>7. HandlerInItsTrace'
    BY <1>8, <2>1, TraceKept
       DEF PublishReturn, Publishes, EndSpan, Goto, TypeOK, CallInv, Spans, InTrace, MetaInv, HandlerSpan
  <2>8. Observed(c)'
    BY <1>8, <2>1
       DEF PublishReturn, Publishes, EndSpan, Goto, TypeOK, Observed,
           ErrorsObserved, CallInv, EventInv, CommandInv, Dispatches, Messages
  <2>9. ErrorsObserved'
    BY <1>8, <2>8, ErrorsKept DEF PublishReturn, Publishes, EndSpan, Goto, TypeOK
  <2>10. QED
    BY <2>2, <2>3, <2>4, <2>5, <2>6, <2>7, <2>8, <2>9, <1>r DEF Inv
<1>9. ASSUME NEW c \in Calls, NEW f \in Calls \cup {None}, NEW m \in Commands, DispatchCall(c, f, m)
      PROVE Inv'
  <2>1. msg[c] = None /\ pc[c] = "idle"
    BY <1>9 DEF CallInv, Start, DispatchCall
  <2>2. f # None => HandlerSpan(f) \in started /\ pc[f] # "idle" /\ f # c
    BY <1>9, HandlerSpanStarted, <2>1 DEF Start, DispatchCall
  <2>3. TypeOK'
    BY <1>9, <2>1, <2>2 DEF DispatchCall, Start, Goto, TypeOK, Spans, Messages
  <2>4. CallInv'
    BY <1>9, <2>1, <2>2 DEF DispatchCall, Start, Goto, TypeOK, CallInv, Spans, Messages
  <2>5. EventInv'
    BY <1>9, <2>1, <2>2
       DEF DispatchCall, Start, Goto, TypeOK, CallInv, EventInv, CommandInv, Spans,
           Messages
  <2>6. CommandInv'
    BY <1>9, <2>1, <2>2
       DEF DispatchCall, Start, Goto, TypeOK, CallInv, EventInv, CommandInv, Spans,
           Messages
  <2>7. MetaInv'
    <3>1. \A m2 \in Messages : meta'[m2] \notin {None, Restored} =>
             \E d \in Calls : msg'[d] = m2 /\ meta'[m2] = <<d, "publish">>
      <4>1. None \notin Messages
        BY MiddlewareAssumption
      <4>2. \A d \in Calls : msg[d] # None => msg'[d] = msg[d]
        BY <1>9, <2>1 DEF DispatchCall, Start, TypeOK
      <4>3. QED
        BY <1>9, <4>1, <4>2 DEF DispatchCall, MetaInv
    <3>2. ASSUME NEW d \in Calls PROVE HandlerSpan(from[d])' \in started' \cup {None}
      <4>1. HandlerSpan(f)' = HandlerSpan(f) /\ from'[c] = f
        BY <1>9, <2>1, <2>2 DEF DispatchCall, Start, HandlerSpan, TypeOK
      <4>2. HandlerSpan(f) \in started \cup {None}
        BY <2>2 DEF HandlerSpan
      <4>3. CASE d = c
        BY <1>9, <4>1, <4>2, <4>3 DEF DispatchCall
      <4>4. CASE d # c /\ pc[d] # "idle"
        <5>1. HandlerSpan(from[d])' = HandlerSpan(from[d])
          BY <1>9, <2>1, <4>4, HandlerSpanKept DEF DispatchCall, Start, TypeOK
        <5>2. QED
          BY <1>9, <5>1 DEF DispatchCall, MetaInv
      <4>5. CASE d # c /\ pc[d] = "idle"
        BY <1>9, <4>5 DEF DispatchCall, Start, TypeOK, CallInv, HandlerSpan
      <4>6. QED
        BY <4>3, <4>4, <4>5
    <3>3. QED
      BY <3>1, <3>2 DEF MetaInv
  <2>8. HandlerInItsTrace'
    BY <1>9, <2>1, <2>2, TraceKept
       DEF DispatchCall, Start, Goto, TypeOK, CallInv, Spans, InTrace,
           MetaInv, HandlerSpan, Publishes
  <2>9. Observed(c)'
    BY <1>9, <2>1, <2>2
       DEF DispatchCall, Start, Goto, TypeOK, Observed, ErrorsObserved, CallInv,
           EventInv, CommandInv, Publishes, Dispatches, Messages
  <2>10. ErrorsObserved'
    BY <1>9, <2>9, ErrorsKept DEF DispatchCall, Start, Goto, TypeOK
  <2>11. QED
    BY <2>3, <2>4, <2>5, <2>6, <2>7, <2>8, <2>9, <2>10, <1>r DEF Inv
<1>10. ASSUME NEW c \in Calls, DispatchStart(c)
      PROVE Inv'
  <2>1. HandlerSpan(from[c]) \in started \cup {None}
    BY DEF MetaInv
  <2>r. meta[msg[c]] # Restored
    BY <1>10 DEF DispatchStart, Dispatches, RestoredInv, Messages
  <2>2. TypeOK'
    BY <1>10, <2>1, <2>r
       DEF DispatchStart, Dispatches, StartSpan, Goto, Extract, TypeOK, Spans,
           Messages
  <2>3. CallInv'
    BY <1>10, <2>1
       DEF DispatchStart, Dispatches, StartSpan, Goto, TypeOK, CallInv, Spans,
           Messages
  <2>4. EventInv'
    BY <1>10, <2>1
       DEF DispatchStart, Dispatches, StartSpan, Goto, TypeOK, CallInv, EventInv,
           CommandInv, Spans, Messages
  <2>5. CommandInv'
    BY <1>10, <2>1
       DEF DispatchStart, Dispatches, StartSpan, Goto, TypeOK, CallInv, EventInv,
           CommandInv, Spans, Messages
  <2>6. MetaInv'
    BY <1>10, <2>1
       DEF DispatchStart, Dispatches, StartSpan, Goto, Extract, TypeOK, CallInv,
           MetaInv, HandlerSpan, Spans, Messages
  <2>7. InTrace(c)'
    <3> DEFINE p == Extract(msg[c], HandlerSpan(from[c]))
    <3>1. /\ parent'[<<c, "process">>] = p
          /\ msg' = msg /\ from' = from /\ msg[c] \in Commands
          /\ HandlerSpan(from[c])' = HandlerSpan(from[c])
      BY <1>10 DEF DispatchStart, Dispatches, StartSpan, TypeOK, Spans, HandlerSpan
    <3>2. CASE p = HandlerSpan(from[c])
      BY <3>1, <3>2 DEF InTrace, CommandInTrace, Publishes
    <3>3. CASE p = meta[msg[c]] /\ meta[msg[c]] # None
      <4>1. PICK d \in Calls : msg[d] = msg[c] /\ p = <<d, "publish">>
        BY <2>r, <3>1, <3>3 DEF MetaInv, Messages
      <4>2. d # c
        <5>1. <<d, "publish">> \in started
          <6>1. meta[msg[c]] \in started \cup {None}
            BY <2>r, <3>1 DEF TypeOK, Messages
          <6>2. QED
            BY <3>3, <4>1, <6>1
        <5>2. <<c, "publish">> \notin started
          BY <1>10 DEF DispatchStart, Dispatches, CommandInv
        <5>3. QED
          BY <5>1, <5>2
      <4>3. QED
        BY <3>1, <4>1, <4>2 DEF InTrace, CommandInTrace, Publishes
    <3>4. QED
      BY <3>2, <3>3 DEF Extract
  <2>8. HandlerInItsTrace'
    BY <1>10, <2>7, TraceKept
       DEF DispatchStart, Dispatches, StartSpan, Goto, TypeOK, CallInv, Spans
  <2>9. Observed(c)'
    BY <1>10, <2>1
       DEF DispatchStart, Dispatches, StartSpan, Goto, TypeOK, Observed,
           ErrorsObserved, CallInv, EventInv, CommandInv, Publishes, Messages
  <2>10. ErrorsObserved'
    BY <1>10, <2>9, ErrorsKept DEF DispatchStart, Dispatches, StartSpan, Goto, TypeOK
  <2>11. QED
    BY <2>2, <2>3, <2>4, <2>5, <2>6, <2>7, <2>8, <2>9, <2>10, <1>r DEF Inv
<1>11. ASSUME NEW c \in Calls, HandlerCall(c)
      PROVE Inv'
  <2>1. <<c, "process">> \in started
    BY <1>11 DEF HandlerCall, Dispatches, CommandInv
  <2>2. TypeOK'
    BY <1>11, <2>1 DEF HandlerCall, Dispatches, StartSpan, Goto, TypeOK, Spans, Messages
  <2>3. CallInv'
    BY <1>11, <2>1
       DEF HandlerCall, Dispatches, StartSpan, Goto, TypeOK, CallInv, Spans,
           Messages
  <2>4. EventInv'
    BY <1>11, <2>1
       DEF HandlerCall, Dispatches, StartSpan, Goto, TypeOK, CallInv, EventInv,
           CommandInv, Spans, Messages
  <2>5. CommandInv'
    BY <1>11, <2>1
       DEF HandlerCall, Dispatches, StartSpan, Goto, TypeOK, CallInv, EventInv,
           CommandInv, Spans, Messages
  <2>6. MetaInv'
    BY <1>11, <2>1
       DEF HandlerCall, Dispatches, StartSpan, Goto, TypeOK, CallInv, MetaInv,
           HandlerSpan, Spans, Messages
  <2>7. HandlerInItsTrace'
    BY <1>11, <2>1, TraceKept
       DEF HandlerCall, Dispatches, StartSpan, Goto, TypeOK, CallInv, Spans,
           InTrace, MetaInv, HandlerSpan, Publishes
  <2>8. Observed(c)'
    BY <1>11, <2>1
       DEF HandlerCall, Dispatches, StartSpan, Goto, TypeOK, Observed,
           ErrorsObserved, CallInv, EventInv, CommandInv, Publishes, Messages
  <2>9. ErrorsObserved'
    BY <1>11, <2>8, ErrorsKept DEF HandlerCall, Dispatches, StartSpan, Goto, TypeOK
  <2>10. QED
    BY <2>2, <2>3, <2>4, <2>5, <2>6, <2>7, <2>8, <2>9, <1>r DEF Inv
<1>12. ASSUME NEW c \in Calls, HandlerInject(c)
      PROVE Inv'
  <2>1. <<c, "publish">> \in started
    BY <1>12 DEF HandlerInject, Dispatches, CommandInv
  <2>2. TypeOK'
    BY <1>12, <2>1 DEF HandlerInject, Dispatches, Inject, Goto, TypeOK, Spans, Messages
  <2>3. CallInv'
    BY <1>12, <2>1
       DEF HandlerInject, Dispatches, Inject, Goto, TypeOK, CallInv, Spans, Messages
  <2>4. EventInv'
    BY <1>12, <2>1
       DEF HandlerInject, Dispatches, Inject, Goto, TypeOK, CallInv, EventInv,
           CommandInv, Spans, Messages
  <2>5. CommandInv'
    BY <1>12, <2>1
       DEF HandlerInject, Dispatches, Inject, Goto, TypeOK, CallInv, EventInv,
           CommandInv, Spans, Messages
  <2>6. MetaInv'
    BY <1>12, <2>1
       DEF HandlerInject, Dispatches, Inject, Goto, TypeOK, CallInv, MetaInv,
           HandlerSpan, Spans, Messages
  <2>7. HandlerInItsTrace'
    BY <1>12, <2>1, TraceKept
       DEF HandlerInject, Dispatches, Inject, Goto, TypeOK, CallInv, Spans, InTrace, MetaInv, HandlerSpan, Publishes
  <2>8. Observed(c)'
    BY <1>12, <2>1
       DEF HandlerInject, Dispatches, Inject, Goto, TypeOK, Observed,
           ErrorsObserved, CallInv, EventInv, CommandInv, Publishes, Messages
  <2>9. ErrorsObserved'
    BY <1>12, <2>8, ErrorsKept DEF HandlerInject, Dispatches, Inject, Goto, TypeOK
  <2>10. QED
    BY <2>2, <2>3, <2>4, <2>5, <2>6, <2>7, <2>8, <2>9, <1>r DEF Inv
<1>13. ASSUME NEW c \in Calls, NoHandler(c)
      PROVE Inv'
  <2>1. <<c, "process">> \in started
    BY <1>13 DEF NoHandler, Dispatches, CommandInv
  <2>2. TypeOK'
    BY <1>13, <2>1 DEF NoHandler, Dispatches, EndSpan, Goto, TypeOK, Spans, Messages
  <2>3. CallInv'
    BY <1>13, <2>1
       DEF NoHandler, Dispatches, EndSpan, Goto, TypeOK, CallInv, Spans, Messages
  <2>4. EventInv'
    BY <1>13, <2>1
       DEF NoHandler, Dispatches, EndSpan, Goto, TypeOK, CallInv, EventInv,
           CommandInv, Spans, Messages
  <2>5. CommandInv'
    BY <1>13, <2>1
       DEF NoHandler, Dispatches, EndSpan, Goto, TypeOK, CallInv, EventInv,
           CommandInv, Spans, Messages
  <2>6. MetaInv'
    BY <1>13, <2>1
       DEF NoHandler, Dispatches, EndSpan, Goto, TypeOK, CallInv, MetaInv,
           HandlerSpan, Spans, Messages
  <2>7. HandlerInItsTrace'
    BY <1>13, <2>1, TraceKept
       DEF NoHandler, Dispatches, EndSpan, Goto, TypeOK, CallInv, Spans, InTrace, MetaInv, HandlerSpan, Publishes
  <2>8. Observed(c)'
    BY <1>13, <2>1
       DEF NoHandler, Dispatches, EndSpan, Goto, TypeOK, Observed, ErrorsObserved,
           CallInv, EventInv, CommandInv, Publishes, Messages
  <2>9. ErrorsObserved'
    BY <1>13, <2>8, ErrorsKept DEF NoHandler, Dispatches, EndSpan, Goto, TypeOK
  <2>10. QED
    BY <2>2, <2>3, <2>4, <2>5, <2>6, <2>7, <2>8, <2>9, <1>r DEF Inv
<1>14. ASSUME NEW c \in Calls, NEW err \in BOOLEAN, DispatchReturn(c, err)
      PROVE Inv'
  <2>1. <<c, "publish">> \in started /\ <<c, "process">> \in started
    BY <1>14 DEF DispatchReturn, Dispatches, CommandInv
  <2>2. TypeOK'
    BY <1>14, <2>1 DEF DispatchReturn, Dispatches, Status, Goto, TypeOK, Spans, Messages
  <2>3. CallInv'
    BY <1>14, <2>1
       DEF DispatchReturn, Dispatches, Status, Goto, TypeOK, CallInv, Spans,
           Messages
  <2>4. EventInv'
    BY <1>14, <2>1
       DEF DispatchReturn, Dispatches, Status, Goto, TypeOK, CallInv, EventInv,
           CommandInv, Spans, Messages
  <2>5. CommandInv'
    BY <1>14, <2>1
       DEF DispatchReturn, Dispatches, Status, Goto, TypeOK, CallInv, EventInv,
           CommandInv, Spans, Messages
  <2>6. MetaInv'
    BY <1>14, <2>1
       DEF DispatchReturn, Dispatches, Status, Goto, TypeOK, CallInv, MetaInv,
           HandlerSpan, Spans, Messages
  <2>7. HandlerInItsTrace'
    BY <1>14, <2>1, TraceKept
       DEF DispatchReturn, Dispatches, Status, Goto, TypeOK, CallInv, Spans,
           InTrace, MetaInv, HandlerSpan, Publishes
  <2>8. Observed(c)'
    BY <1>14, <2>1
       DEF DispatchReturn, Dispatches, Status, Goto, TypeOK, Observed,
           ErrorsObserved, CallInv, EventInv, CommandInv, Publishes, Messages
  <2>9. ErrorsObserved'
    BY <1>14, <2>8, ErrorsKept DEF DispatchReturn, Dispatches, Status, Goto, TypeOK
  <2>10. QED
    BY <2>2, <2>3, <2>4, <2>5, <2>6, <2>7, <2>8, <2>9, <1>r DEF Inv
<1>15. ASSUME NEW c \in Calls, DispatchPanics(c)
      PROVE Inv'
  <2>1. <<c, "publish">> \in started /\ <<c, "process">> \in started
    BY <1>15 DEF DispatchPanics, Dispatches, CommandInv
  <2>2. TypeOK'
    BY <1>15, <2>1 DEF DispatchPanics, Dispatches, Goto, TypeOK, Spans, Messages
  <2>3. CallInv'
    BY <1>15, <2>1
       DEF DispatchPanics, Dispatches, Goto, TypeOK, CallInv, Spans, Messages
  <2>4. EventInv'
    BY <1>15, <2>1
       DEF DispatchPanics, Dispatches, Goto, TypeOK, CallInv, EventInv, CommandInv,
           Spans, Messages
  <2>5. CommandInv'
    BY <1>15, <2>1
       DEF DispatchPanics, Dispatches, Goto, TypeOK, CallInv, EventInv, CommandInv,
           Spans, Messages
  <2>6. MetaInv'
    BY <1>15, <2>1
       DEF DispatchPanics, Dispatches, Goto, TypeOK, CallInv, MetaInv, HandlerSpan,
           Spans, Messages
  <2>7. HandlerInItsTrace'
    BY <1>15, <2>1, TraceKept
       DEF DispatchPanics, Dispatches, Goto, TypeOK, CallInv, Spans, InTrace, MetaInv, HandlerSpan, Publishes
  <2>8. Observed(c)'
    BY <1>15, <2>1
       DEF DispatchPanics, Dispatches, Goto, TypeOK, Observed, ErrorsObserved,
           CallInv, EventInv, CommandInv, Publishes, Messages
  <2>9. ErrorsObserved'
    BY <1>15, <2>8, ErrorsKept DEF DispatchPanics, Dispatches, Goto, TypeOK
  <2>10. QED
    BY <2>2, <2>3, <2>4, <2>5, <2>6, <2>7, <2>8, <2>9, <1>r DEF Inv
<1>16. CASE ConcurrentMapAccess
  <2>1. TypeOK' /\ CallInv'
    BY <1>16 DEF ConcurrentMapAccess, TypeOK, CallInv
  <2>2. EventInv' /\ CommandInv'
    BY <1>16 DEF ConcurrentMapAccess, EventInv, CommandInv
  <2>3. MetaInv'
    BY <1>16 DEF ConcurrentMapAccess, MetaInv, HandlerSpan
  <2>4. HandlerInItsTrace'
    BY <1>16, TraceKept DEF ConcurrentMapAccess
  <2>5. ErrorsObserved'
    BY <1>16 DEF ConcurrentMapAccess, ErrorsObserved, Observed, Publishes, Dispatches
  <2>6. QED
    BY <2>1, <2>2, <2>3, <2>4, <2>5, <1>r DEF Inv
<1>17. CASE UNCHANGED vars
  <2>1. TypeOK' /\ CallInv'
    BY <1>17 DEF TypeOK, CallInv
  <2>2. EventInv' /\ CommandInv'
    BY <1>17 DEF EventInv, CommandInv
  <2>3. MetaInv'
    BY <1>17 DEF MetaInv, HandlerSpan
  <2>4. HandlerInItsTrace'
    BY <1>17, TraceKept
  <2>5. ErrorsObserved'
    BY <1>17 DEF ErrorsObserved, Observed, Publishes, Dispatches
  <2>6. QED
    BY <2>1, <2>2, <2>3, <2>4, <2>5, <1>r DEF Inv
<1>18. QED
  BY <1>1, <1>2, <1>3, <1>4, <1>5, <1>6, <1>7, <1>8, <1>9, <1>10, <1>11, <1>12, <1>13, <1>14, <1>15, <1>16, <1>17
     DEF Next, EventStep, CommandStep

\* The variables keep their types, and a span ends only after it was started.
THEOREM TypeCorrect == Spec => []TypeOK
<1>1. Inv => TypeOK
  BY DEF Inv
<1>2. QED
  BY <1>1, InvInit, InvStep, PTL DEF Spec

\* The handler of an event runs in the trace of its own Publish, or in that of one that
\* injected into the map of the same object in between; that of a command in the trace
\* of its caller, or in that of another Dispatch of the same object.
THEOREM TracesKept == Spec => []HandlerInItsTrace
<1>1. Inv => HandlerInItsTrace
  BY DEF Inv
<1>2. QED
  BY <1>1, InvInit, InvStep, PTL DEF Spec

\* No span ever continues the trace that the retransmitter restored from a row, because
\* Publish writes over it before a handler can extract it: the trace of whoever
\* published through the outbox ends there.  That is not what the metadata are for
\* (event.go:9-11, outbox/message.go:21, outbox/retransmitter.go:109-113).
THEOREM RestoredTraceIsLost == Spec => []RestoredTraceUnused
<1>1. Inv => RestoredTraceUnused
  BY DEF Inv
<1>2. QED
  BY <1>1, InvInit, InvStep, PTL DEF Spec

\* No span is left open, whether the handler returned, failed or panicked.
THEOREM NoOpenSpan == Spec => []SpansEnd
<1>1. Inv => SpansEnd
  <2> SUFFICES ASSUME TypeOK, CallInv, EventInv, CommandInv PROVE SpansEnd
    BY DEF Inv
  <2>1. ASSUME NEW c \in Calls, NEW k \in {"publish", "process"},
               <<c, k>> \in started, pc[c] \in Ended
        PROVE  <<c, k>> \in ended \/ (async /\ k = "process")
    <3>1. CASE msg[c] \in Events
      BY <2>1, <3>1 DEF EventInv, Ended, TypeOK
    <3>2. CASE msg[c] \in Commands
      BY <2>1, <3>2 DEF CommandInv
    <3>3. QED
      BY <2>1, <3>1, <3>2 DEF CallInv, Messages, Ended
  <2>2. \A s \in started : pc[s[1]] \in Ended => s \in ended \/ (async /\ s[2] = "process")
    <3>1. \A s \in started : \E c \in Calls, k \in {"publish", "process"} : s = <<c, k>>
      BY DEF TypeOK, Spans
    <3>2. ASSUME NEW s \in started PROVE s = <<s[1], s[2]>> /\ s[1] \in Calls
                                              /\ s[2] \in {"publish", "process"}
      BY <3>1
    <3>3. QED
      BY <2>1, <3>2
  <2>3. \A c \in Publishes :
          /\ run[c] = "over" => <<c, "process">> \in ended
          /\ ~async /\ <<c, "publish">> \in ended /\ <<c, "process">> \in started
                => <<c, "process">> \in ended
    BY DEF Publishes, EventInv, Ended
  <2>4. \A c \in Dispatches :
          <<c, "process">> \in ended /\ <<c, "publish">> \in started
              => <<c, "publish">> \in ended
    BY DEF Dispatches, CommandInv
  <2>5. QED
    BY <2>2, <2>3, <2>4 DEF SpansEnd
<1>2. QED
  BY <1>1, InvInit, InvStep, PTL DEF Spec

\* Metrics, log and span tell of an error, for events and for commands, and metrics do
\* not call a panic a success.
THEOREM ErrorsShow == Spec => []ErrorsObserved
<1>1. Inv => ErrorsObserved
  BY DEF Inv
<1>2. QED
  BY <1>1, InvInit, InvStep, PTL DEF Spec

\* Two accesses to one map at the same time come from two calls with the same
\* message.
THEOREM OneCallNeverRaces == Spec => []RacesNeedReuse
<1>1. Inv => RacesNeedReuse
  <2> SUFFICES ASSUME CallInv, EventInv, CommandInv, NEW m \in Messages, Racing(m)
               PROVE  \E c, d \in Calls : c # d /\ msg[c] = m /\ msg[d] = m
    BY DEF Inv, RacesNeedReuse
  <2>1. PICK w \in Writers(m) : Readers(m) \cup (Writers(m) \ {w}) # {}
    BY DEF Racing
  <2>2. w \notin Readers(m)
    BY DEF Writers, Readers, EventInv, CommandInv, Messages
  <2>3. QED
    BY <2>1, <2>2 DEF Writers, Readers
<1>2. QED
  BY <1>1, InvInit, InvStep, PTL DEF Spec

===============================================================================
