------------------------------ MODULE Middleware ------------------------------
(***************************************************************************)
(* bus/event/middleware.go and bus/command/middleware.go (that of queries  *)
(* is the same code): logging, metrics and tracing, all configured, around *)
(* an event bus with one subscription and a dispatcher with one handler.   *)
(*                                                                         *)
(* A call publishes an event or dispatches a command.  The same message    *)
(* object may be used by several calls (a retry, a fan-out): its metadata  *)
(* map, where tracing keeps the trace context, belongs to the object.      *)
(* Spans are named by their call: <<c, "publish">> and <<c, "process">>.   *)
(***************************************************************************)
CONSTANTS
    Calls,
    Nested,         \* the calls a handler may make, with its own context
    Events, Commands,
    Plain,          \* the commands whose type has no Metadata method
    WithoutMap,     \* the messages whose Metadata() returns a nil map
    Restored,       \* the trace context that came out of an outbox row
    None

Messages == Events \cup Commands
Spans == Calls \X {"publish", "process"}

ASSUME MiddlewareAssumption ==
    /\ Events \cap Commands = {}
    /\ Plain \subseteq Commands
    /\ WithoutMap \subseteq Messages
    /\ Nested \subseteq Calls
    /\ Restored \notin Spans
    /\ None \notin Calls \cup Messages \cup Spans \cup {Restored}
    /\ None \notin {"success", "error", "panic"}

VARIABLES
    async,      \* whether the subscription is WithAsync
    pc,         \* where each call is
    run,        \* where the handler of each Publish is
    from,       \* the call whose handler made the call, if any
    msg,        \* the message of each call
    meta,       \* the trace context, a span, in the metadata map of each message
    overtook,   \* history: the calls that injected into the map of an event after each
                \* Publish of it, before its handler extracted
    started,    \* the spans tracer.Start has made
    parent,     \* the parent of each span
    ended,      \* those on which End was called
    erred,      \* those on which RecordError was called
    outcome,    \* history: how the handler of each call ended
    counted,    \* the status in publish.count or dispatch.count of each call
    consumed,   \* the status in consume.count of each handler run
    logged,     \* the level of the line that logs the end of the handler or of Dispatch
    crashed     \* the process is gone

callVars == <<pc, run, from, msg>>
metaVars == <<meta, overtook>>
spanVars == <<started, parent, ended, erred>>
statusVars == <<outcome, counted, consumed, logged>>
vars == <<async, callVars, metaVars, spanVars, statusVars, crashed>>

\* Into the map of an event that was read from the outbox, if it has one, the
\* retransmitter has put the trace context of whoever published it.
Restore(read) ==
    [m \in Messages |-> IF m \in read \ WithoutMap THEN Restored ELSE None]

Init ==
    /\ async \in BOOLEAN
    /\ pc = [c \in Calls |-> "idle"]
    /\ run = [c \in Calls |-> "none"]
    /\ from = [c \in Calls |-> None]
    /\ msg = [c \in Calls |-> None]
    /\ \E read \in SUBSET Events : meta = Restore(read)
    /\ overtook = [c \in Calls |-> {}]
    /\ started = {} /\ ended = {} /\ erred = {}
    /\ parent = [s \in Spans |-> None]
    /\ outcome = [c \in Calls |-> None]
    /\ counted = [c \in Calls |-> None]
    /\ consumed = [c \in Calls |-> None]
    /\ logged = [c \in Calls |-> None]
    /\ crashed = FALSE

Publishes == {c \in Calls : msg[c] \in Events}
Dispatches == {c \in Calls : msg[c] \in Commands}

Ended == {"done", "panicked"}

\* The handler of call f runs.
InHandler(f) == run[f] = "handler" \/ pc[f] = "handler"
Busy(f) == \E c \in Calls : from[c] = f /\ pc[c] \notin Ended

\* The span in the context that the handler of f passes on.
HandlerSpan(f) ==
    IF f = None THEN None
    ELSE IF msg[f] \in Events THEN <<f, "process">> ELSE <<f, "publish">>

Start(c, f, m) ==
    /\ pc[c] = "idle"
    /\ f # None => c \in Nested /\ InHandler(f) /\ ~Busy(f)
    /\ from' = [from EXCEPT ![c] = f]
    /\ msg' = [msg EXCEPT ![c] = m]

Goto(c, label) == pc' = [pc EXCEPT ![c] = label]

StartSpan(s, p) ==
    /\ started' = started \cup {s}
    /\ parent' = [parent EXCEPT ![s] = p]

\* The deferred function of a span: RecordError on an error, then End.
EndSpan(s, err) ==
    /\ ended' = ended \cup {s}
    /\ erred' = IF err THEN erred \cup {s} ELSE erred

\* propagator.Extract: the span in the map, or the one in the context.
Extract(m, context) == IF m \in Plain \/ meta[m] = None THEN context ELSE meta[m]

\* A faulty variant of Inject: it is given the context from before tracer.Start.
InjectCaller(c, m) ==
    meta' = IF m \in Plain \/ from[c] = None THEN meta ELSE [meta EXCEPT ![m] = HandlerSpan(from[c])]

\* propagator.Inject: the map gets the publish span of c.
Inject(c, m) ==
    meta' = IF m \in Plain THEN meta ELSE [meta EXCEPT ![m] = <<c, "publish">>]

\* The publishes of the event that have injected and whose handlers have yet to extract.
Overtake(c) ==
    overtook' = [d \in Calls |->
        IF d = c THEN {}
        ELSE IF msg[d] = msg[c] /\ run[d] \in {"none", "extract"} THEN overtook[d] \cup {c}
        ELSE overtook[d]]

\* Inject into a nil map panics.
InjectPanics(m) == m \in WithoutMap \ Plain

Status(err) == IF err THEN "error" ELSE "success"

-----------------------------------------------------------------------------
(* Events.                                                                 *)

\* Publish of logging, metrics and tracing up to tracer.Start.
PublishCall(c, f, e) ==
    /\ Start(c, f, e)
    /\ Goto(c, "inject")
    /\ StartSpan(<<c, "publish">>, HandlerSpan(f))
    /\ UNCHANGED <<async, run, metaVars, ended, erred, statusVars, crashed>>

PublishInject(c) ==
    /\ c \in Publishes
    /\ pc[c] = "inject"
    /\ ~InjectPanics(msg[c])
    /\ Inject(c, msg[c])
    /\ Overtake(c)
    /\ Goto(c, "provider")
    /\ UNCHANGED <<async, run, from, msg, spanVars, statusVars, crashed>>

\* The panic of Inject ends the span and leaves Publish; the counter of
\* metrics is skipped and logging sees no error.
PublishPanics(c) ==
    /\ c \in Publishes
    /\ pc[c] = "inject"
    /\ InjectPanics(msg[c])
    /\ EndSpan(<<c, "publish">>, FALSE)
    /\ Goto(c, "panicked")
    /\ UNCHANGED <<async, run, from, msg, metaVars, started, parent, statusVars, crashed>>

\* A faulty variant of HandOver: the task is sent before Inject.
HandOverEarly(c) ==
    /\ c \in Publishes
    /\ pc[c] \in {"inject", "provider"}
    /\ run[c] = "none"
    /\ run' = [run EXCEPT ![c] = "extract"]
    /\ UNCHANGED <<async, pc, from, msg, metaVars, spanVars, statusVars, crashed>>

\* The provider calls the handler, or its worker takes the task.
HandOver(c) ==
    /\ c \in Publishes
    /\ pc[c] = "provider" \/ (async /\ pc[c] = "done")
    /\ run[c] = "none"
    /\ async => \A d \in Calls : run[d] \notin {"extract", "handler"}
    /\ run' = [run EXCEPT ![c] = "extract"]
    /\ UNCHANGED <<async, pc, from, msg, metaVars, spanVars, statusVars, crashed>>

\* The wrapped handler, up to the user's: Extract and tracer.Start.
ProcessStart(c) ==
    /\ run[c] = "extract"
    /\ run' = [run EXCEPT ![c] = "handler"]
    /\ StartSpan(<<c, "process">>, Extract(msg[c], <<c, "publish">>))
    /\ UNCHANGED <<async, pc, from, msg, metaVars, ended, erred, statusVars, crashed>>

\* The handler returns through logging, metrics and tracing.
ProcessReturn(c, err) ==
    /\ run[c] = "handler"
    /\ ~Busy(c)
    /\ run' = [run EXCEPT ![c] = "over"]
    /\ EndSpan(<<c, "process">>, err)
    /\ outcome' = [outcome EXCEPT ![c] = Status(err)]
    /\ consumed' = [consumed EXCEPT ![c] = Status(err)]
    /\ logged' = [logged EXCEPT ![c] = Status(err)]
    /\ UNCHANGED <<async, pc, from, msg, metaVars, started, parent, counted, crashed>>

\* The handler panics: logging, deferred, sees no error and logs a success,
\* metrics count nothing, the span ends.  The panic goes through Publish to
\* its caller, or, on the worker, ends the process.
ProcessPanic(c) ==
    /\ run[c] = "handler"
    /\ ~Busy(c)
    /\ outcome' = [outcome EXCEPT ![c] = "panic"]
    /\ logged' = [logged EXCEPT ![c] = "success"]
    /\ run' = [run EXCEPT ![c] = "over"]
    /\ IF async
       THEN /\ EndSpan(<<c, "process">>, FALSE)
            /\ crashed' = TRUE
            /\ UNCHANGED pc
       ELSE /\ ended' = ended \cup {<<c, "process">>, <<c, "publish">>}
            /\ Goto(c, "panicked")
            /\ UNCHANGED <<erred, crashed>>
    /\ UNCHANGED <<async, from, msg, metaVars, started, parent, counted, consumed>>

\* Publish returns, nil whatever the handler returned.
PublishReturn(c) ==
    /\ c \in Publishes
    /\ pc[c] = "provider"
    /\ async \/ run[c] = "over"
    /\ EndSpan(<<c, "publish">>, FALSE)
    /\ counted' = [counted EXCEPT ![c] = "success"]
    /\ Goto(c, "done")
    /\ UNCHANGED <<async, run, from, msg, metaVars, started, parent, outcome, consumed, logged, crashed>>

-----------------------------------------------------------------------------
(* Commands.                                                               *)

\* Dispatch of logging, metrics and tracing: Extract and tracer.Start.
DispatchCall(c, f, m) ==
    /\ Start(c, f, m)
    /\ Goto(c, "extract")
    /\ UNCHANGED <<async, run, metaVars, spanVars, statusVars, crashed>>

DispatchStart(c) ==
    /\ c \in Dispatches
    /\ pc[c] = "extract"
    /\ StartSpan(<<c, "process">>, Extract(msg[c], HandlerSpan(from[c])))
    /\ Goto(c, "provider")
    /\ UNCHANGED <<async, run, from, msg, metaVars, ended, erred, statusVars, crashed>>

\* The provider calls the handler that Register wrapped: tracer.Start.
HandlerCall(c) ==
    /\ c \in Dispatches
    /\ pc[c] = "provider"
    /\ StartSpan(<<c, "publish">>, <<c, "process">>)
    /\ Goto(c, "inject")
    /\ UNCHANGED <<async, run, from, msg, metaVars, ended, erred, statusVars, crashed>>

HandlerInject(c) ==
    /\ c \in Dispatches
    /\ pc[c] = "inject"
    /\ ~InjectPanics(msg[c])
    /\ Inject(c, msg[c])
    /\ Goto(c, "handler")
    /\ UNCHANGED <<async, run, from, msg, overtook, spanVars, statusVars, crashed>>

\* A faulty variant of NoHandler: the span of the handler is ended, too.
NoHandlerEndsBoth(c) ==
    /\ c \in Dispatches
    /\ pc[c] = "provider"
    /\ \A d \in Dispatches : <<d, "publish">> \notin started
    /\ ended' = ended \cup {<<c, "process">>, <<c, "publish">>}
    /\ erred' = erred \cup {<<c, "process">>}
    /\ counted' = [counted EXCEPT ![c] = "error"]
    /\ logged' = [logged EXCEPT ![c] = "error"]
    /\ Goto(c, "done")
    /\ UNCHANGED <<async, run, from, msg, metaVars, started, parent, outcome, consumed, crashed>>

\* No handler is registered yet: the provider returns an error, which tracing records,
\* metrics count and logging, deferred, logs.
NoHandler(c) ==
    /\ c \in Dispatches
    /\ pc[c] = "provider"
    /\ \A d \in Dispatches : <<d, "publish">> \notin started
    /\ EndSpan(<<c, "process">>, TRUE)
    /\ counted' = [counted EXCEPT ![c] = "error"]
    /\ logged' = [logged EXCEPT ![c] = "error"]
    /\ Goto(c, "done")
    /\ UNCHANGED <<async, run, from, msg, metaVars, started, parent, outcome, consumed, crashed>>

\* A faulty variant of DispatchReturn: the error that logging's defer sees is one of an
\* inner scope, always nil.
ReturnUnlogged(c, err) ==
    /\ c \in Dispatches
    /\ pc[c] = "handler"
    /\ ~Busy(c)
    /\ outcome' = [outcome EXCEPT ![c] = Status(err)]
    /\ ended' = ended \cup {<<c, "process">>, <<c, "publish">>}
    /\ erred' = IF err THEN erred \cup {<<c, "process">>} ELSE erred
    /\ counted' = [counted EXCEPT ![c] = Status(err)]
    /\ Goto(c, "done")
    /\ UNCHANGED <<async, run, from, msg, metaVars, started, parent, consumed, logged, crashed>>

\* The handler returns: its span ends, then the outer one with the error; metrics count
\* how it ended; logging, deferred, logs an error, and of a success nothing.
DispatchReturn(c, err) ==
    /\ c \in Dispatches
    /\ pc[c] = "handler"
    /\ ~Busy(c)
    /\ outcome' = [outcome EXCEPT ![c] = Status(err)]
    /\ ended' = ended \cup {<<c, "process">>, <<c, "publish">>}
    /\ erred' = IF err THEN erred \cup {<<c, "process">>} ELSE erred
    /\ counted' = [counted EXCEPT ![c] = Status(err)]
    /\ logged' = IF err THEN [logged EXCEPT ![c] = "error"] ELSE logged
    /\ Goto(c, "done")
    /\ UNCHANGED <<async, run, from, msg, metaVars, started, parent, consumed, crashed>>

\* A faulty variant of DispatchPanics: the inner span is not ended by defer.
PanicLeavesSpan(c) ==
    /\ c \in Dispatches
    /\ pc[c] = "handler"
    /\ ~Busy(c)
    /\ outcome' = [outcome EXCEPT ![c] = "panic"]
    /\ EndSpan(<<c, "process">>, FALSE)
    /\ Goto(c, "panicked")
    /\ UNCHANGED <<async, run, from, msg, metaVars, started, parent, counted, consumed, logged, crashed>>

\* Inject or the handler panics: the deferred functions end both spans.
DispatchPanics(c) ==
    /\ c \in Dispatches
    /\ \/ pc[c] = "inject" /\ InjectPanics(msg[c]) /\ UNCHANGED outcome
       \/ pc[c] = "handler" /\ ~Busy(c) /\ outcome' = [outcome EXCEPT ![c] = "panic"]
    /\ ended' = ended \cup {<<c, "process">>, <<c, "publish">>}
    /\ Goto(c, "panicked")
    /\ UNCHANGED <<async, run, from, msg, metaVars, started, parent, erred, counted, consumed, logged, crashed>>

-----------------------------------------------------------------------------
(* The metadata maps.                                                      *)

Writers(m) == {c \in Calls : msg[c] = m /\ pc[c] = "inject"}
Readers(m) == {c \in Calls : msg[c] = m /\ (run[c] = "extract" \/ pc[c] = "extract")}

\* Two accesses to the map of m may happen at the same time, one a write.
Racing(m) ==
    /\ m \notin WithoutMap \cup Plain
    /\ \E w \in Writers(m) : Readers(m) \cup (Writers(m) \ {w}) # {}

\* Go ends the process when it notices such accesses; when it does not, one
\* comes before the other.
ConcurrentMapAccess ==
    /\ \E m \in Messages : Racing(m)
    /\ crashed' = TRUE
    /\ UNCHANGED <<async, callVars, metaVars, spanVars, statusVars>>

-----------------------------------------------------------------------------

EventStep(c) ==
    \/ PublishInject(c)
    \/ PublishPanics(c)
    \/ HandOver(c)
    \/ ProcessStart(c)
    \/ \E err \in BOOLEAN : ProcessReturn(c, err)
    \/ ProcessPanic(c)
    \/ PublishReturn(c)

CommandStep(c) ==
    \/ DispatchStart(c)
    \/ NoHandler(c)
    \/ HandlerCall(c)
    \/ HandlerInject(c)
    \/ \E err \in BOOLEAN : DispatchReturn(c, err)
    \/ DispatchPanics(c)

Next ==
    /\ ~crashed
    /\ \/ \E c \in Calls, f \in Calls \cup {None} :
             \/ \E e \in Events : PublishCall(c, f, e)
             \/ \E m \in Commands : DispatchCall(c, f, m)
       \/ \E c \in Calls : EventStep(c) \/ CommandStep(c)
       \/ ConcurrentMapAccess

Spec == Init /\ [][Next]_vars

-----------------------------------------------------------------------------
(* Properties.                                                             *)

\* The values the variables take; a map holds a publish span that was started, or
\* what came out of a row, and only started spans have ended or are parents.
TypeOK ==
    /\ async \in BOOLEAN
    /\ pc \in [Calls -> {"idle", "extract", "inject", "provider", "handler"} \cup Ended]
    /\ run \in [Calls -> {"none", "extract", "handler", "over"}]
    /\ from \in [Calls -> Calls \cup {None}]
    /\ msg \in [Calls -> Messages \cup {None}]
    /\ meta \in [Messages -> (started \cap Calls \X {"publish"}) \cup {Restored, None}]
    /\ started \subseteq Spans
    /\ overtook \in [Calls -> SUBSET Calls]
    /\ parent \in [Spans -> started \cup {Restored, None}]
    /\ ended \subseteq started
    /\ erred \subseteq ended
    /\ outcome \in [Calls -> {None, "success", "error", "panic"}]
    /\ counted \in [Calls -> {None, "success", "error"}]
    /\ consumed \in [Calls -> {None, "success", "error"}]
    /\ logged \in [Calls -> {None, "success", "error"}]
    /\ crashed \in BOOLEAN

\* The process span of c, a Publish, is below its own publish span, or below that of a
\* call that took the map over in between; or in the trace that came out of a row.
EventInTrace(c) ==
    parent[<<c, "process">>] \in
        {<<d, "publish">> : d \in {c} \cup overtook[c]} \cup {Restored}

\* That of a Dispatch is below the span of its caller, or below that of another call
\* that dispatched the same command object.
CommandInTrace(c) ==
    \/ parent[<<c, "process">>] = HandlerSpan(from[c])
    \/ \E d \in Calls \ {c} :
          msg[d] = msg[c] /\ parent[<<c, "process">>] = <<d, "publish">>

\* The handler of an event runs in the trace of its own Publish, unless another
\* Publish of the same object injected after it and before the handler began: never in
\* the trace of an earlier one, nor in that of the caller.  The handler of a command
\* runs in the trace of the caller of Dispatch, or of another Dispatch of the object.
HandlerInItsTrace ==
    \A c \in Calls : <<c, "process">> \in started =>
        /\ c \in Publishes => EventInTrace(c)
        /\ c \in Dispatches => CommandInTrace(c)

\* No span is left open by a call or a handler that is over, panic or not, and
\* the spans on one goroutine end from the inside out.
SpansEnd ==
    /\ \A s \in started : pc[s[1]] \in Ended => s \in ended \/ (async /\ s[2] = "process")
    /\ \A c \in Publishes : run[c] = "over" => <<c, "process">> \in ended
    /\ \A c \in Publishes :
          ~async /\ <<c, "publish">> \in ended /\ <<c, "process">> \in started
              => <<c, "process">> \in ended
    /\ \A c \in Dispatches :
          <<c, "process">> \in ended /\ <<c, "publish">> \in started
              => <<c, "publish">> \in ended

\* What the middleware tells of the handler of c, if it is over.
Observed(c) ==
    /\ outcome[c] = "error" =>
          /\ <<c, "process">> \in erred
          /\ logged[c] = "error"
          /\ IF c \in Publishes THEN consumed[c] = "error" ELSE counted[c] = "error"
    /\ consumed[c] = "success" => outcome[c] = "success"
    /\ c \in Dispatches =>
          /\ counted[c] = "success" => outcome[c] = "success"
          /\ counted[c] = "error" => <<c, "process">> \in erred
          /\ counted[c] = "error" <=> logged[c] = "error"

\* An error of a handler shows in the metrics, in the log and in the span, and so does
\* the error of a Dispatch that finds no handler; a panic is never counted as a
\* success by the metrics.
ErrorsObserved == \A c \in Calls : Observed(c)

\* The map of a message is accessed concurrently only when the message is used
\* by two calls: a Publish is through with it before its handler reads it.
RacesNeedReuse ==
    \A m \in Messages : Racing(m) => \E c, d \in Calls : c # d /\ msg[c] = m /\ msg[d] = m

=============================================================================
