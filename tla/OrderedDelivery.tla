---------------------------- MODULE OrderedDelivery ----------------------------
(***************************************************************************)
(* What the pool of an event bus promises to Publish: a task is sent at    *)
(* most once, the tasks are handled one after the other in the order of    *)
(* the sends and none is skipped, and none is handled once the pool is     *)
(* closed.                                                                 *)
(***************************************************************************)
EXTENDS Naturals, Sequences

CONSTANT Tasks

VARIABLES
    sent,       \* the tasks that were sent, in order
    handled,    \* the tasks that were handled, in order
    open        \* FALSE once the pool is closed

vars == <<sent, handled, open>>

Init ==
    /\ sent = <<>>
    /\ handled = <<>>
    /\ open = TRUE

\* A task is sent for the first time.
Send(t) ==
    /\ \A i \in 1..Len(sent) : sent[i] # t
    /\ sent' = Append(sent, t)
    /\ UNCHANGED <<handled, open>>

\* The next task in the order of the sends has been handled.
Handle ==
    /\ open
    /\ Len(handled) < Len(sent)
    /\ handled' = Append(handled, sent[Len(handled) + 1])
    /\ UNCHANGED <<sent, open>>

\* The pool is closed; what was sent and not handled is given up.
Close ==
    /\ open
    /\ open' = FALSE
    /\ UNCHANGED <<sent, handled>>

Next == (\E t \in Tasks : Send(t)) \/ Handle \/ Close

Spec == Init /\ [][Next]_vars

=============================================================================
