---------------------------- MODULE SubscriberTable ----------------------------
(***************************************************************************)
(* What Publish, Subscribe and the unsubscribe closures of an event bus    *)
(* promise when they race: a table of subscribers that every call uses in  *)
(* one step between its start and its return.  A Publish reaches exactly   *)
(* who is in the table then.  As ids are not unique, a Subscribe may drop  *)
(* one subscriber and a closure may remove another one than its own or     *)
(* none, but never more than one.                                          *)
(***************************************************************************)
CONSTANTS Publishes, Subscribes, Unsubscribes

VARIABLES
    called,     \* the calls that have started
    took,       \* the calls that took effect
    table,      \* the subscribers
    reached     \* those that each Publish reached

vars == <<called, took, table, reached>>

Init ==
    /\ called = {}
    /\ took = {}
    /\ table = {}
    /\ reached = [p \in Publishes |-> {}]

Call(c) ==
    /\ c \notin called
    /\ called' = called \cup {c}
    /\ UNCHANGED <<took, table, reached>>

TakeEffect(c) ==
    /\ c \in called \ took
    /\ took' = took \cup {c}
    /\ UNCHANGED called

AtMostOne == {{}} \cup {{s} : s \in table}

Publish(p) ==
    /\ TakeEffect(p)
    /\ reached' = [reached EXCEPT ![p] = table]
    /\ UNCHANGED table

Subscribe(s) ==
    /\ TakeEffect(s)
    /\ \E replaced \in AtMostOne : table' = (table \ replaced) \cup {s}
    /\ UNCHANGED reached

Unsubscribe(u) ==
    /\ TakeEffect(u)
    /\ \E removed \in AtMostOne : table' = table \ removed
    /\ UNCHANGED reached

Next ==
    \/ \E c \in Publishes \cup Subscribes \cup Unsubscribes : Call(c)
    \/ \E p \in Publishes : Publish(p)
    \/ \E s \in Subscribes : Subscribe(s)
    \/ \E u \in Unsubscribes : Unsubscribe(u)

Spec == Init /\ [][Next]_vars

=============================================================================
