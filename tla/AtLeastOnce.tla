----------------------------- MODULE AtLeastOnce -----------------------------
(***************************************************************************)
(* What a transactional outbox promises (outbox/README.md): an event that  *)
(* was accepted is delivered, perhaps more than once, before it is         *)
(* acknowledged; no failure takes any of that back.                        *)
(***************************************************************************)
CONSTANT Events

VARIABLES
    accepted,   \* the events whose transaction committed
    delivered,  \* those delivered at least once
    acked       \* those that will not be sent again by a new batch

vars == <<accepted, delivered, acked>>

Init == accepted = {} /\ delivered = {} /\ acked = {}

Accept(e) ==
    /\ e \notin accepted
    /\ accepted' = accepted \cup {e}
    /\ UNCHANGED <<delivered, acked>>

\* A second delivery of an event changes nothing here.
Deliver(e) ==
    /\ e \in accepted
    /\ delivered' = delivered \cup {e}
    /\ UNCHANGED <<accepted, acked>>

Ack(S) ==
    /\ S \subseteq delivered
    /\ acked' = acked \cup S
    /\ UNCHANGED <<accepted, delivered>>

Next ==
    \/ \E e \in Events : Accept(e) \/ Deliver(e)
    \/ \E S \in SUBSET Events : Ack(S)

Spec == Init /\ [][Next]_vars

=============================================================================
