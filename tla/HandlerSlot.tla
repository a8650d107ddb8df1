------------------------------ MODULE HandlerSlot ------------------------------
(***************************************************************************)
(* What Register and Dispatch of a command or query dispatcher promise:    *)
(* a slot for one handler.  Between its start and its return a call takes  *)
(* effect in one step: the first Register fills the slot for good, a later *)
(* one is refused, and a Dispatch is answered by what the slot then holds. *)
(***************************************************************************)
CONSTANTS Dispatches, Registers, None, Error

VARIABLES
    called,     \* the calls that have started
    slot,       \* the Register whose handler is in place
    answer      \* what a call got: the handler or Error

vars == <<called, slot, answer>>

Calls == Dispatches \cup Registers

Init ==
    /\ called = {}
    /\ slot = None
    /\ answer = [c \in Calls |-> None]

Call(c) ==
    /\ c \notin called
    /\ called' = called \cup {c}
    /\ UNCHANGED <<slot, answer>>

Answer(c, a) ==
    /\ c \in called
    /\ answer[c] = None
    /\ answer' = [answer EXCEPT ![c] = a]
    /\ UNCHANGED called

Fill(r) == slot = None /\ slot' = r /\ Answer(r, r)

Refuse(r) == slot # None /\ UNCHANGED slot /\ Answer(r, Error)

Dispatch(c) == Answer(c, IF slot = None THEN Error ELSE slot) /\ UNCHANGED slot

Next ==
    \/ \E c \in Calls : Call(c)
    \/ \E r \in Registers : Fill(r) \/ Refuse(r)
    \/ \E c \in Dispatches : Dispatch(c)

Spec == Init /\ [][Next]_vars

=============================================================================
