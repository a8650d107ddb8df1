------------------------------ MODULE GetOrCreate ------------------------------
(***************************************************************************)
(* What Bus and Dispatcher of the three registries promise the callers:    *)
(* the lookup of a key, and the creation of its entry when there is none,  *)
(* are one atomic step.  An entry is named by the caller that made it; it  *)
(* is never replaced or removed, and serves the callers of its own type.   *)
(***************************************************************************)
CONSTANTS Callers, Keys, Types, None, Error

VARIABLES
    asked,      \* the key and the type each caller asks for
    entry,      \* the entry of each key
    answer      \* what a caller got: an entry, or Error

vars == <<asked, entry, answer>>

Init ==
    /\ asked = [c \in Callers |-> None]
    /\ entry = [k \in Keys |-> None]
    /\ answer = [c \in Callers |-> None]

Ask(c) ==
    /\ asked[c] = None
    /\ \E k \in Keys, t \in Types : asked' = [asked EXCEPT ![c] = [topic |-> k, type |-> t]]
    /\ UNCHANGED <<entry, answer>>

Waiting(c) == asked[c] # None /\ answer[c] = None

\* There is an entry: it is the answer, unless its type is another.
Get(c) ==
    /\ Waiting(c)
    /\ LET e == entry[asked[c].topic] IN
       /\ e # None
       /\ answer' = [answer EXCEPT ![c] = IF asked[e].type = asked[c].type THEN e ELSE Error]
    /\ UNCHANGED <<asked, entry>>

Create(c) ==
    /\ Waiting(c)
    /\ entry[asked[c].topic] = None
    /\ entry' = [entry EXCEPT ![asked[c].topic] = c]
    /\ answer' = [answer EXCEPT ![c] = c]
    /\ UNCHANGED asked

\* There is no entry and none can be made.
Refuse(c) ==
    /\ Waiting(c)
    /\ entry[asked[c].topic] = None
    /\ answer' = [answer EXCEPT ![c] = Error]
    /\ UNCHANGED <<asked, entry>>

Next == \E c \in Callers : Ask(c) \/ Get(c) \/ Create(c) \/ Refuse(c)

Spec == Init /\ [][Next]_vars

=============================================================================
