------------------------------ MODULE GoRWMutex ------------------------------
(***************************************************************************)
(* Go's sync.RWMutex, as the buses use it (external to the repository).    *)
(* A call that asks for the write lock first takes the writer slot; from   *)
(* then on new readers queue behind it, and it holds the lock once the     *)
(* readers that were inside have left.  Unlock admits every queued reader  *)
(* before the next writer.  The lock has no owner: a call nested in a call *)
(* that already reads is a reader like any other.                          *)
(***************************************************************************)
VARIABLES
    readers,    \* the calls that hold the read lock
    queued,     \* the calls whose RLock waits behind a writer
    writers     \* the call that has the writer slot: at most one

muVars == <<readers, queued, writers>>

MuInit ==
    /\ readers = {}
    /\ queued = {}
    /\ writers = {}

\* RLock: enter at once, or queue when a writer has announced itself.
RLock(c) ==
    /\ IF writers = {}
       THEN readers' = readers \cup {c} /\ queued' = queued
       ELSE queued' = queued \cup {c} /\ readers' = readers
    /\ UNCHANGED writers

RUnlock(c) ==
    /\ readers' = readers \ {c}
    /\ UNCHANGED <<queued, writers>>

\* The first half of Lock: take the writer slot, which one call has at a time.
Announce(c) ==
    /\ writers = {}
    /\ writers' = {c}
    /\ UNCHANGED <<readers, queued>>

\* The second half of Lock has returned: the readers have drained.
Holds(c) ==
    /\ c \in writers
    /\ readers = {}

\* Unlock: the queued readers enter, the writer slot is free.
Unlock(c) ==
    /\ readers' = readers \cup queued
    /\ queued' = {}
    /\ writers' = writers \ {c}

=============================================================================
