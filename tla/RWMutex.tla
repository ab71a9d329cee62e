------------------------------ MODULE RWMutex ------------------------------
(***************************************************************************)
(* Go's sync.RWMutex, as far as its callers can tell (external to the      *)
(* repository).  A writer first takes the inner mutex: `writer` is the one *)
(* that has done so.  It owns the lock once the readers that were in       *)
(* before it have left, and from the moment it asks no new reader enters:  *)
(* later readers park in `waiting` and are all let in by Unlock.           *)
(***************************************************************************)
CONSTANT None                    \* no writer
VARIABLES writer, readers, waiting

muVars == <<writer, readers, waiting>>

Unlocked == writer = None /\ readers = {} /\ waiting = {}

\* mu.RLock(): enter at once, or park behind the writer that has asked.
RLock(p) ==
    /\ UNCHANGED writer
    /\ IF writer = None
       THEN readers' = readers \cup {p} /\ UNCHANGED waiting
       ELSE waiting' = waiting \cup {p} /\ UNCHANGED readers

\* RLock has returned to p.
HasRLock(p) == p \in readers

\* mu.RUnlock().
RUnlock(p) ==
    /\ readers' = readers \ {p}
    /\ UNCHANGED <<writer, waiting>>

\* mu.Lock() gets past the other writers; it returns when HasLock(p) holds.
Lock(p) ==
    /\ writer = None
    /\ writer' = p
    /\ UNCHANGED <<readers, waiting>>

HasLock(p) == writer = p /\ readers = {}

\* mu.Unlock(): the parked readers enter before the next writer.
Unlock ==
    /\ writer' = None
    /\ readers' = readers \cup waiting
    /\ waiting' = {}
=============================================================================
