------------------------------ MODULE RWMutex ------------------------------
(***************************************************************************)
(* The readers-writer lock the Clerk auth handler guards its two caches    *)
(* with: Go's sync.RWMutex (AuthHandler.mu, auth_handler.go:39).  The lock *)
(* is the standard library's, so it is modelled from the way auth_handler  *)
(* uses it and from the contract of sync.RWMutex:                          *)
(*   - Lock first announces the writer, then waits for the readers that    *)
(*     were already active to leave;                                       *)
(*   - a reader that arrives behind an announced writer is blocked until   *)
(*     that writer unlocks, and is then admitted before the next writer.   *)
(***************************************************************************)
CONSTANTS
    Goroutine,  \* the request goroutines that share one AuthHandler
    NoOne       \* "no writer": not a goroutine

ASSUME LockAssumption == NoOne \notin Goroutine

VARIABLES
    writer,     \* the goroutine whose Lock is announced or granted, or NoOne
    readers,    \* the goroutines that hold the lock for reading
    blocked     \* the goroutines queued in RLock behind the announced writer

lockVars == <<writer, readers, blocked>>

LockTypeOK ==
    /\ writer \in Goroutine \cup {NoOne}
    /\ readers \subseteq Goroutine
    /\ blocked \subseteq Goroutine

LockInit ==
    /\ writer = NoOne
    /\ readers = {}
    /\ blocked = {}

(* RLock: granted at once, or queued behind the announced writer. *)
RLock(g) ==
    \/ /\ writer = NoOne
       /\ readers' = readers \cup {g}
       /\ UNCHANGED <<writer, blocked>>
    \/ /\ writer # NoOne
       /\ blocked' = blocked \cup {g}
       /\ UNCHANGED <<writer, readers>>

RUnlock(g) ==
    /\ g \in readers
    /\ readers' = readers \ {g}
    /\ UNCHANGED <<writer, blocked>>

(* The first half of Lock: the writer is announced. *)
Lock(g) ==
    /\ writer = NoOne
    /\ writer' = g
    /\ UNCHANGED <<readers, blocked>>

(* The second half of Lock returns once the active readers have left. *)
HoldsLock(g) == writer = g /\ readers = {}

Unlock(g) ==
    /\ HoldsLock(g)
    /\ writer' = NoOne
    /\ readers' = blocked
    /\ blocked' = {}
=============================================================================
