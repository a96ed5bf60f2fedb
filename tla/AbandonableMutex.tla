-------------------------- MODULE AbandonableMutex --------------------------
(***************************************************************************)
(* What a KMutex promises (kernel/ipc/kmutex.h): at most one holder, which *)
(* may re-enter; only the holder releases; a holder that dies leaves the   *)
(* mutex free and the abandonment pending; the next holder, and only it,   *)
(* is told, before another abandonment can happen.                         *)
(***************************************************************************)
EXTENDS Naturals

CONSTANTS Tasks, NULL, MaxRecursion
VARIABLES holder, count, abandoned

vars == <<holder, count, abandoned>>

Init == holder = NULL /\ count = 0 /\ abandoned = FALSE

Acquire(t) == holder = NULL /\ holder' = t /\ count' = 1 /\ UNCHANGED abandoned

\* The new holder learns that its predecessor died.
Report(t) == holder = t /\ abandoned /\ abandoned' = FALSE /\ UNCHANGED <<holder, count>>

Enter(t) == holder = t /\ ~abandoned /\ count < MaxRecursion /\ count' = count + 1 /\ UNCHANGED <<holder, abandoned>>

Leave(t) == holder = t /\ ~abandoned /\ count > 1 /\ count' = count - 1 /\ UNCHANGED <<holder, abandoned>>

Release(t) == holder = t /\ ~abandoned /\ count = 1 /\ holder' = NULL /\ count' = 0 /\ UNCHANGED abandoned

\* The holder dies, at whatever depth.
Abandon(t) == holder = t /\ ~abandoned /\ holder' = NULL /\ count' = 0 /\ abandoned' = TRUE

Next == \E t \in Tasks : Acquire(t) \/ Report(t) \/ Enter(t) \/ Leave(t) \/ Release(t) \/ Abandon(t)

Spec == Init /\ [][Next]_vars
=============================================================================
