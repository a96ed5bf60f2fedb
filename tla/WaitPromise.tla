---------------------------- MODULE WaitPromise ----------------------------
(***************************************************************************)
(* What a semaphore or an event promises its waiters (kernel/ipc/          *)
(* ksemaphore.h, kevent.h): a level, and for each wait exactly one outcome.*)
(* A granted wait takes its due at the instant it is granted; a wait that  *)
(* times out or is cancelled takes nothing; only a timed wait that finds   *)
(* the level at zero times out, and only a killed task is cancelled.       *)
(***************************************************************************)
EXTENDS Naturals

CONSTANTS Tasks, MaxLevel
VARIABLES
  level, outcome, timed, killed,
  consumes   \* a grant lowers the level (not so for a manual-reset event); never changes

vars == <<level, outcome, timed, killed, consumes>>

Init ==
  /\ level \in 0..MaxLevel /\ consumes \in BOOLEAN
  /\ outcome = [t \in Tasks |-> "none"]
  /\ timed = [t \in Tasks |-> FALSE] /\ killed = [t \in Tasks |-> FALSE]

Begin(t, patience) ==
  /\ outcome[t] = "none"
  /\ outcome' = [outcome EXCEPT ![t] = "waiting"]
  /\ timed' = [timed EXCEPT ![t] = patience]
  /\ UNCHANGED <<level, killed>>

End(t) ==
  /\ outcome[t] \in {"granted", "timedout", "cancelled"}
  /\ outcome' = [outcome EXCEPT ![t] = "none"]
  /\ timed' = [timed EXCEPT ![t] = FALSE]
  /\ UNCHANGED <<level, killed>>

Conclude(t, result) ==
  outcome[t] = "waiting" /\ outcome' = [outcome EXCEPT ![t] = result] /\ UNCHANGED <<timed, killed>>

Grant(t) == level > 0 /\ Conclude(t, "granted") /\ level' = IF consumes THEN level - 1 ELSE level
TimeOut(t) == level = 0 /\ timed[t] /\ Conclude(t, "timedout") /\ UNCHANGED level
Cancel(t) == killed[t] /\ Conclude(t, "cancelled") /\ UNCHANGED level

Raise == level' \in (level + 1)..MaxLevel /\ UNCHANGED <<outcome, timed, killed>>
Clear == ~consumes /\ level' = 0 /\ UNCHANGED <<outcome, timed, killed>>

\* A kill is sticky; only a task that is in no wait is replaced by a fresh one.
Kill(t) == ~killed[t] /\ killed' = [killed EXCEPT ![t] = TRUE]
Replace(t) == outcome[t] = "none" /\ killed[t] /\ killed' = [killed EXCEPT ![t] = FALSE]

Next ==
  /\ \/ \E t \in Tasks : End(t) \/ Grant(t) \/ TimeOut(t) \/ Cancel(t)
     \/ \E t \in Tasks, patience \in BOOLEAN : Begin(t, patience)
     \/ \E t \in Tasks : (Kill(t) \/ Replace(t)) /\ UNCHANGED <<level, outcome, timed>>
     \/ Raise \/ Clear
  /\ UNCHANGED consumes

Spec == Init /\ [][Next]_vars
=============================================================================
