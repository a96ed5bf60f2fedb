--------------------------- MODULE CondvarObject ---------------------------
(***************************************************************************)
(* The shape KEvent and KSemaphore share: a kernel object whose state is   *)
(* guarded by an internal mutex and waited for on a condition variable.    *)
(* A call looks the object up (one reference), locks the mutex, works,     *)
(* unlocks and returns the reference; a wait also pins the object.         *)
(*                                                                         *)
(* A call runs under ScopedTaskCancellationDeferral, so a killed task      *)
(* finishes it and dies at the boundary.  What the guarded state is, when  *)
(* it satisfies a wait and what a wait takes from it belong to the modules *)
(* that extend this one: `available' is their test.                        *)
(***************************************************************************)
EXTENDS SchedSync

CONSTANT Timeouts   \* bound: the timeouts callers pass ("none" is the untimed wait)

ASSUME CondvarObjectAssumption ==
  Timeouts \subseteq {"none", "zero", "deadline"} /\ OwnershipClass = "Internal" /\ IsFiniteSet(Tasks)

VARIABLES
  refcount,   \* KObject::refcount
  handles,    \* handles open on the object, one reference each
  pc, call    \* where each task stands, and the locals of its call

callVars == <<refcount, handles, pc, call>>

PCs == {"idle", "dead", "lock", "test", "parked", "body", "unlock", "return"}
Results == {"none", "waiting", "granted", "timedout", "cancelled"}
NoCall == [obj |-> NULL, op |-> "none", arg |-> 0, tick |-> "none", woke |-> "none", result |-> "none"]

CallTypeOK(ops, args, pcs) ==
  /\ SchedTypeOK
  /\ refcount \in [Objects -> Nat] /\ handles \in [Objects -> {0, 1}]
  /\ pc \in [Tasks -> PCs \cup pcs]
  /\ call \in [Tasks -> [obj: Objects \cup {NULL}, op: ops \cup {"none"}, arg: args \cup {0},
                         tick: {"none", "zero", "deadline", "past"},
                         woke: {"none", "Woken", "TimedOut", "Cancelled"}, result: Results]]

\* Created, with the one handle its creator was given.
CallInit ==
  /\ SchedInit
  /\ refcount = [o \in Objects |-> 1] /\ handles = [o \in Objects |-> 1]
  /\ pc = [t \in Tasks |-> "idle"] /\ call = [t \in Tasks |-> NoCall]

At(t, at) == pc[t] = at /\ ~Blocked(t)
Goto(t, at) == pc' = [pc EXCEPT ![t] = at]
IsWait(t) == call[t].op \in {"wait", "readable"}

-----------------------------------------------------------------------------
(* References *)

\* Mutant: a wait that fails forgets its pin.
DroppedBy(t) == IF call[t].result = "granted" THEN 2 ELSE 1

\* The lookup's reference and a wait's pin.  The pin is taken and dropped
\* while the lookup's reference is held, so the two come and go together.
References(t) == IF call[t].op = "wait" THEN 2 ELSE 1

\* HandleTableLookupRef, KObjectAcquire, and into the call.
EnterCall(t, o, op, arg, tick) ==
  /\ At(t, "idle") /\ handles[o] = 1
  /\ refcount' = [refcount EXCEPT ![o] = @ + (IF op = "wait" THEN 2 ELSE 1)]
  /\ Goto(t, "lock")
  /\ call' = [call EXCEPT ![t] = [obj |-> o, op |-> op, arg |-> arg, tick |-> tick, woke |-> "none",
                                  result |-> IF op = "wait" THEN "waiting" ELSE "none"]]
  /\ UNCHANGED <<schedVars, handles>>

ReturnFromCall(t) ==
  /\ At(t, "return")
  /\ refcount' = [refcount EXCEPT ![call[t].obj] = @ - References(t)]
  /\ Goto(t, "idle")
  /\ call' = [call EXCEPT ![t] = NoCall]
  /\ UNCHANGED <<schedVars, handles>>

\* HandleTableRemove.
CloseHandle(o) ==
  /\ handles[o] = 1
  /\ handles' = [handles EXCEPT ![o] = 0]
  /\ refcount' = [refcount EXCEPT ![o] = @ - 1]
  /\ UNCHANGED <<schedVars, pc, call>>

-----------------------------------------------------------------------------
(* The companion mutex *)

LockInner(t) ==
  LET o == call[t].obj IN
  /\ At(t, "lock")
  /\ \/ /\ MutexClaim(t, o) /\ UNCHANGED <<wait, kill_ticket, queue>>
        /\ Goto(t, IF IsWait(t) THEN "test" ELSE "body")
     \/ MutexPark(t, o, ParkedOn(wait[t], Inner(o), "none")) /\ UNCHANGED pc
  /\ UNCHANGED <<refcount, handles, call>>

\* The unlock, and on to the code after it.
UnlockTo(t, at) ==
  /\ MutexUnlock(t, call[t].obj)
  /\ Goto(t, at)
  /\ UNCHANGED <<refcount, handles>>

UnlockInner(t) == At(t, "unlock") /\ UnlockTo(t, "return") /\ UNCHANGED call

\* The last statement of a body: nothing but the unlock is left.
BodyDone(t) ==
  /\ At(t, "body") /\ Goto(t, "unlock")
  /\ UNCHANGED <<refcount, handles, call>>

-----------------------------------------------------------------------------
(* The wait loop *)

Decide(t, result) ==
  /\ Goto(t, "unlock")
  /\ call' = [call EXCEPT ![t].result = result]
  /\ UNCHANGED <<schedVars, refcount, handles>>

Aborted(t) == call[t].woke = "Cancelled"

\* A test-only call, or TickDeadlineReached (so too when the park timed out).
OutOfTime(t) == call[t].tick \in {"zero", "past"}

\* The object satisfies the wait; the extending module takes its due.
WaitGranted(t, available) == At(t, "test") /\ ~Aborted(t) /\ available /\ Decide(t, "granted")

\* Cancelled while parked, or killed before parking.
WaitCancelled(t, available) ==
  /\ At(t, "test")
  /\ \/ Aborted(t)
     \/ ~available /\ ~OutOfTime(t) /\ KillPending(t)
  /\ Decide(t, "cancelled")

WaitTimedOut(t, available) ==
  At(t, "test") /\ ~Aborted(t) /\ ~available /\ OutOfTime(t) /\ Decide(t, "timedout")

WaitPark(t, available) ==
  /\ At(t, "test") /\ ~Aborted(t) /\ ~available /\ ~OutOfTime(t)
  /\ CondvarPark(t, call[t].obj, IF call[t].tick = "none" THEN "none" ELSE "deadline")
  /\ Goto(t, "parked")
  /\ UNCHANGED <<refcount, handles, call>>

\* Mutant: a waiter that was woken and not satisfied counts from now.
RearmedResume(t) ==
  /\ At(t, "parked")
  /\ ClassifyCancellableWaitResume(t)
  /\ call' = [call EXCEPT ![t].woke = ResumeResult(t),
                          ![t].tick = IF @ = "past" /\ ResumeResult(t) = "Woken" THEN "deadline" ELSE @]
  /\ Goto(t, "lock")
  /\ UNCHANGED <<refcount, handles>>

\* The park returns with what took the task off the queue; relock.
WaitResume(t) ==
  /\ At(t, "parked")
  /\ ClassifyCancellableWaitResume(t)
  /\ call' = [call EXCEPT ![t].woke = ResumeResult(t)]
  /\ Goto(t, "lock")
  /\ UNCHANGED <<refcount, handles>>

-----------------------------------------------------------------------------
(* The rest of the system *)

\* FinalizeCurrentCancellation at the boundary.
TaskExit(t) ==
  /\ At(t, "idle") /\ KillPending(t) /\ owned_internal_mutex_count[t] = 0
  /\ Goto(t, "dead")
  /\ UNCHANGED <<schedVars, refcount, handles, call>>

\* Reaped, and a later task created in the same storage.
TaskCreate(t) ==
  /\ pc[t] = "dead"
  /\ Goto(t, "idle")
  /\ kill_ticket' = [kill_ticket EXCEPT ![t] = FALSE]
  /\ wait' = [wait EXCEPT ![t] = NotWaiting]
  /\ UNCHANGED <<queue, owner, owned_internal_mutex_count, refcount, handles, call>>

\* The absolute deadline of a timed wait goes by; the timer then finds the
\* parked task, whose relative deadline was never earlier.
DeadlinePasses(t) ==
  /\ call[t].tick = "deadline"
  /\ call' = [call EXCEPT ![t].tick = "past"]
  /\ UNCHANGED <<schedVars, refcount, handles, pc>>

Timer(t) == DeadlinePasses(t) \/ (call[t].tick = "past" /\ OnTimerTick(t) /\ UNCHANGED callVars)
Kill(t) == pc[t] # "dead" /\ SignalTask(t) /\ UNCHANGED callVars

CallStep(t) == LockInner(t) \/ WaitResume(t) \/ UnlockInner(t) \/ ReturnFromCall(t)

Environment ==
  \/ \E t \in Tasks : TaskExit(t) \/ TaskCreate(t) \/ Timer(t) \/ Kill(t)
  \/ \E o \in Objects : CloseHandle(o)

-----------------------------------------------------------------------------
(* Properties of every such object *)

Callers(o) == {t \in Tasks : call[t].obj = o}

(* Every reference is accounted for (one per handle, one per call and one  *)
(* per wait), so storage is never freed under a waiter, however the wait   *)
(* ends and whoever closes the handles meanwhile.                          *)
ReferencesExact ==
  \A o \in Objects : refcount[o] =
    handles[o] + Cardinality(Callers(o)) + Cardinality({t \in Callers(o) : call[t].op = "wait"})

(* The mutex assertions of sched.cpp: a body, a test and an unlock run as  *)
(* the owner; a lock is never of a mutex its task already owns, except by  *)
(* hand-off; a dead task owns nothing and is queued nowhere.               *)
MutexDiscipline ==
  /\ \A t \in Tasks : pc[t] \in {"test", "body", "unlock"} => owner[call[t].obj] = t
  /\ \A o \in Objects, t \in Tasks : owner[o] = t =>
       call[t].obj = o /\ pc[t] \in {"lock", "test", "body", "unlock"}
  /\ \A t \in Tasks : pc[t] \in {"idle", "dead", "return"} =>
       ~Blocked(t) /\ owned_internal_mutex_count[t] = 0

(* A task of a wait that is off the condition variable and has not yet     *)
(* looked at the object again.                                             *)
OnItsWay(o) == {t \in Callers(o) : IsWait(t) /\ pc[t] \in {"parked", "lock", "test"} /\ wait[t].waiting_on # Cv(o)}

(* A killed task leaves its wait and a wait with a deadline ends, whatever *)
(* else happens to the object: a waiter that is woken and overtaken again  *)
(* and again still counts from its first deadline.                         *)
WaitsEnd ==
  \A t \in Tasks :
    (IsWait(t) /\ (KillPending(t) \/ call[t].tick \in {"deadline", "past"})) ~> pc[t] = "idle"
=============================================================================
