----------------------------- MODULE KSemaphore -----------------------------
(***************************************************************************)
(* The counting semaphore object (kernel/ipc/ksemaphore.{h,cpp}).  Release *)
(* and TryRelease differ only in how they report a refusal, so they are    *)
(* one operation; a release of zero permits changes nothing.               *)
(***************************************************************************)
EXTENDS CondvarObject

CONSTANTS
  MaxCount,   \* max_count
  WordMax,    \* the largest u32
  PostSizes   \* bound: the counts callers release

ASSUME KSemaphoreAssumption ==
  /\ WordMax \in Nat /\ MaxCount \in 1..WordMax
  /\ PostSizes \subseteq 1..WordMax

VARIABLE count   \* available permits

vars == <<schedVars, callVars, count>>

TypeOK == CallTypeOK({"wait", "release"}, PostSizes, {}) /\ count \in [Objects -> 0..MaxCount]

\* KSemaphoreCreate refuses an initial count above the maximum.
Init == CallInit /\ count \in [Objects -> 0..MaxCount]

Available(o) == count[o] > 0

-----------------------------------------------------------------------------
\* Mutant: the test is an unsigned sum that wraps.
SumFits(o, n) == (count[o] + n) % (WordMax + 1) <= MaxCount

\* Both forms of the overflow test compute it without wrapping.
Fits(o, n) == n <= MaxCount - count[o]

\* Mutant: a release of several permits wakes one waiter.
WakeOnly(o) == CondvarSignal(o)

WakeWaiters(o) == CondvarBroadcast(o)

ReleaseBody(t) ==
  LET o == call[t].obj  n == call[t].arg IN
  /\ BodyDone(t) /\ call[t].op = "release"
  /\ \/ /\ Fits(o, n)
        /\ count' = [count EXCEPT ![o] = (@ + n) % (WordMax + 1)]
        /\ WakeWaiters(o)
     \/ ~Fits(o, n) /\ UNCHANGED <<count, schedVars>>

AcquireStep(t) ==
  LET o == call[t].obj IN
  \/ WaitGranted(t, Available(o)) /\ count' = [count EXCEPT ![o] = @ - 1]
  \/ (WaitCancelled(t, Available(o)) \/ WaitTimedOut(t, Available(o)) \/ WaitPark(t, Available(o))) /\ UNCHANGED count

KSemaphoreAcquire(t, o) == \E tick \in Timeouts : EnterCall(t, o, "wait", 0, tick)
KSemaphoreRelease(t, o) == \E n \in PostSizes : EnterCall(t, o, "release", n, "none")

Continue(t) == (CallStep(t) /\ UNCHANGED count) \/ AcquireStep(t) \/ ReleaseBody(t)

Next ==
  \/ \E t \in Tasks, o \in Objects : (KSemaphoreAcquire(t, o) \/ KSemaphoreRelease(t, o)) /\ UNCHANGED count
  \/ \E t \in Tasks : Continue(t)
  \/ Environment /\ UNCHANGED count

Spec == Init /\ [][Next]_vars

(* A call in progress is executed and the timer ticks.                     *)
FairSpec == Spec /\ \A t \in Tasks : WF_vars(Continue(t)) /\ WF_vars(Timer(t) /\ UNCHANGED count)

-----------------------------------------------------------------------------
(* No permit waits beside a parked waiter: a release wakes everybody, and  *)
(* a waiter parks only in the lock hold in which it saw no permit.         *)
NoStrandedPermit ==
  \A o \in Objects : count[o] > 0 => queue[Cv(o)] = <<>>

(* The semaphore keeps the promise of WaitPromise: permits are conserved,  *)
(* whichever of waker, timer and killer a wait meets.                      *)
Promise(o) == INSTANCE WaitPromise
  WITH MaxLevel <- MaxCount, consumes <- TRUE, level <- count[o],
       outcome <- [t \in Tasks |-> IF call[t].obj = o THEN call[t].result ELSE "none"],
       timed <- [t \in Tasks |-> call[t].obj = o /\ call[t].tick # "none"],
       killed <- kill_ticket
ImplementsSemaphore ==
  /\ \A o \in Objects : Promise(o)!Init
  /\ [][\A o \in Objects : Promise(o)!Next \/ UNCHANGED Promise(o)!vars]_vars
=============================================================================
