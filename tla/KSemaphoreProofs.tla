-------------------------- MODULE KSemaphoreProofs --------------------------
(***************************************************************************)
(* The counting semaphore, for any number of tasks, objects and permits:   *)
(* no permit is stranded beside a parked waiter, the count stays in its    *)
(* range, and the semaphore implements WaitPromise.                        *)
(***************************************************************************)
EXTENDS KSemaphore, CondvarObjectProofs

Ops == {"wait", "release"}

(* A permit and a parked waiter exclude each other.                        *)
PermitsTaken == \A o \in Objects : count[o] > 0 => \A u \in Tasks : ~ParkedAt(u, o)

SInv ==
  /\ CallInv(Ops, PostSizes, {}) /\ OutcomesFit
  /\ count \in [Objects -> 0..MaxCount] /\ PermitsTaken

-----------------------------------------------------------------------------
(* The steps *)

\* A release that fits does not wrap and leaves the count in its range.
LEMMA FittingSum ==
  ASSUME NEW c \in 0..MaxCount, NEW n \in PostSizes \cup {0}, n <= MaxCount - c
  PROVE  /\ (c + n) % (WordMax + 1) = c + n /\ c + n \in c..MaxCount
<1>1. WordMax \in Nat /\ MaxCount \in Nat /\ MaxCount <= WordMax /\ n \in Nat /\ c \in Nat
  BY KSemaphoreAssumption
<1>2. c + n \in c..MaxCount
  BY <1>1
<1>3. c + n \in 0..WordMax
  BY <1>1, <1>2
<1>4. \A a \in 0..WordMax : a % (WordMax + 1) = a
  BY <1>1, SMT
<1> QED BY <1>2, <1>3, <1>4

\* What a release leaves behind.
LEMMA ReleaseCounts ==
  ASSUME SInv, NEW t \in Tasks, ReleaseBody(t)
  PROVE  /\ call[t].obj \in Objects /\ count' \in [Objects -> 0..MaxCount]
         /\ \A o \in Objects \ {call[t].obj} : count'[o] = count[o]
         /\ count'[call[t].obj] \in count[call[t].obj]..MaxCount
         /\ \/ UNCHANGED <<count, schedVars>>
            \/ CondvarBroadcast(call[t].obj)
<1>0. pc[t] = "body" /\ CallInv(Ops, PostSizes, {}) /\ count \in [Objects -> 0..MaxCount]
  BY DEF SInv, ReleaseBody, BodyDone, At
<1>1. call[t].obj \in Objects /\ call[t] \in CallRecords(Ops, PostSizes) /\ MaxCount \in Nat
  BY <1>0, CallFacts, KSemaphoreAssumption
<1>2. call[t].arg \in PostSizes \cup {0}
  BY <1>1 DEF CallRecords
<1> SUFFICES ASSUME NEW o \in Objects, o = call[t].obj
             PROVE  /\ count' \in [Objects -> 0..MaxCount]
                    /\ \A p \in Objects \ {o} : count'[p] = count[p]
                    /\ count'[o] \in count[o]..MaxCount
                    /\ UNCHANGED <<count, schedVars>> \/ CondvarBroadcast(o)
  BY <1>1
<1> DEFINE n == call[t].arg
<1>3. CASE Fits(o, n) /\ count' = [count EXCEPT ![o] = (@ + n) % (WordMax + 1)] /\ WakeWaiters(o)
  <2>1. (count[o] + n) % (WordMax + 1) = count[o] + n /\ count[o] + n \in count[o]..MaxCount /\ count[o] + n \in 0..MaxCount
    <3>1. count[o] \in 0..MaxCount /\ n <= MaxCount - count[o]
      BY <1>0, <1>3 DEF Fits
    <3>2. (count[o] + n) % (WordMax + 1) = count[o] + n /\ count[o] + n \in count[o]..MaxCount
      BY <1>2, <3>1, FittingSum
    <3> QED BY <1>1, <3>1, <3>2
  <2>2. count' = [count EXCEPT ![o] = count[o] + n]
    BY <1>3, <2>1
  <2> QED BY <1>0, <1>3, <2>1, <2>2 DEF WakeWaiters
<1>4. CASE UNCHANGED <<count, schedVars>>
  <2>1. count[o] \in 0..MaxCount
    BY <1>0
  <2> QED BY <1>0, <1>1, <1>4, <2>1
<1> QED BY <1>3, <1>4 DEF ReleaseBody

\* Where nobody parks, permits that are not added stay taken.
LEMMA PermitsKept ==
  ASSUME SInv, NobodyParks, count' \in [Objects -> 0..MaxCount], \A o \in Objects : count'[o] <= count[o]
  PROVE  PermitsTaken'
<1> SUFFICES ASSUME NEW o \in Objects, count'[o] > 0, NEW u \in Tasks, ParkedAt(u, o)' PROVE FALSE
  BY DEF PermitsTaken
<1>1. count[o] \in Nat /\ count'[o] \in Nat
  BY KSemaphoreAssumption DEF SInv
<1>2. count[o] > 0
  BY <1>1
<1> QED BY <1>2 DEF SInv, PermitsTaken, NobodyParks

\* Entering a call.
LEMMA EnterKeeps ==
  ASSUME SInv, NEW t \in Tasks, NEW o \in Objects, KSemaphoreAcquire(t, o) \/ KSemaphoreRelease(t, o), UNCHANGED count
  PROVE  SInv'
<1>0. CallInv(Ops, PostSizes, {}) /\ OutcomesFit /\ count \in [Objects -> 0..MaxCount]
  BY DEF SInv
<1>1. PICK op \in Ops, arg \in PostSizes \cup {0}, tick \in {"none", "zero", "deadline"} :
        EnterCall(t, o, op, arg, tick) /\ (op = "wait" \/ tick = "none")
  BY CondvarObjectAssumption DEF KSemaphoreAcquire, KSemaphoreRelease, Ops
<1>2. CallInv(Ops, PostSizes, {})' /\ Others(t)
  BY <1>0, <1>1, EnterCallKeeps
<1>3. OutcomesFit'
  BY <1>0, <1>1, <1>2, EnterOutcomes DEF Ops
<1>4. NobodyParks
  BY <1>0, <1>1, <1>2, StepParksNobody
<1>5. PermitsTaken'
  BY <1>0, <1>4, PermitsKept
<1> QED BY <1>0, <1>2, <1>3, <1>5 DEF SInv

\* The steps of a call that every object shares.
LEMMA CallStepKeeps ==
  ASSUME SInv, NEW t \in Tasks, CallStep(t), UNCHANGED count
  PROVE  SInv'
<1>0. CallInv(Ops, PostSizes, {}) /\ OutcomesFit /\ count \in [Objects -> 0..MaxCount]
  BY DEF SInv
<1>1. CallInv(Ops, PostSizes, {})' /\ Others(t)
  BY <1>0, LockInnerKeeps, WaitResumeKeeps, UnlockInnerKeeps, ReturnKeeps DEF CallStep
<1>2. OutcomesFit'
  BY <1>0, <1>1, StepOutcomes
<1>3. NobodyParks
  BY <1>0, <1>1, StepParksNobody
<1>4. PermitsTaken'
  BY <1>0, <1>3, PermitsKept
<1> QED BY <1>0, <1>1, <1>2, <1>4 DEF SInv

\* The test of a wait, in one lock hold with what it decides.
LEMMA AcquireStepKeeps ==
  ASSUME SInv, NEW t \in Tasks, AcquireStep(t)
  PROVE  SInv'
<1>0. CallInv(Ops, PostSizes, {}) /\ OutcomesFit /\ count \in [Objects -> 0..MaxCount] /\ MaxCount \in Nat
  BY KSemaphoreAssumption DEF SInv
<1>1. pc[t] = "test"
  BY DEF AcquireStep, WaitGranted, WaitCancelled, WaitTimedOut, WaitPark, At
<1>2. call[t].obj \in Objects
  BY <1>0, <1>1, CallFacts
<1> SUFFICES ASSUME NEW o \in Objects, o = call[t].obj PROVE SInv'
  BY <1>2
<1>3. ASSUME NEW r \in {"granted", "timedout", "cancelled"}, Decide(t, r)
      PROVE  CallInv(Ops, PostSizes, {})' /\ OutcomesFit' /\ NobodyParks
  <2>1. r \in Results
    BY DEF Results
  <2>2. CallInv(Ops, PostSizes, {})' /\ Others(t)
    BY <1>0, <1>1, <1>3, <2>1, DecideKeeps
  <2>3. OutcomesFit'
    BY <1>0, <1>1, <1>3, <2>2, DecideOutcomes
  <2> QED BY <1>0, <1>3, <2>1, <2>2, <2>3, StepParksNobody
<1>4. CASE WaitGranted(t, Available(o)) /\ count' = [count EXCEPT ![o] = @ - 1]
  <2>1. Decide(t, "granted") /\ count[o] > 0
    BY <1>4 DEF WaitGranted, Available
  <2>2. count[o] \in 1..MaxCount
    BY <1>0, <2>1
  <2>3. count' \in [Objects -> 0..MaxCount] /\ \A p \in Objects : count'[p] <= count[p]
    <3>1. ASSUME NEW p \in Objects PROVE count'[p] \in 0..MaxCount /\ count'[p] <= count[p]
      BY <1>0, <1>4, <2>2
    <3>2. count' \in [Objects -> 0..MaxCount]
      BY <1>0, <1>4, <3>1
    <3> QED BY <3>1, <3>2
  <2>4. PermitsTaken'
    BY <1>3, <2>1, <2>3, PermitsKept
  <2> QED BY <1>3, <2>1, <2>3, <2>4 DEF SInv
<1>5. CASE (WaitCancelled(t, Available(o)) \/ WaitTimedOut(t, Available(o))) /\ UNCHANGED count
  <2>1. \E r \in {"cancelled", "timedout"} : Decide(t, r)
    BY <1>5 DEF WaitCancelled, WaitTimedOut
  <2>2. PermitsTaken'
    BY <1>0, <1>3, <1>5, <2>1, PermitsKept
  <2> QED BY <1>0, <1>3, <1>5, <2>1, <2>2 DEF SInv
<1>6. CASE WaitPark(t, Available(o)) /\ UNCHANGED count
  <2>1. CallInv(Ops, PostSizes, {})' /\ Others(t)
    BY <1>0, <1>6, WaitParkKeeps
  <2>2. OutcomesFit'
    BY <1>0, <1>6, <2>1, ParkOutcomes
  <2>3. \A u \in Tasks, p \in Objects : ParkedAt(u, p)' => ParkedAt(u, p) \/ p = o
    BY <1>0, <1>6, <2>1, WaitParks
  <2>4. ~(count[o] > 0)
    BY <1>6 DEF WaitPark, Available
  <2>5. PermitsTaken'
    BY <1>6, <2>3, <2>4 DEF SInv, PermitsTaken
  <2> QED BY <1>0, <1>6, <2>1, <2>2, <2>5 DEF SInv
<1> QED BY <1>4, <1>5, <1>6 DEF AcquireStep

\* A release wakes everybody it may have a permit for.
LEMMA ReleaseKeeps ==
  ASSUME SInv, NEW t \in Tasks, ReleaseBody(t)
  PROVE  SInv'
<1>0. CallInv(Ops, PostSizes, {}) /\ OutcomesFit /\ BodyDone(t)
  BY DEF SInv, ReleaseBody
<1>1. /\ call[t].obj \in Objects /\ count' \in [Objects -> 0..MaxCount]
      /\ \A o \in Objects \ {call[t].obj} : count'[o] = count[o]
      /\ UNCHANGED <<count, schedVars>> \/ CondvarBroadcast(call[t].obj)
  BY ReleaseCounts
<1> SUFFICES ASSUME NEW o \in Objects, o = call[t].obj PROVE SInv'
  BY <1>1
<1>2. CallInv(Ops, PostSizes, {})' /\ Others(t)
  BY <1>0, <1>1, BodyDoneKeeps
<1>3. OutcomesFit'
  BY <1>0, <1>2, StepOutcomes
<1>4. NobodyParks
  BY <1>0, <1>2, StepParksNobody
<1>5. PermitsTaken'
  <2> SUFFICES ASSUME NEW p \in Objects, count'[p] > 0, NEW u \in Tasks, ParkedAt(u, p)' PROVE FALSE
    BY DEF PermitsTaken
  <2>1. ParkedAt(u, p)
    BY <1>4 DEF NobodyParks
  <2>2. CASE count'[p] = count[p]
    BY <2>1, <2>2 DEF SInv, PermitsTaken
  <2>3. CASE p = o /\ CondvarBroadcast(o)
    <3>1. wait'[u] = Woken(wait[u]) /\ wait[u] \in WaitRecords
      BY <1>0, <2>1, <2>3, CallFacts DEF CondvarBroadcast, ParkedAt
    <3> QED BY <3>1, WokenFields, QueueNames DEF ParkedAt
  <2> QED BY <1>1, <2>2, <2>3
<1> QED BY <1>1, <1>2, <1>3, <1>5 DEF SInv

\* Timers, kills, deaths, new tasks and closed handles.
LEMMA EnvironmentKeeps ==
  ASSUME SInv, Environment, UNCHANGED count
  PROVE  SInv'
<1>0. CallInv(Ops, PostSizes, {}) /\ OutcomesFit /\ count \in [Objects -> 0..MaxCount]
  BY DEF SInv
<1>1. CallInv(Ops, PostSizes, {})' /\ OutcomesFit' /\ NobodyParks
  BY <1>0, SharedKeeps, EnvironmentOutcomes, EnvironmentParksNobody
<1>2. PermitsTaken'
  BY <1>0, <1>1, PermitsKept
<1> QED BY <1>0, <1>1, <1>2 DEF SInv

-----------------------------------------------------------------------------
(* The invariant *)

\* A created semaphore has nobody parked on it.
LEMMA SInvInit == Init => SInv
<1> SUFFICES ASSUME Init PROVE SInv
  OBVIOUS
<1>1. CallInit /\ count \in [Objects -> 0..MaxCount]
  BY DEF Init
<1>2. CallInv(Ops, PostSizes, {}) /\ OutcomesFit
  BY <1>1, CallInvInit, OutcomesInit
<1>3. PermitsTaken
  <2>1. \A o \in Objects : queue[Cv(o)] = <<>>
    BY <1>1, QueueNames DEF CallInit, SchedInit
  <2> QED BY <1>2, <2>1, EmptyQueue DEF CallInv, PermitsTaken
<1> QED BY <1>1, <1>2, <1>3 DEF SInv

\* Every step keeps the invariant.
LEMMA SInvNext == SInv /\ [Next]_vars => SInv'
<1> SUFFICES ASSUME SInv, [Next]_vars PROVE SInv'
  OBVIOUS
<1>1. CASE \E t \in Tasks, o \in Objects : (KSemaphoreAcquire(t, o) \/ KSemaphoreRelease(t, o)) /\ UNCHANGED count
  BY <1>1, EnterKeeps
<1>2. CASE \E t \in Tasks : Continue(t)
  BY <1>2, CallStepKeeps, AcquireStepKeeps, ReleaseKeeps DEF Continue
<1>3. CASE Environment /\ UNCHANGED count
  BY <1>3, EnvironmentKeeps
<1>4. CASE UNCHANGED vars
  <2>1. UNCHANGED <<wait, kill_ticket, queue, owner, owned_internal_mutex_count, refcount, handles, pc, call, count>>
    BY <1>4 DEF vars, schedVars, callVars
  <2>2. SchedTypeOK' /\ SchedInv'
    BY <2>1, SchedStill DEF SInv, CallInv, SchedInv, schedVars
  <2>3. CallTypeOK(Ops, PostSizes, {})' /\ TasksFit' /\ OutcomesFit' /\ PermitsTaken'
    BY <2>1, <2>2 DEF SInv, CallInv, CallTypeOK, TasksFit, TaskFits, Blocked, Holds, IsWait, OutcomesFit, OutcomeFits, PermitsTaken, ParkedAt
  <2>4. ReferencesOK'
    BY <2>1 DEF SInv, CallInv, ReferencesOK, Count, CallOn, WaitOn
  <2> QED BY <2>1, <2>2, <2>3, <2>4 DEF SInv, CallInv
<1> QED BY <1>1, <1>2, <1>3, <1>4 DEF Next

(* The inductive invariant: types, the scheduler's queues, where each task *)
(* stands against what it owns and waits for, exact references, outcomes   *)
(* only of decided waits, and no permit beside a parked waiter.            *)
THEOREM SemaphoreInductive == Spec => []SInv
BY SInvInit, SInvNext, PTL DEF Spec

(* The count never leaves 0..max_count, whatever releases are refused and  *)
(* whatever waits are granted, and every other variable keeps its type.    *)
THEOREM SemaphoreTypes == Spec => []TypeOK
<1>1. SInv => TypeOK
  BY DEF SInv, CallInv, TypeOK, Ops
<1> QED BY <1>1, SemaphoreInductive, PTL

(* No permit waits beside a parked waiter.                                 *)
THEOREM SemaphoreStrandsNoPermit == Spec => []NoStrandedPermit
<1>1. SInv => NoStrandedPermit
  <2> SUFFICES ASSUME SInv, NEW o \in Objects, count[o] > 0 PROVE queue[Cv(o)] = <<>>
    BY DEF NoStrandedPermit
  <2> QED BY EmptyQueue DEF SInv, CallInv, PermitsTaken
<1> QED BY <1>1, SemaphoreInductive, PTL

(* Every reference to a semaphore is accounted for, and its inner mutex is *)
(* used as the scheduler's assertions demand.                              *)
THEOREM SemaphoreReferences == Spec => [](ReferencesExact /\ MutexDiscipline)
<1>1. SInv => ReferencesExact /\ MutexDiscipline
  BY CallInvReferences, CallInvDiscipline DEF SInv
<1> QED BY <1>1, SemaphoreInductive, PTL

-----------------------------------------------------------------------------
(* The promise *)

Promised == \A o \in Objects : Promise(o)!Next \/ UNCHANGED Promise(o)!vars

\* What is not seen of an object is a stutter of its promise.
LEMMA HiddenStutters ==
  ASSUME NEW o \in Objects, Hidden(o), UNCHANGED kill_ticket, count'[o] = count[o]
  PROVE  UNCHANGED Promise(o)!vars
BY DEF Hidden, Outcomes, Timed, Promise!vars

\* A step seen of one object only answers for that one.
LEMMA OneObjectMoves ==
  ASSUME NEW o \in Objects, OnlyAt(o), UNCHANGED kill_ticket, \A p \in Objects \ {o} : count'[p] = count[p],
         Promise(o)!Next \/ UNCHANGED Promise(o)!vars
  PROVE  Promised
BY HiddenStutters DEF OnlyAt, Promised

\* A step of which nothing is seen.
LEMMA NoObjectMoves ==
  ASSUME \A o \in Objects : Hidden(o), UNCHANGED <<kill_ticket, count>>
  PROVE  Promised
BY HiddenStutters DEF Promised

\* Entering.
LEMMA EnterPromised ==
  ASSUME SInv, NEW t \in Tasks, NEW o \in Objects, KSemaphoreAcquire(t, o) \/ KSemaphoreRelease(t, o), UNCHANGED count
  PROVE  Promised
<1>0. CallInv(Ops, PostSizes, {})
  BY DEF SInv
<1>1. CASE KSemaphoreAcquire(t, o)
  <2>1. PICK tick \in Timeouts : EnterCall(t, o, "wait", 0, tick)
    BY <1>1 DEF KSemaphoreAcquire
  <2>2. Begins(t, o, tick # "none") /\ OnlyAt(o) /\ UNCHANGED kill_ticket
    BY <1>0, <2>1, EnterSeen
  <2>3. Promise(o)!Begin(t, tick # "none")
    BY <2>2 DEF Begins, Outcomes, Timed, Promise!Begin
  <2>4. Promise(o)!Next
    BY <2>3 DEF Promise!Next
  <2> QED BY <2>2, <2>4, OneObjectMoves
<1>2. CASE KSemaphoreRelease(t, o)
  <2>1. PICK n \in PostSizes : EnterCall(t, o, "release", n, "none")
    BY <1>2 DEF KSemaphoreRelease
  <2>2. Hidden(o) /\ OnlyAt(o) /\ UNCHANGED kill_ticket
    BY <1>0, <2>1, EnterSeen
  <2> QED BY <2>2, NoObjectMoves DEF OnlyAt
<1> QED BY <1>1, <1>2

\* The steps of a call that every object shares.
LEMMA CallStepPromised ==
  ASSUME SInv, NEW t \in Tasks, CallStep(t), UNCHANGED count
  PROVE  Promised
<1>0. CallInv(Ops, PostSizes, {}) /\ OutcomesFit
  BY DEF SInv
<1>1. CASE LockInner(t) \/ UnlockInner(t) \/ WaitResume(t)
  <2>1. \A o \in Objects : Hidden(o)
    BY <1>0, <1>1, StepSeen
  <2>2. UNCHANGED kill_ticket
    BY <1>1 DEF LockInner, MutexPark, UnlockInner, UnlockTo, MutexUnlock, MutexRelinquish, WaitResume, ClassifyCancellableWaitResume
  <2> QED BY <2>1, <2>2, NoObjectMoves
<1>2. CASE ReturnFromCall(t)
  <2>1. /\ call[t].obj \in Objects /\ OnlyAt(call[t].obj) /\ UNCHANGED kill_ticket
        /\ Hidden(call[t].obj) \/ Ends(t, call[t].obj)
    BY <1>0, <1>2, ReturnSeen
  <2> SUFFICES ASSUME NEW o \in Objects, o = call[t].obj PROVE Promised
    BY <2>1
  <2>2. CASE Hidden(o)
    BY <2>1, <2>2, NoObjectMoves DEF OnlyAt
  <2>3. CASE Ends(t, o)
    <3>1. Promise(o)!End(t)
      BY <2>1, <2>3 DEF Ends, Outcomes, Timed, Promise!End
    <3>2. Promise(o)!Next
      BY <3>1 DEF Promise!Next
    <3> QED BY <2>1, <3>2, OneObjectMoves
  <2> QED BY <2>1, <2>2, <2>3
<1> QED BY <1>1, <1>2 DEF CallStep

\* A wait is granted with a permit, times out without one, or is cancelled by a kill.
LEMMA AcquireStepPromised ==
  ASSUME SInv, NEW t \in Tasks, AcquireStep(t)
  PROVE  Promised
<1>0. CallInv(Ops, PostSizes, {}) /\ OutcomesFit /\ count \in [Objects -> 0..MaxCount] /\ MaxCount \in Nat
  BY KSemaphoreAssumption DEF SInv
<1>1. pc[t] = "test"
  BY DEF AcquireStep, WaitGranted, WaitCancelled, WaitTimedOut, WaitPark, At
<1>2. call[t].obj \in Objects /\ TaskFits(t)
  BY <1>0, <1>1, CallFacts
<1> SUFFICES ASSUME NEW o \in Objects, o = call[t].obj PROVE Promised
  BY <1>2
<1>3. ASSUME NEW r, Decide(t, r)
      PROVE  OnlyAt(o) /\ UNCHANGED kill_ticket /\ Concludes(t, o, r) /\ Timed(o)[t] = (call[t].tick # "none")
  BY <1>0, <1>1, <1>3, DecideSeen
<1>4. CASE WaitGranted(t, Available(o)) /\ count' = [count EXCEPT ![o] = @ - 1]
  <2>1. Decide(t, "granted") /\ count[o] > 0 /\ count'[o] = count[o] - 1 /\ \A p \in Objects \ {o} : count'[p] = count[p]
    BY <1>0, <1>4 DEF WaitGranted, Available
  <2>2. OnlyAt(o) /\ UNCHANGED kill_ticket /\ Concludes(t, o, "granted")
    BY <1>3, <2>1
  <2>3. Promise(o)!Grant(t)
    BY <2>1, <2>2 DEF Concludes, Outcomes, Timed, Promise!Grant, Promise!Conclude
  <2>4. Promise(o)!Next
    BY <2>3 DEF Promise!Next
  <2> QED BY <2>1, <2>2, <2>4, OneObjectMoves
<1>5. CASE WaitCancelled(t, Available(o)) /\ UNCHANGED count
  <2>1. Decide(t, "cancelled") /\ kill_ticket[t]
    BY <1>2, <1>5 DEF WaitCancelled, Aborted, KillPending, TaskFits
  <2>2. OnlyAt(o) /\ UNCHANGED kill_ticket /\ Concludes(t, o, "cancelled")
    BY <1>3, <2>1
  <2>3. Promise(o)!Cancel(t)
    BY <1>5, <2>1, <2>2 DEF Concludes, Outcomes, Timed, Promise!Cancel, Promise!Conclude
  <2>4. Promise(o)!Next
    BY <2>3 DEF Promise!Next
  <2> QED BY <1>5, <2>2, <2>4, OneObjectMoves
<1>6. CASE WaitTimedOut(t, Available(o)) /\ UNCHANGED count
  <2>1. Decide(t, "timedout") /\ count[o] = 0 /\ call[t].tick # "none"
    BY <1>0, <1>6 DEF WaitTimedOut, Available, OutOfTime
  <2>2. OnlyAt(o) /\ UNCHANGED kill_ticket /\ Concludes(t, o, "timedout") /\ Timed(o)[t]
    BY <1>3, <2>1
  <2>3. Promise(o)!TimeOut(t)
    BY <1>6, <2>1, <2>2 DEF Concludes, Outcomes, Timed, Promise!TimeOut, Promise!Conclude
  <2>4. Promise(o)!Next
    BY <2>3 DEF Promise!Next
  <2> QED BY <1>6, <2>2, <2>4, OneObjectMoves
<1>7. CASE WaitPark(t, Available(o)) /\ UNCHANGED count
  <2>1. \A p \in Objects : Hidden(p)
    BY <1>0, <1>7, StepSeen
  <2> QED BY <1>7, <2>1, NoObjectMoves DEF WaitPark, CondvarPark
<1> QED BY <1>4, <1>5, <1>6, <1>7 DEF AcquireStep

\* A release raises the level within its range, or is refused and not seen.
LEMMA ReleasePromised ==
  ASSUME SInv, NEW t \in Tasks, ReleaseBody(t)
  PROVE  Promised
<1>0. CallInv(Ops, PostSizes, {}) /\ BodyDone(t) /\ count \in [Objects -> 0..MaxCount] /\ MaxCount \in Nat
  BY KSemaphoreAssumption DEF SInv, ReleaseBody
<1>1. /\ call[t].obj \in Objects /\ \A o \in Objects \ {call[t].obj} : count'[o] = count[o]
      /\ count'[call[t].obj] \in count[call[t].obj]..MaxCount
      /\ UNCHANGED <<count, schedVars>> \/ CondvarBroadcast(call[t].obj)
  BY ReleaseCounts
<1> SUFFICES ASSUME NEW o \in Objects, o = call[t].obj PROVE Promised
  BY <1>1
<1>2. (\A p \in Objects : Hidden(p)) /\ UNCHANGED kill_ticket
  BY <1>0, <1>1, StepSeen DEF CondvarBroadcast, schedVars
<1>3. CASE count'[o] = count[o]
  <2>1. UNCHANGED Promise(o)!vars
    BY <1>2, <1>3, HiddenStutters
  <2> QED BY <1>1, <1>2, <2>1, OneObjectMoves DEF OnlyAt
<1>4. CASE count'[o] # count[o]
  <2>1. count'[o] \in (count[o] + 1)..MaxCount
    <3>1. count[o] \in Nat /\ count'[o] \in count[o]..MaxCount
      BY <1>0, <1>1
    <3> QED BY <1>0, <1>4, <3>1
  <2>2. Promise(o)!Raise
    BY <1>2, <2>1 DEF Hidden, Outcomes, Timed, Promise!Raise
  <2>3. Promise(o)!Next
    BY <2>2 DEF Promise!Next
  <2> QED BY <1>1, <1>2, <2>3, OneObjectMoves DEF OnlyAt
<1> QED BY <1>3, <1>4

\* A kill and a fresh task are seen by every object.
LEMMA EnvironmentPromised ==
  ASSUME SInv, Environment, UNCHANGED count
  PROVE  Promised
<1>1. (\A o \in Objects : Hidden(o)) /\ (UNCHANGED kill_ticket \/ \E t \in Tasks : TicketMoves(t))
  BY EnvironmentSeen DEF SInv
<1>2. CASE UNCHANGED kill_ticket
  BY <1>1, <1>2, NoObjectMoves
<1>3. CASE \E t \in Tasks : TicketMoves(t) /\ ~UNCHANGED kill_ticket
  <2>1. PICK t \in Tasks : TicketMoves(t) /\ ~UNCHANGED kill_ticket
    BY <1>3
  <2>2. ASSUME NEW o \in Objects PROVE Promise(o)!Next
    <3>1. Outcomes(o)' = Outcomes(o) /\ Timed(o)' = Timed(o) /\ UNCHANGED count
      BY <1>1 DEF Hidden
    <3>2. \/ ~kill_ticket[t] /\ kill_ticket' = [kill_ticket EXCEPT ![t] = TRUE]
          \/ Outcomes(o)[t] = "none" /\ kill_ticket[t] /\ kill_ticket' = [kill_ticket EXCEPT ![t] = FALSE]
      BY <2>1 DEF TicketMoves
    <3>3. Promise(o)!Kill(t) \/ Promise(o)!Replace(t)
      BY <3>2 DEF Outcomes, Promise!Kill, Promise!Replace
    <3> QED BY <3>1, <3>3 DEF Outcomes, Timed, Promise!Next
  <2> QED BY <2>2 DEF Promised
<1> QED BY <1>1, <1>2, <1>3

\* Every step is, for each semaphore, a step of its promise or not seen.
LEMMA NextPromised ==
  ASSUME SInv, [Next]_vars
  PROVE  Promised
<1>1. CASE \E t \in Tasks, o \in Objects : (KSemaphoreAcquire(t, o) \/ KSemaphoreRelease(t, o)) /\ UNCHANGED count
  BY <1>1, EnterPromised
<1>2. CASE \E t \in Tasks : Continue(t)
  BY <1>2, CallStepPromised, AcquireStepPromised, ReleasePromised DEF Continue
<1>3. CASE Environment /\ UNCHANGED count
  BY <1>3, EnvironmentPromised
<1>4. CASE UNCHANGED vars
  <2>1. (\A o \in Objects : Hidden(o)) /\ UNCHANGED <<kill_ticket, count>>
    BY <1>4 DEF vars, callVars, schedVars, Hidden, Outcomes, Timed
  <2> QED BY <2>1, NoObjectMoves
<1> QED BY <1>1, <1>2, <1>3, <1>4 DEF Next

(* The semaphore implements WaitPromise, for every object, number of tasks *)
(* and maximum count: a permit goes to exactly one granted wait, a wait    *)
(* that times out or is cancelled takes none, and only a release that fits *)
(* adds any.                                                               *)
THEOREM SemaphoreImplements == Spec => ImplementsSemaphore
<1>1. Init => \A o \in Objects : Promise(o)!Init
  <2> SUFFICES ASSUME Init, NEW o \in Objects PROVE Promise(o)!Init
    OBVIOUS
  <2>1. count[o] \in 0..MaxCount /\ kill_ticket = [t \in Tasks |-> FALSE] /\ call = [t \in Tasks |-> NoCall] /\ NoCall.obj # o
    BY SchedAssumption DEF Init, CallInit, SchedInit, NoCall
  <2>2. [t \in Tasks |-> IF call[t].obj = o THEN call[t].result ELSE "none"] = [t \in Tasks |-> "none"]
    BY <2>1
  <2>3. [t \in Tasks |-> call[t].obj = o /\ call[t].tick # "none"] = [t \in Tasks |-> FALSE]
    BY <2>1
  <2> QED BY <2>1, <2>2, <2>3 DEF Promise!Init
<1>2. ASSUME SInv, [Next]_vars PROVE [Promised]_vars
  BY <1>2, NextPromised
<1>3. [][Promised]_vars <=> [][\A o \in Objects : Promise(o)!Next \/ UNCHANGED Promise(o)!vars]_vars
  BY DEF Promised
<1>4. Spec => [][Promised]_vars
  BY <1>2, SemaphoreInductive, PTL DEF Spec
<1> QED BY <1>1, <1>3, <1>4 DEF Spec, ImplementsSemaphore
=============================================================================
