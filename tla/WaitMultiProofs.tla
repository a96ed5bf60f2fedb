-------------------------- MODULE WaitMultiProofs --------------------------
(***************************************************************************)
(* The events and SYS_WAIT_MULTI over them, for any number of tasks and    *)
(* events and any handle arrays: no wake-up is lost, references and the    *)
(* inner mutex are in order, and events nobody multi-waits for implement   *)
(* WaitPromise.                                                            *)
(***************************************************************************)
EXTENDS WaitMulti, CondvarObjectProofs, WellFoundedInduction

(* A waiter that will look at the event: off the condition variable, and   *)
(* not by a cancellation.                                                  *)
OnTheWay(t, o) ==
  /\ call[t].obj = o /\ IsWait(t) /\ pc[t] \in {"parked", "lock", "test"} /\ ~ParkedAt(t, o)
  /\ call[t].woke # "Cancelled" /\ ~wait[t].wake_by_cancel

SignalsHeeded ==
  \A o \in Objects : signaled[o] /\ (\E u \in Tasks : ParkedAt(u, o)) =>
    ~manual_reset[o] /\ \E t \in Tasks : OnTheWay(t, o)

MultiRecords ==
  [handles: Seq(Objects), all: BOOLEAN, tick: {"none", "deadline", "past"}, todo: Seq(Objects),
   hits: SUBSET Nat, phase: {"none", "poll", "claim", "pause"}]

(* A multi-wait polls what is left of its array, and remembers positions   *)
(* of it; a peek or a clear belongs to one.                                *)
MultiFits(t) ==
  /\ multi[t] \in MultiRecords
  /\ multi[t].hits \subseteq 1..Len(multi[t].handles)
  /\ multi[t].phase \in {"none", "pause"} => multi[t].todo = <<>>
  /\ multi[t].phase = "poll" => Len(multi[t].todo) <= Len(multi[t].handles)
  /\ call[t].op = "peek" => multi[t].phase = "poll" /\ Len(multi[t].todo) < Len(multi[t].handles)
  /\ call[t].op = "clear" => multi[t].phase = "claim"
  /\ t \notin MultiTasks => multi[t].phase = "none"

MultisFit == \A t \in Tasks : MultiFits(t)

EInv ==
  /\ CallInv(EventOps, {}, {}) /\ OutcomesFit
  /\ signaled \in [Objects -> BOOLEAN] /\ manual_reset \in [Objects -> BOOLEAN] /\ SignalsHeeded
  /\ multi \in [Tasks -> MultiRecords] /\ MultisFit

-----------------------------------------------------------------------------
(* Waiters on their way *)

\* A waiter on its way that another task's step spares stays on its way.
LEMMA SparedOnTheWay ==
  ASSUME NEW u \in Tasks, NEW o \in Objects, wait[u] \in WaitRecords, Spared(u), OnTheWay(u, o)
  PROVE  OnTheWay(u, o)'
<1>1. pc'[u] = pc[u] /\ call'[u] = call[u] /\ (wait'[u] = wait[u] \/ wait'[u] = Woken(wait[u]))
  BY DEF Spared
<1>2. Woken(wait[u]).waiting_on = NULL /\ Woken(wait[u]).wake_by_cancel = FALSE /\ Cv(o) # NULL
  BY WokenFields, QueueNames
<1> QED BY <1>1, <1>2 DEF OnTheWay, IsWait, ParkedAt

\* Signals stay heeded where nobody parks and nobody on the way is lost.
LEMMA HeedKept ==
  ASSUME EInv, NobodyParks, UNCHANGED manual_reset, \A o \in Objects : signaled'[o] => signaled[o],
         \A u \in Tasks, o \in Objects : OnTheWay(u, o) /\ signaled'[o] /\ ~manual_reset[o] => OnTheWay(u, o)'
  PROVE  SignalsHeeded'
<1> SUFFICES ASSUME NEW o \in Objects, signaled'[o], NEW u \in Tasks, ParkedAt(u, o)'
             PROVE  ~manual_reset'[o] /\ \E t \in Tasks : OnTheWay(t, o)'
  BY DEF SignalsHeeded
<1>1. signaled[o] /\ ParkedAt(u, o)
  BY DEF NobodyParks
<1>2. ~manual_reset[o] /\ \E t \in Tasks : OnTheWay(t, o)
  BY <1>1 DEF EInv, SignalsHeeded
<1> QED BY <1>2

\* The same for a step of one task that loses nobody on the way.
LEMMA HeedMoves ==
  ASSUME EInv, NobodyParks, UNCHANGED manual_reset, \A o \in Objects : signaled'[o] => signaled[o],
         NEW t \in Tasks, Others(t),
         \A o \in Objects : OnTheWay(t, o) /\ signaled'[o] /\ ~manual_reset[o] => OnTheWay(t, o)'
  PROVE  SignalsHeeded'
<1>1. ASSUME NEW u \in Tasks, NEW o \in Objects, OnTheWay(u, o), signaled'[o], ~manual_reset[o] PROVE OnTheWay(u, o)'
  <2>1. CASE u = t
    BY <1>1, <2>1
  <2>2. CASE u # t
    <3>1. wait[u] \in WaitRecords /\ Spared(u)
      BY <2>2, CallFacts DEF EInv, Others
    <3> QED BY <1>1, <3>1, SparedOnTheWay
  <2> QED BY <2>1, <2>2
<1> QED BY <1>1, HeedKept

\* A waiter on its way stays on it through its own steps to the test.
LEMMA StepOnTheWay ==
  ASSUME EInv, NEW t \in Tasks, CallStep(t) \/ BodyDone(t), NEW o \in Objects, OnTheWay(t, o)
  PROVE  OnTheWay(t, o)'
<1>0. /\ CallInv(EventOps, {}, {}) /\ SchedInv /\ TaskFits(t) /\ pc \in [Tasks -> PCs \cup {}]
      /\ call \in [Tasks -> CallRecords(EventOps, {})] /\ call[t] \in CallRecords(EventOps, {})
      /\ wait \in [Tasks -> WaitRecords] /\ wait[t] \in WaitRecords
  BY CallFacts DEF EInv
<1>1. CASE LockInner(t)
  <2>1. pc[t] = "lock" /\ UNCHANGED call /\ IsWait(t) /\ call[t].obj = o
    BY <1>1 DEF LockInner, At, OnTheWay
  <2>2. CASE UNCHANGED wait /\ pc' = [pc EXCEPT ![t] = IF IsWait(t) THEN "test" ELSE "body"]
    BY <1>0, <2>1, <2>2 DEF OnTheWay, IsWait, ParkedAt
  <2>3. CASE MutexPark(t, o, ParkedOn(wait[t], Inner(o), "none")) /\ UNCHANGED pc
    <3>1. wait'[t].waiting_on = Inner(o) /\ wait'[t].wake_by_cancel = wait[t].wake_by_cancel
      BY <1>0, <2>3 DEF MutexPark, ParkedOn, WaitRecords
    <3> QED BY <2>1, <2>3, <3>1, QueueNames DEF OnTheWay, IsWait, ParkedAt
  <2> QED BY <1>1, <2>1, <2>2, <2>3 DEF LockInner, Goto
<1>2. CASE WaitResume(t)
  <2>1. wait'[t].waiting_on = NULL /\ ~wait'[t].wake_by_cancel
    BY <1>0, <1>2, ResumeKept DEF WaitResume
  <2>2. pc'[t] = "lock" /\ call'[t].obj = call[t].obj /\ call'[t].op = call[t].op /\ call'[t].woke = ResumeResult(t)
    BY <1>0, <1>2 DEF WaitResume, Goto, CallRecords
  <2>3. ResumeResult(t) # "Cancelled"
    BY DEF ResumeResult, OnTheWay
  <2> QED BY <2>1, <2>2, <2>3, QueueNames DEF OnTheWay, IsWait, ParkedAt
<1>3. CASE UnlockInner(t) \/ ReturnFromCall(t) \/ BodyDone(t)
  BY <1>3 DEF UnlockInner, ReturnFromCall, BodyDone, At, OnTheWay
<1> QED BY <1>1, <1>2, <1>3 DEF CallStep

\* No kill, timer or death takes a waiter off its way.
LEMMA EnvironmentOnTheWay ==
  ASSUME EInv, Environment, NEW u \in Tasks, NEW o \in Objects, OnTheWay(u, o)
  PROVE  OnTheWay(u, o)'
<1>0. /\ CallInv(EventOps, {}, {}) /\ TaskFits(u) /\ wait \in [Tasks -> WaitRecords] /\ wait[u] \in WaitRecords
      /\ call \in [Tasks -> CallRecords(EventOps, {})] /\ call[u] \in CallRecords(EventOps, {})
  BY CallFacts DEF EInv
<1>1. ASSUME NEW t \in Tasks, t # u, TaskExit(t) \/ TaskCreate(t) \/ Timer(t) \/ Kill(t) PROVE OnTheWay(u, o)'
  BY <1>0, <1>1, TaskExitKeeps, TaskCreateKeeps, TimerKeeps, KillKeeps, SparedOnTheWay DEF Others
<1>2. ASSUME TaskExit(u) \/ TaskCreate(u) PROVE OnTheWay(u, o)'
  BY <1>2 DEF TaskExit, TaskCreate, At, OnTheWay
<1>3. ASSUME DeadlinePasses(u) PROVE OnTheWay(u, o)'
  <2>1. /\ UNCHANGED <<wait, pc>> /\ call'[u].obj = call[u].obj /\ call'[u].op = call[u].op /\ call'[u].woke = call[u].woke
    BY <1>0, <1>3 DEF DeadlinePasses, schedVars, CallRecords
  <2> QED BY <2>1 DEF OnTheWay, IsWait, ParkedAt
<1>4. ASSUME OnTimerTick(u), UNCHANGED callVars PROVE OnTheWay(u, o)'
  <2>1. wait'[u].waiting_on = NULL /\ ~wait'[u].wake_by_cancel
    BY <1>0, <1>4 DEF OnTimerTick, TimedOut, WaitRecords
  <2> QED BY <1>4, <2>1, QueueNames DEF OnTheWay, IsWait, ParkedAt, callVars
<1>5. ASSUME Kill(u) PROVE OnTheWay(u, o)'
  <2>1. ~CancellableWait(u)
    BY <1>0 DEF CancellableWait, TaskFits, OnTheWay, ParkedAt
  <2>2. UNCHANGED <<wait, pc, call>>
    BY <1>5, <2>1 DEF Kill, SignalTask, callVars
  <2> QED BY <2>2 DEF OnTheWay, IsWait, ParkedAt
<1>6. ASSUME NEW p \in Objects, CloseHandle(p) PROVE OnTheWay(u, o)'
  BY <1>6 DEF CloseHandle, schedVars, OnTheWay, IsWait, ParkedAt
<1> QED BY <1>1, <1>2, <1>3, <1>4, <1>5, <1>6 DEF Environment, Timer

-----------------------------------------------------------------------------
(* Multi-waits *)

\* A set of positions that is not empty has a first one.
LEMMA FirstHit ==
  ASSUME NEW H \in SUBSET Nat, H # {}
  PROVE  Min(H) \in H
<1>1. PICK x \in H : \A y \in H : ~(<<y, x>> \in OpToRel(<, Nat))
  BY NatLessThanWellFounded, WFMin
<1>2. ASSUME NEW y \in H PROVE x <= y
  <2>1. x \in Nat /\ y \in Nat /\ ~(y < x)
    BY <1>1 DEF OpToRel
  <2> QED BY <2>1
<1>3. \E z \in H : \A y \in H : z <= y
  BY <1>2
<1> QED BY <1>3 DEF Min

\* Steps that belong to no multi-wait keep them: they start no peek and no clear.
LEMMA MultisKept ==
  ASSUME EInv, UNCHANGED multi,
         \A u \in Tasks : call'[u].op = call[u].op \/ call'[u].op \notin {"peek", "clear"}
  PROVE  multi' \in [Tasks -> MultiRecords] /\ MultisFit'
BY DEF EInv, MultisFit, MultiFits

\* A step of one multi-wait leaves the others alone.
LEMMA MultiMoves ==
  ASSUME EInv, NEW t \in Tasks, NEW m \in MultiRecords, multi' = [multi EXCEPT ![t] = m],
         \A u \in Tasks \ {t} : call'[u] = call[u], MultiFits(t)'
  PROVE  multi' \in [Tasks -> MultiRecords] /\ MultisFit'
<1>1. multi \in [Tasks -> MultiRecords] /\ MultisFit
  BY DEF EInv
<1>2. multi' \in [Tasks -> MultiRecords] /\ \A u \in Tasks \ {t} : multi'[u] = multi[u]
  BY <1>1
<1>3. ASSUME NEW u \in Tasks PROVE MultiFits(u)'
  <2>1. CASE u = t
    BY <2>1
  <2>2. CASE u # t
    BY <1>1, <1>2, <2>2 DEF MultisFit, MultiFits
  <2> QED BY <2>1, <2>2
<1> QED BY <1>2, <1>3 DEF MultisFit

\* What the steps every object shares make of the operation of a call.
LEMMA SameOps ==
  ASSUME EInv,
         \/ Environment
         \/ \E t \in Tasks : \/ CallStep(t) \/ BodyDone(t) \/ (\E r \in Results : Decide(t, r))
                             \/ (\E available : WaitPark(t, available))
  PROVE  \A u \in Tasks : call'[u].op \in {call[u].op, "none"}
<1>0. call \in [Tasks -> CallRecords(EventOps, {})] /\ \A u \in Tasks : call[u] \in CallRecords(EventOps, {})
  BY DEF EInv, CallInv, CallTypeOK, CallRecords
<1>1. CASE UNCHANGED call
  BY <1>1
<1>2. ASSUME NEW t \in Tasks, NEW w \in {"Woken", "TimedOut", "Cancelled"}, call' = [call EXCEPT ![t].woke = w]
      PROVE  \A u \in Tasks : call'[u].op = call[u].op
  BY <1>0, <1>2 DEF CallRecords
<1>3. ASSUME NEW t \in Tasks, NEW r \in Results, call' = [call EXCEPT ![t].result = r]
      PROVE  \A u \in Tasks : call'[u].op = call[u].op
  BY <1>0, <1>3 DEF CallRecords
<1>4. ASSUME NEW t \in Tasks, call' = [call EXCEPT ![t].tick = "past"]
      PROVE  \A u \in Tasks : call'[u].op = call[u].op
  BY <1>0, <1>4 DEF CallRecords
<1>5. ASSUME NEW t \in Tasks, call' = [call EXCEPT ![t] = NoCall]
      PROVE  \A u \in Tasks : call'[u].op \in {call[u].op, "none"}
  BY <1>0, <1>5 DEF NoCall
<1>6. CASE Environment
  BY <1>1, <1>4, <1>6 DEF Environment, TaskExit, TaskCreate, Timer, DeadlinePasses, Kill, CloseHandle, callVars
<1>7. ASSUME NEW t \in Tasks, CallStep(t) PROVE \A u \in Tasks : call'[u].op \in {call[u].op, "none"}
  BY <1>1, <1>2, <1>5, <1>7 DEF CallStep, LockInner, WaitResume, ResumeResult, UnlockInner, ReturnFromCall
<1>8. ASSUME NEW t \in Tasks, BodyDone(t) \/ (\E r \in Results : Decide(t, r)) \/ (\E available : WaitPark(t, available))
      PROVE  \A u \in Tasks : call'[u].op \in {call[u].op, "none"}
  BY <1>1, <1>3, <1>8 DEF BodyDone, Decide, WaitPark
<1> QED BY <1>6, <1>7, <1>8

-----------------------------------------------------------------------------
(* The steps of the events *)

\* Entering a call; its multi-wait, if it belongs to one, is the caller's affair.
LEMMA EnterKeeps ==
  ASSUME EInv, NEW t \in Tasks, NEW o \in Objects, NEW op \in EventOps, NEW tick \in {"none", "zero", "deadline"},
         op = "wait" \/ tick = "none", EnterCall(t, o, op, 0, tick), UNCHANGED fields, multi' \in [Tasks -> MultiRecords], MultisFit'
  PROVE  EInv'
<1>0. CallInv(EventOps, {}, {}) /\ OutcomesFit /\ 0 \in {} \cup {0} /\ op # "readable" /\ pc[t] = "idle"
  BY DEF EInv, EventOps, EnterCall, At
<1>1. CallInv(EventOps, {}, {})' /\ Others(t)
  BY <1>0, EnterCallKeeps
<1>2. OutcomesFit'
  BY <1>0, <1>1, EnterOutcomes
<1>3. NobodyParks
  BY <1>0, <1>1, StepParksNobody
<1>4. \A p \in Objects : ~OnTheWay(t, p)
  BY <1>0 DEF OnTheWay
<1>5. SignalsHeeded'
  BY <1>1, <1>3, <1>4, HeedMoves DEF fields
<1> QED BY <1>1, <1>2, <1>5 DEF EInv, fields

\* A wait, a set or a reset of a task outside multi-waits.
LEMMA EventCallKeeps ==
  ASSUME EInv, NEW t \in Tasks, NEW o \in Objects, EventCall(t, o), UNCHANGED multi
  PROVE  EInv'
<1>1. PICK op \in {"wait", "set", "reset"}, tick \in {"none", "zero", "deadline"} :
        EnterCall(t, o, op, 0, tick) /\ (op = "wait" \/ tick = "none")
  BY CondvarObjectAssumption DEF EventCall, KEventWait, KEventSet, KEventReset
<1>2. \A u \in Tasks : call'[u].op = call[u].op \/ call'[u].op \notin {"peek", "clear"}
  <2>1. call \in [Tasks -> CallRecords(EventOps, {})]
    BY DEF EInv, CallInv, CallTypeOK, CallRecords
  <2> QED BY <1>1, <2>1 DEF EnterCall
<1>3. multi' \in [Tasks -> MultiRecords] /\ MultisFit'
  BY <1>2, MultisKept
<1>4. op \in EventOps /\ UNCHANGED fields
  BY DEF EventOps, EventCall
<1> QED BY <1>1, <1>3, <1>4, EnterKeeps

\* The steps of a call that every object shares.
LEMMA CallStepKeeps ==
  ASSUME EInv, NEW t \in Tasks, CallStep(t), UNCHANGED <<fields, multi>>
  PROVE  EInv'
<1>0. CallInv(EventOps, {}, {}) /\ OutcomesFit
  BY DEF EInv
<1>1. CallInv(EventOps, {}, {})' /\ Others(t)
  BY <1>0, LockInnerKeeps, WaitResumeKeeps, UnlockInnerKeeps, ReturnKeeps DEF CallStep
<1>2. OutcomesFit' /\ NobodyParks
  BY <1>0, <1>1, StepOutcomes, StepParksNobody
<1>3. SignalsHeeded'
  BY <1>1, <1>2, StepOnTheWay, HeedMoves DEF fields
<1>4. multi' \in [Tasks -> MultiRecords] /\ MultisFit'
  BY SameOps, MultisKept
<1> QED BY <1>1, <1>2, <1>3, <1>4 DEF EInv, fields

\* The environment.
LEMMA EnvironmentKeeps ==
  ASSUME EInv, Environment, UNCHANGED <<fields, multi>>
  PROVE  EInv'
<1>0. CallInv(EventOps, {}, {}) /\ OutcomesFit
  BY DEF EInv
<1>1. CallInv(EventOps, {}, {})' /\ OutcomesFit' /\ NobodyParks
  BY <1>0, SharedKeeps, EnvironmentOutcomes, EnvironmentParksNobody
<1>2. SignalsHeeded'
  BY <1>1, EnvironmentOnTheWay, HeedKept DEF fields
<1>3. multi' \in [Tasks -> MultiRecords] /\ MultisFit'
  BY SameOps, MultisKept
<1> QED BY <1>1, <1>2, <1>3 DEF EInv, fields

\* A body that sets nothing and wakes nobody.
LEMMA QuietBodyKeeps ==
  ASSUME EInv, NEW t \in Tasks, BodyDone(t), UNCHANGED <<schedVars, manual_reset>>, signaled' \in [Objects -> BOOLEAN],
         \A o \in Objects : signaled'[o] => signaled[o], multi' \in [Tasks -> MultiRecords], MultisFit'
  PROVE  EInv'
<1>0. CallInv(EventOps, {}, {}) /\ OutcomesFit
  BY DEF EInv
<1>1. CallInv(EventOps, {}, {})' /\ Others(t)
  BY <1>0, BodyDoneKeeps
<1>2. OutcomesFit' /\ NobodyParks
  BY <1>0, <1>1, StepOutcomes, StepParksNobody
<1>3. SignalsHeeded'
  BY <1>1, <1>2, StepOnTheWay, HeedMoves
<1> QED BY <1>1, <1>2, <1>3 DEF EInv

\* A reset.
LEMMA ResetKeeps ==
  ASSUME EInv, NEW t \in Tasks, ResetBody(t), UNCHANGED multi
  PROVE  EInv'
<1>1. /\ BodyDone(t) /\ UNCHANGED <<schedVars, manual_reset>> /\ signaled \in [Objects -> BOOLEAN]
      /\ signaled' = [signaled EXCEPT ![call[t].obj] = @ /\ ~manual_reset[call[t].obj]]
      /\ manual_reset \in [Objects -> BOOLEAN]
  BY DEF ResetBody, EInv
<1>2. call[t].obj \in Objects
  BY <1>1, CallFacts DEF EInv, BodyDone, At
<1>3. signaled' \in [Objects -> BOOLEAN] /\ \A o \in Objects : signaled'[o] => signaled[o]
  BY <1>1, <1>2
<1>4. multi' \in [Tasks -> MultiRecords] /\ MultisFit'
  BY <1>1, SameOps, MultisKept
<1> QED BY <1>1, <1>3, <1>4, QuietBodyKeeps

\* The waiter an auto-reset set wakes is on its way.
LEMMA WokenOnTheWay ==
  ASSUME EInv, NEW t \in Tasks, BodyDone(t), NEW o \in Objects, NEW u \in Tasks, ParkedAt(u, o), wait'[u] = Woken(wait[u])
  PROVE  OnTheWay(u, o)'
<1>0. /\ TaskFits(u) /\ wait[u] \in WaitRecords /\ call[u].obj \in Objects \cup {NULL} /\ pc \in [Tasks -> PCs \cup {}]
  BY CallFacts DEF EInv
<1>1. wait[u].waiting_on = Cv(o) /\ wait[u].waiting_on # NULL
  BY QueueNames DEF ParkedAt
<1>2. call[u].obj \in Objects
  BY <1>0, <1>1 DEF TaskFits, Blocked
<1>3. pc[u] = "parked" /\ call[u].obj = o /\ call[u].woke # "Cancelled" /\ IsWait(u)
  BY <1>0, <1>1, <1>2, QueueNames DEF TaskFits, Blocked
<1>4. u # t /\ pc'[u] = pc[u] /\ call'[u] = call[u]
  BY <1>0, <1>3 DEF BodyDone, At, Goto
<1>5. wait'[u].waiting_on = NULL /\ ~wait'[u].wake_by_cancel
  BY <1>0, WokenFields
<1> QED BY <1>3, <1>4, <1>5, QueueNames DEF OnTheWay, IsWait, ParkedAt

\* A set wakes all waiters of a manual-reset event, and one that will look of an auto-reset one.
LEMMA SetKeeps ==
  ASSUME EInv, NEW t \in Tasks, SetBody(t), UNCHANGED multi
  PROVE  EInv'
<1>0. /\ CallInv(EventOps, {}, {}) /\ OutcomesFit /\ BodyDone(t) /\ SchedInv /\ wait \in [Tasks -> WaitRecords]
      /\ signaled \in [Objects -> BOOLEAN] /\ manual_reset \in [Objects -> BOOLEAN] /\ pc[t] = "body"
  BY CallFacts DEF EInv, SetBody, BodyDone, At
<1>1. call[t].obj \in Objects
  BY <1>0, CallFacts
<1> SUFFICES ASSUME NEW o \in Objects, o = call[t].obj PROVE EInv'
  BY <1>1
<1>2. /\ signaled' = [signaled EXCEPT ![o] = TRUE] /\ UNCHANGED manual_reset
      /\ IF manual_reset[o] THEN CondvarBroadcast(o) ELSE CondvarSignal(o)
  BY DEF SetBody, WakeForSet
<1>3. CallInv(EventOps, {}, {})' /\ Others(t)
  BY <1>0, <1>2, BodyDoneKeeps
<1>4. OutcomesFit' /\ NobodyParks
  BY <1>0, <1>3, StepOutcomes, StepParksNobody
<1>5. multi' \in [Tasks -> MultiRecords] /\ MultisFit'
  BY <1>0, SameOps, MultisKept
<1>6. SignalsHeeded'
  <2> SUFFICES ASSUME NEW p \in Objects, signaled'[p], NEW u \in Tasks, ParkedAt(u, p)'
               PROVE  ~manual_reset'[p] /\ \E v \in Tasks : OnTheWay(v, p)'
    BY DEF SignalsHeeded
  <2>1. ParkedAt(u, p)
    BY <1>4 DEF NobodyParks
  <2>2. CASE p # o
    <3>1. signaled[p]
      BY <1>0, <1>2, <2>2
    <3>2. PICK v \in Tasks : ~manual_reset[p] /\ OnTheWay(v, p)
      BY <2>1, <3>1 DEF EInv, SignalsHeeded
    <3>3. v # t /\ Spared(v) /\ wait[v] \in WaitRecords
      BY <1>0, <1>3, <3>2 DEF OnTheWay, Others
    <3> QED BY <1>2, <3>2, <3>3, SparedOnTheWay
  <2>3. CASE p = o /\ manual_reset[o]
    <3>1. wait'[u] = Woken(wait[u]) /\ wait[u] \in WaitRecords
      BY <1>0, <1>2, <2>1, <2>3 DEF CondvarBroadcast, ParkedAt
    <3> QED BY <3>1, WokenFields, QueueNames DEF ParkedAt
  <2>4. CASE p = o /\ ~manual_reset[o]
    <3>1. queue[Cv(o)] # <<>>
      BY <1>0, <2>1, <2>4, EmptyQueue
    <3>2. PICK v \in Tasks : wait[v].waiting_on = Cv(o) /\ wait'[v] = Woken(wait[v])
      BY <1>0, <1>2, <2>4, <3>1, SignalKept
    <3>3. OnTheWay(v, o)'
      BY <1>0, <3>2, WokenOnTheWay DEF ParkedAt
    <3> QED BY <1>2, <2>4, <3>3
  <2> QED BY <2>2, <2>3, <2>4
<1>7. signaled' \in [Objects -> BOOLEAN] /\ manual_reset' \in [Objects -> BOOLEAN]
  BY <1>0, <1>2
<1> QED BY <1>3, <1>4, <1>5, <1>6, <1>7 DEF EInv

\* The test of a wait, in one lock hold with what it decides.
LEMMA WaitStepKeeps ==
  ASSUME EInv, NEW t \in Tasks, WaitStep(t), UNCHANGED multi
  PROVE  EInv'
<1>0. /\ CallInv(EventOps, {}, {}) /\ OutcomesFit
      /\ signaled \in [Objects -> BOOLEAN] /\ manual_reset \in [Objects -> BOOLEAN]
  BY DEF EInv
<1>1. pc[t] = "test"
  BY DEF WaitStep, WaitGranted, WaitCancelled, WaitTimedOut, WaitPark, At
<1>2. call[t].obj \in Objects /\ wait \in [Tasks -> WaitRecords]
  BY <1>0, <1>1, CallFacts
<1> SUFFICES ASSUME NEW o \in Objects, o = call[t].obj PROVE EInv'
  BY <1>2
<1>3. ASSUME NEW r \in {"granted", "timedout", "cancelled"}, Decide(t, r)
      PROVE  /\ CallInv(EventOps, {}, {})' /\ Others(t) /\ OutcomesFit' /\ NobodyParks
             /\ multi' \in [Tasks -> MultiRecords] /\ MultisFit'
  <2>1. r \in Results
    BY DEF Results
  <2>2. CallInv(EventOps, {}, {})' /\ Others(t)
    BY <1>0, <1>1, <1>3, <2>1, DecideKeeps
  <2>3. OutcomesFit'
    BY <1>0, <1>1, <1>3, <2>2, DecideOutcomes
  <2>4. NobodyParks
    BY <1>0, <1>3, <2>1, <2>2, StepParksNobody
  <2>5. multi' \in [Tasks -> MultiRecords] /\ MultisFit'
    BY <1>3, <2>1, SameOps, MultisKept
  <2> QED BY <2>2, <2>3, <2>4, <2>5
<1>4. CASE WaitGranted(t, signaled[o]) /\ signaled' = [signaled EXCEPT ![o] = AfterWait(o)] /\ UNCHANGED manual_reset
  <2>1. Decide(t, "granted") /\ signaled[o]
    BY <1>4 DEF WaitGranted
  <2>2. /\ signaled' \in [Objects -> BOOLEAN] /\ signaled'[o] = manual_reset[o]
        /\ \A p \in Objects : signaled'[p] => signaled[p]
    BY <1>0, <1>4, <2>1 DEF AfterWait
  <2>3. \A p \in Objects : OnTheWay(t, p) /\ signaled'[p] /\ ~manual_reset[p] => OnTheWay(t, p)'
    BY <2>2 DEF OnTheWay
  <2>4. SignalsHeeded'
    BY <1>3, <1>4, <2>1, <2>2, <2>3, HeedMoves
  <2> QED BY <1>0, <1>3, <1>4, <2>1, <2>2, <2>4 DEF EInv
<1>5. CASE (WaitCancelled(t, signaled[o]) \/ WaitTimedOut(t, signaled[o])) /\ UNCHANGED fields
  <2>1. \E r \in {"cancelled", "timedout"} : Decide(t, r)
    BY <1>5 DEF WaitCancelled, WaitTimedOut
  <2>2. ~signaled[o] \/ call[t].woke = "Cancelled"
    BY <1>5 DEF WaitCancelled, WaitTimedOut, Aborted
  <2>3. \A p \in Objects : OnTheWay(t, p) /\ signaled'[p] /\ ~manual_reset[p] => OnTheWay(t, p)'
    BY <1>5, <2>2 DEF OnTheWay, fields
  <2>4. SignalsHeeded'
    BY <1>3, <1>5, <2>1, <2>3, HeedMoves DEF fields
  <2> QED BY <1>0, <1>3, <1>5, <2>1, <2>4 DEF EInv, fields
<1>6. CASE WaitPark(t, signaled[o]) /\ UNCHANGED fields
  <2>1. CallInv(EventOps, {}, {})' /\ Others(t)
    BY <1>0, <1>6, WaitParkKeeps
  <2>2. OutcomesFit'
    BY <1>0, <1>6, <2>1, ParkOutcomes
  <2>3. multi' \in [Tasks -> MultiRecords] /\ MultisFit'
    BY <1>6, SameOps, MultisKept
  <2>4. \A u \in Tasks, p \in Objects : ParkedAt(u, p)' => ParkedAt(u, p) \/ p = o
    BY <1>0, <1>6, <2>1, WaitParks
  <2>5. ~signaled[o]
    BY <1>6 DEF WaitPark
  <2>6. SignalsHeeded'
    <3> SUFFICES ASSUME NEW p \in Objects, signaled'[p], NEW u \in Tasks, ParkedAt(u, p)'
                 PROVE  ~manual_reset'[p] /\ \E v \in Tasks : OnTheWay(v, p)'
      BY DEF SignalsHeeded
    <3>1. signaled[p] /\ p # o /\ ParkedAt(u, p)
      BY <1>6, <2>4, <2>5 DEF fields
    <3>2. PICK v \in Tasks : ~manual_reset[p] /\ OnTheWay(v, p)
      BY <3>1 DEF EInv, SignalsHeeded
    <3>3. v # t /\ Spared(v) /\ wait[v] \in WaitRecords
      BY <1>2, <2>1, <3>1, <3>2 DEF OnTheWay, Others
    <3> QED BY <1>6, <3>2, <3>3, SparedOnTheWay DEF fields
  <2> QED BY <1>0, <1>6, <2>1, <2>2, <2>3, <2>6 DEF EInv, fields
<1> QED BY <1>4, <1>5, <1>6 DEF WaitStep

-----------------------------------------------------------------------------
(* The steps of a multi-wait *)

\* The events do not move.
LEMMA StillKeeps ==
  ASSUME EInv, UNCHANGED eventVars, multi' \in [Tasks -> MultiRecords], MultisFit'
  PROVE  EInv'
<1>1. UNCHANGED <<wait, kill_ticket, queue, owner, owned_internal_mutex_count, refcount, handles, pc, call, signaled, manual_reset>>
  BY DEF eventVars, schedVars, callVars, fields
<1>2. SchedTypeOK' /\ SchedInv'
  BY <1>1, SchedStill DEF EInv, CallInv, SchedInv, schedVars
<1>3. CallTypeOK(EventOps, {}, {})' /\ TasksFit' /\ OutcomesFit'
  BY <1>1, <1>2 DEF EInv, CallInv, CallTypeOK, TasksFit, TaskFits, Blocked, Holds, IsWait, OutcomesFit, OutcomeFits
<1>4. ReferencesOK'
  BY <1>1 DEF EInv, CallInv, ReferencesOK, Count, CallOn, WaitOn
<1>5. SignalsHeeded'
  BY <1>1 DEF EInv, SignalsHeeded, OnTheWay, ParkedAt, IsWait
<1> QED BY <1>1, <1>2, <1>3, <1>4, <1>5 DEF EInv, CallInv

(* n has the fields of a multi-wait record of its own, and these values.   *)
Reads(n, handles_, todo_, hits_, phase_) ==
  n \in MultiRecords /\ n.handles = handles_ /\ n.todo = todo_ /\ n.hits = hits_ /\ n.phase = phase_

\* One handle less to do, or others to do.
LEMMA TodoUpdate ==
  ASSUME NEW m \in MultiRecords, NEW s \in Seq(Objects)
  PROVE  /\ Reads([m EXCEPT !.todo = s], m.handles, s, m.hits, m.phase)
         /\ Reads([m EXCEPT !.phase = "claim", !.todo = s], m.handles, s, m.hits, "claim")
BY DEF Reads, MultiRecords

\* Another set of hits.
LEMMA HitsUpdate ==
  ASSUME NEW m \in MultiRecords, NEW h \in SUBSET Nat
  PROVE  Reads([m EXCEPT !.hits = h], m.handles, m.todo, h, m.phase)
BY DEF Reads, MultiRecords

\* A pause, the clock, and another pass.
LEMMA PassUpdate ==
  ASSUME NEW m \in MultiRecords
  PROVE  /\ Reads([m EXCEPT !.phase = "pause"], m.handles, m.todo, m.hits, "pause")
         /\ Reads([m EXCEPT !.tick = "past"], m.handles, m.todo, m.hits, m.phase)
         /\ Reads([m EXCEPT !.phase = "poll", !.todo = m.handles, !.hits = {}], m.handles, m.handles, {}, "poll")
BY DEF Reads, MultiRecords

\* What there is to know of a task in or out of a multi-wait.
LEMMA MultiFacts ==
  ASSUME EInv, NEW t \in Tasks
  PROVE  /\ multi \in [Tasks -> MultiRecords] /\ multi[t] \in MultiRecords /\ MultiFits(t) /\ NoMulti \in MultiRecords
         /\ multi[t].handles \in Seq(Objects) /\ multi[t].todo \in Seq(Objects) /\ multi[t].hits \in SUBSET Nat
         /\ pc[t] = "idle" => call[t].op = "none"
<1>1. multi \in [Tasks -> MultiRecords] /\ MultiFits(t) /\ multi[t] \in MultiRecords
  BY DEF EInv, MultisFit
<1>2. NoMulti \in MultiRecords
  BY DEF NoMulti, MultiRecords
<1>3. pc[t] = "idle" => call[t].op = "none"
  BY CallFacts DEF EInv, TaskFits, NoCall
<1>4. multi[t].handles \in Seq(Objects) /\ multi[t].todo \in Seq(Objects) /\ multi[t].hits \in SUBSET Nat
  BY <1>1 DEF MultiRecords
<1> QED BY <1>1, <1>2, <1>3, <1>4

\* A step between calls that changes t's multi-wait to m.
LEMMA BetweenCalls ==
  ASSUME EInv, NEW t \in Tasks, pc[t] = "idle", NEW m \in MultiRecords, multi' = [multi EXCEPT ![t] = m], UNCHANGED eventVars,
         m.hits \subseteq 1..Len(m.handles), m.phase \in {"none", "pause"} => m.todo = <<>>,
         m.phase = "poll" => Len(m.todo) <= Len(m.handles), t \notin MultiTasks => m.phase = "none"
  PROVE  EInv'
<1>1. UNCHANGED call /\ multi'[t] = m /\ call[t].op = "none"
  BY MultiFacts DEF eventVars, callVars
<1>2. MultiFits(t)'
  BY <1>1 DEF MultiFits
<1>3. multi' \in [Tasks -> MultiRecords] /\ MultisFit'
  BY <1>1, <1>2, MultiMoves
<1> QED BY <1>3, StillKeeps

\* A call of SYS_WAIT_MULTI begins.
LEMMA BeginMultiKeeps ==
  ASSUME EInv, NEW t \in Tasks, BeginMulti(t)
  PROVE  EInv'
<1>1. PICK s \in MultiSets, all \in BOOLEAN, tick \in MultiTimeouts :
        multi' = [multi EXCEPT ![t] = [handles |-> s, all |-> all, tick |-> tick, todo |-> s, hits |-> {}, phase |-> "poll"]]
  BY DEF BeginMulti
<1> DEFINE m == [handles |-> s, all |-> all, tick |-> tick, todo |-> s, hits |-> {}, phase |-> "poll"]
<1>2. s \in Seq(Objects) /\ tick \in {"none", "deadline"}
  BY WaitMultiAssumption
<1>3. m \in MultiRecords /\ m.handles = s /\ m.todo = s /\ m.hits = {} /\ m.phase = "poll" /\ Len(s) \in Nat
  BY <1>2 DEF MultiRecords
<1>4. multi' = [multi EXCEPT ![t] = m] /\ pc[t] = "idle" /\ UNCHANGED eventVars /\ t \in MultiTasks
  BY <1>1 DEF BeginMulti, At
<1> HIDE DEF m
<1>5. m.hits \subseteq 1..Len(m.handles) /\ Len(m.todo) <= Len(m.handles) /\ m.phase = "poll"
  BY <1>3
<1> QED BY <1>3, <1>4, <1>5, BetweenCalls

\* The next handle is skipped, peeked at or claimed.
LEMMA NextHandleKeeps ==
  ASSUME EInv, NEW t \in Tasks, NextHandle(t)
  PROVE  EInv'
<1> DEFINE s == multi[t].todo
           m == [multi[t] EXCEPT !.todo = Tail(s)]
<1>0. /\ multi \in [Tasks -> MultiRecords] /\ multi[t] \in MultiRecords /\ MultiFits(t)
      /\ s \in Seq(Objects) /\ multi[t].handles \in Seq(Objects) /\ s # <<>> /\ pc[t] = "idle"
  BY MultiFacts DEF NextHandle, At
<1>1. Head(s) \in Objects /\ Tail(s) \in Seq(Objects) /\ Len(Tail(s)) = Len(s) - 1 /\ Len(s) \in Nat /\ Len(multi[t].handles) \in Nat
  BY <1>0
<1>2. multi' = [multi EXCEPT ![t] = m]
  BY DEF NextHandle
<1>3. m \in MultiRecords /\ m.todo = Tail(s) /\ m.handles = multi[t].handles /\ m.hits = multi[t].hits /\ m.phase = multi[t].phase
  BY <1>0, <1>1, TodoUpdate DEF Reads
<1>4. /\ m.hits \subseteq 1..Len(m.handles) /\ m.phase \in {"poll", "claim"} /\ (t \notin MultiTasks => m.phase = "none")
      /\ m.phase = "poll" => Len(m.todo) < Len(m.handles)
  <2>1. multi[t].phase \in {"none", "poll", "claim", "pause"}
    BY <1>0 DEF MultiRecords
  <2> HIDE DEF m, s
  <2>2. multi[t].phase \in {"poll", "claim"}
    BY <1>0, <2>1 DEF MultiFits, s
  <2>3. multi[t].phase = "poll" => Len(s) <= Len(multi[t].handles)
    BY <1>0 DEF MultiFits, s
  <2>4. multi[t].hits \subseteq 1..Len(multi[t].handles) /\ (t \notin MultiTasks => multi[t].phase = "none")
    BY <1>0 DEF MultiFits
  <2>5. multi[t].phase = "poll" => Len(Tail(s)) < Len(multi[t].handles)
    BY <1>1, <2>3
  <2> QED BY <1>3, <2>2, <2>4, <2>5
<1> HIDE DEF m
<1>5. CASE UNCHANGED eventVars
  <2>1. m.phase = "poll" => Len(m.todo) <= Len(m.handles)
    BY <1>1, <1>3, <1>4
  <2> QED BY <1>0, <1>2, <1>3, <1>4, <1>5, <2>1, BetweenCalls
<1>6. CASE EnterCall(t, Head(s), IF multi[t].phase = "poll" THEN "peek" ELSE "clear", 0, "none") /\ UNCHANGED fields
  <2> DEFINE op == IF multi[t].phase = "poll" THEN "peek" ELSE "clear"
  <2>1. op \in EventOps /\ (op = "peek" => m.phase = "poll") /\ (op = "clear" => m.phase = "claim")
    BY <1>3, <1>4 DEF EventOps
  <2>2. op \in {"peek", "clear"} /\ EnterCall(t, Head(s), op, 0, "none")
    BY <1>6
  <2> HIDE DEF op
  <2>3. call \in [Tasks -> CallRecords(EventOps, {})]
    BY CallFacts DEF EInv
  <2>4. call'[t].op = op /\ \A u \in Tasks \ {t} : call'[u] = call[u]
    BY <2>2, <2>3 DEF EnterCall
  <2>5. multi'[t] = m
    BY <1>0, <1>2
  <2>6. MultiFits(t)'
    <3>1. m.phase = "poll" => Len(m.todo) <= Len(m.handles)
      BY <1>1, <1>3, <1>4
    <3> QED BY <1>3, <1>4, <2>1, <2>2, <2>4, <2>5, <3>1 DEF MultiFits
  <2>7. multi' \in [Tasks -> MultiRecords] /\ MultisFit'
    BY <1>2, <1>3, <2>4, <2>6, MultiMoves
  <2> QED BY <1>1, <1>6, <2>1, <2>2, <2>7, EnterKeeps
<1> QED BY <1>5, <1>6 DEF NextHandle

\* A poll remembers the position of a signaled event.
LEMMA PeekKeeps ==
  ASSUME EInv, NEW t \in Tasks, PeekBody(t)
  PROVE  EInv'
<1> DEFINE n == Len(multi[t].handles) - Len(multi[t].todo)
           h == IF signaled[call[t].obj] THEN multi[t].hits \cup {n} ELSE multi[t].hits
           m == [multi[t] EXCEPT !.hits = h]
<1>0. /\ multi \in [Tasks -> MultiRecords] /\ multi[t] \in MultiRecords /\ MultiFits(t) /\ multi[t].hits \in SUBSET Nat
      /\ Len(multi[t].todo) \in Nat /\ Len(multi[t].handles) \in Nat /\ BodyDone(t) /\ call[t].op = "peek"
  BY MultiFacts DEF PeekBody
<1>1. multi' = [multi EXCEPT ![t] = m]
  BY DEF PeekBody
<1>2. n \in 1..Len(multi[t].handles) /\ multi[t].hits \subseteq 1..Len(multi[t].handles)
  <2> DEFINE a == Len(multi[t].handles)
             b == Len(multi[t].todo)
  <2>1. a \in Nat /\ b \in Nat /\ b < a /\ multi[t].hits \subseteq 1..a
    BY <1>0 DEF MultiFits
  <2> HIDE DEF a, b
  <2>2. a - b \in 1..a
    BY <2>1
  <2> QED BY <2>1, <2>2 DEF a, b
<1> HIDE DEF n
<1>3. h \in SUBSET Nat /\ h \subseteq 1..Len(multi[t].handles)
  BY <1>0, <1>2
<1> HIDE DEF h
<1>4. m \in MultiRecords /\ m.todo = multi[t].todo /\ m.handles = multi[t].handles /\ m.hits = h /\ m.phase = multi[t].phase
  BY <1>0, <1>3, HitsUpdate DEF Reads
<1> HIDE DEF m
<1>5. UNCHANGED call /\ multi'[t] = m
  BY <1>0, <1>1 DEF BodyDone
<1>6. MultiFits(t)'
  BY <1>0, <1>3, <1>4, <1>5 DEF MultiFits
<1>7. multi' \in [Tasks -> MultiRecords] /\ MultisFit'
  BY <1>1, <1>4, <1>5, <1>6, MultiMoves
<1>8. UNCHANGED <<schedVars, manual_reset>> /\ signaled' \in [Objects -> BOOLEAN] /\ \A o \in Objects : signaled'[o] => signaled[o]
  BY DEF PeekBody, fields, EInv
<1> QED BY <1>0, <1>7, <1>8, QuietBodyKeeps

\* A claim clears an auto-reset event.
LEMMA ClearKeeps ==
  ASSUME EInv, NEW t \in Tasks, ClearBody(t)
  PROVE  EInv'
<1>1. /\ BodyDone(t) /\ UNCHANGED <<schedVars, manual_reset, multi>> /\ signaled \in [Objects -> BOOLEAN]
      /\ signaled' = [signaled EXCEPT ![call[t].obj] = @ /\ manual_reset[call[t].obj]]
      /\ manual_reset \in [Objects -> BOOLEAN]
  BY DEF ClearBody, EInv
<1>2. call[t].obj \in Objects
  BY <1>1, CallFacts DEF EInv, BodyDone, At
<1>3. signaled' \in [Objects -> BOOLEAN] /\ \A o \in Objects : signaled'[o] => signaled[o]
  BY <1>1, <1>2
<1>4. multi' \in [Tasks -> MultiRecords] /\ MultisFit'
  BY <1>1, SameOps, MultisKept
<1> QED BY <1>1, <1>3, <1>4, QuietBodyKeeps

\* The winners of a satisfied multi-wait are handles of its array.
LEMMA WinnersFit ==
  ASSUME EInv, NEW t \in Tasks, Satisfied(t)
  PROVE  Winners(t) \in Seq(Objects)
<1>0. multi[t].handles \in Seq(Objects) /\ multi[t].hits \in SUBSET Nat /\ multi[t].hits \subseteq 1..Len(multi[t].handles)
  BY MultiFacts DEF MultiFits
<1>1. CASE multi[t].all
  BY <1>0, <1>1 DEF Winners
<1>2. CASE ~multi[t].all
  <2>1. Min(multi[t].hits) \in multi[t].hits
    BY <1>0, <1>2, FirstHit DEF Satisfied
  <2>2. multi[t].handles[Min(multi[t].hits)] \in Objects
    BY <1>0, <2>1
  <2> QED BY <1>2, <2>2 DEF Winners
<1> QED BY <1>1, <1>2

\* The end of a pass, of a pause and of the call, and the clock.
LEMMA PassKeeps ==
  ASSUME EInv, NEW t \in Tasks, EndPass(t) \/ EndPause(t) \/ EndMulti(t)
  PROVE  EInv'
<1>0. /\ multi \in [Tasks -> MultiRecords] /\ multi[t] \in MultiRecords /\ MultiFits(t) /\ NoMulti \in MultiRecords
      /\ Len(multi[t].handles) \in Nat /\ pc[t] = "idle" /\ UNCHANGED eventVars
      /\ NoMulti.hits = {} /\ NoMulti.phase = "none" /\ NoMulti.todo = <<>>
  BY MultiFacts DEF EndPass, EndPause, EndMulti, At, NoMulti
<1>1. CASE multi' = [multi EXCEPT ![t] = NoMulti]
  BY <1>0, <1>1, BetweenCalls
<1>2. CASE multi[t].phase = "poll" /\ Satisfied(t) /\ multi' = [multi EXCEPT ![t].phase = "claim", ![t].todo = Winners(t)]
  <2> DEFINE m == [multi[t] EXCEPT !.phase = "claim", !.todo = Winners(t)]
  <2>1. multi' = [multi EXCEPT ![t] = m]
    BY <1>2
  <2>2. m \in MultiRecords /\ m.handles = multi[t].handles /\ m.hits = multi[t].hits /\ m.phase = "claim"
    <3>1. Winners(t) \in Seq(Objects)
      BY <1>2, WinnersFit
    <3>2. Reads(m, multi[t].handles, Winners(t), multi[t].hits, "claim")
      BY <1>0, <3>1, TodoUpdate
    <3> QED BY <3>2 DEF Reads
  <2> HIDE DEF m
  <2>3. m.hits \subseteq 1..Len(m.handles) /\ t \in MultiTasks
    BY <1>0, <1>2, <2>2 DEF MultiFits
  <2> QED BY <1>0, <2>1, <2>2, <2>3, BetweenCalls
<1>3. CASE multi[t].phase = "poll" /\ multi[t].todo = <<>> /\ multi' = [multi EXCEPT ![t].phase = "pause"]
  <2> DEFINE m == [multi[t] EXCEPT !.phase = "pause"]
  <2>1. multi' = [multi EXCEPT ![t] = m]
    BY <1>3
  <2>2. m \in MultiRecords /\ m.todo = <<>> /\ m.handles = multi[t].handles /\ m.hits = multi[t].hits /\ m.phase = "pause"
    BY <1>0, <1>3, PassUpdate DEF Reads
  <2> HIDE DEF m
  <2>3. m.hits \subseteq 1..Len(m.handles) /\ t \in MultiTasks
    BY <1>0, <1>3, <2>2 DEF MultiFits
  <2> QED BY <1>0, <2>1, <2>2, <2>3, BetweenCalls
<1>4. CASE multi[t].phase = "pause" /\ multi' = [multi EXCEPT ![t].phase = "poll", ![t].todo = multi[t].handles, ![t].hits = {}]
  <2> DEFINE m == [multi[t] EXCEPT !.phase = "poll", !.todo = multi[t].handles, !.hits = {}]
  <2>1. multi' = [multi EXCEPT ![t] = m]
    BY <1>4
  <2>2. m \in MultiRecords /\ m.todo = multi[t].handles /\ m.handles = multi[t].handles /\ m.hits = {} /\ m.phase = "poll"
    BY <1>0, PassUpdate DEF Reads
  <2> HIDE DEF m
  <2>3. t \in MultiTasks
    BY <1>0, <1>4 DEF MultiFits
  <2>4. m.hits \subseteq 1..Len(m.handles) /\ Len(m.todo) <= Len(m.handles)
    BY <1>0, <2>2
  <2> QED BY <1>0, <2>1, <2>2, <2>3, <2>4, BetweenCalls
<1> QED BY <1>1, <1>2, <1>3, <1>4 DEF EndPass, EndPause, EndMulti

\* The deadline of a multi-wait goes by.
LEMMA MultiDeadlineKeeps ==
  ASSUME EInv, NEW t \in Tasks, MultiDeadline(t)
  PROVE  EInv'
<1> DEFINE m == [multi[t] EXCEPT !.tick = "past"]
<1>0. multi \in [Tasks -> MultiRecords] /\ multi[t] \in MultiRecords /\ MultiFits(t) /\ UNCHANGED eventVars
  BY MultiFacts DEF MultiDeadline
<1>1. multi' = [multi EXCEPT ![t] = m]
  BY DEF MultiDeadline
<1>2. m \in MultiRecords /\ m.todo = multi[t].todo /\ m.handles = multi[t].handles /\ m.hits = multi[t].hits /\ m.phase = multi[t].phase
  BY <1>0, PassUpdate DEF Reads
<1> HIDE DEF m
<1>3. multi'[t] = m /\ UNCHANGED call
  BY <1>0, <1>1 DEF eventVars, callVars
<1>4. MultiFits(t)'
  BY <1>0, <1>2, <1>3 DEF MultiFits
<1>5. multi' \in [Tasks -> MultiRecords] /\ MultisFit'
  BY <1>1, <1>2, <1>3, <1>4, MultiMoves
<1> QED BY <1>0, <1>5, StillKeeps

-----------------------------------------------------------------------------
(* The invariant *)

\* Created events have nobody parked on them.
LEMMA EInvInit == Init => EInv
<1> SUFFICES ASSUME Init PROVE EInv
  OBVIOUS
<1>1. /\ CallInit /\ signaled \in [Objects -> BOOLEAN] /\ manual_reset \in [Objects -> BOOLEAN]
      /\ multi = [t \in Tasks |-> NoMulti]
  BY DEF Init, EventInit
<1>2. CallInv(EventOps, {}, {}) /\ OutcomesFit
  BY <1>1, CallInvInit, OutcomesInit
<1>3. SignalsHeeded
  <2>1. \A o \in Objects : queue[Cv(o)] = <<>>
    BY <1>1, QueueNames DEF CallInit, SchedInit
  <2> QED BY <1>2, <2>1, EmptyQueue DEF CallInv, SignalsHeeded
<1>4. multi \in [Tasks -> MultiRecords] /\ MultisFit
  <2>1. NoMulti \in MultiRecords /\ NoMulti.hits = {} /\ NoMulti.todo = <<>> /\ NoMulti.phase = "none"
    BY DEF NoMulti, MultiRecords
  <2>2. ASSUME NEW t \in Tasks PROVE multi[t] = NoMulti /\ call[t].op = "none"
    BY <1>1 DEF CallInit, NoCall
  <2>3. ASSUME NEW t \in Tasks PROVE MultiFits(t)
    BY <2>1, <2>2 DEF MultiFits
  <2> QED BY <1>1, <2>1, <2>3 DEF MultisFit
<1> QED BY <1>1, <1>2, <1>3, <1>4 DEF EInv

\* Every step keeps the invariant.
LEMMA EInvNext == EInv /\ [Next]_vars => EInv'
<1> SUFFICES ASSUME EInv, [Next]_vars PROVE EInv'
  OBVIOUS
<1>1. CASE \E t \in Tasks, o \in Objects : ~InMulti(t) /\ EventCall(t, o) /\ UNCHANGED multi
  BY <1>1, EventCallKeeps
<1>2. ASSUME NEW t \in Tasks, EventStep(t), UNCHANGED multi PROVE EInv'
  BY <1>2, CallStepKeeps, WaitStepKeeps, SetKeeps, ResetKeeps DEF EventStep
<1>3. ASSUME NEW t \in Tasks, MultiStep(t) PROVE EInv'
  BY <1>3, NextHandleKeeps, PeekKeeps, ClearKeeps, PassKeeps DEF MultiStep
<1>4. ASSUME NEW t \in Tasks, BeginMulti(t) \/ MultiDeadline(t) PROVE EInv'
  BY <1>4, BeginMultiKeeps, MultiDeadlineKeeps
<1>5. ASSUME NEW t \in Tasks, EventTimer(t) \/ ((Outside(t) \/ Kill(t)) /\ UNCHANGED fields), UNCHANGED multi PROVE EInv'
  <2>1. Environment /\ UNCHANGED fields
    BY <1>5 DEF EventTimer, Outside, Environment
  <2> QED BY <1>5, <2>1, EnvironmentKeeps
<1>6. ASSUME NEW o \in Objects, CloseHandle(o), UNCHANGED <<fields, multi>> PROVE EInv'
  BY <1>6, EnvironmentKeeps DEF Environment
<1>7. CASE UNCHANGED vars
  <2>1. UNCHANGED eventVars /\ UNCHANGED multi /\ UNCHANGED call
    BY <1>7 DEF vars, eventVars, callVars
  <2>2. multi' \in [Tasks -> MultiRecords] /\ MultisFit'
    BY <2>1, MultisKept
  <2> QED BY <2>1, <2>2, StillKeeps
<1> QED BY <1>1, <1>2, <1>3, <1>4, <1>5, <1>6, <1>7 DEF Next, Step, Clock

(* The inductive invariant: what every condition-variable object keeps, a  *)
(* signal beside a parked waiter only while another waiter is on its way   *)
(* to take it, and each multi-wait within its handle array.                *)
THEOREM EventInductive == Spec => []EInv
BY EInvInit, EInvNext, PTL DEF Spec

(* No Set is lost: not to a waiter that timed out, was killed or was       *)
(* overtaken, and not to the polls and claims of any multi-wait.           *)
THEOREM EventLosesNoWakeup == Spec => []NoLostWakeup
<1>1. EInv => NoLostWakeup
  <2> SUFFICES ASSUME EInv, NEW o \in Objects, signaled[o], queue[Cv(o)] # <<>>
               PROVE  ~manual_reset[o] /\ \E t \in OnItsWay(o) : call[t].woke # "Cancelled" /\ ~wait[t].wake_by_cancel
    BY DEF NoLostWakeup
  <2>1. PICK u \in Tasks : ParkedAt(u, o)
    BY EmptyQueue DEF EInv, CallInv
  <2>2. PICK t \in Tasks : ~manual_reset[o] /\ OnTheWay(t, o)
    BY <2>1 DEF EInv, SignalsHeeded
  <2>3. t \in OnItsWay(o) /\ call[t].woke # "Cancelled" /\ ~wait[t].wake_by_cancel
    BY <2>2 DEF OnTheWay, OnItsWay, Callers, ParkedAt
  <2> QED BY <2>2, <2>3
<1> QED BY <1>1, EventInductive, PTL

(* The inner mutex of an event is used as the scheduler's assertions       *)
(* demand, by waits, sets, resets, polls and claims alike.                 *)
THEOREM EventMutexDiscipline == Spec => []MutexDiscipline
<1>1. EInv => MutexDiscipline
  BY CallInvDiscipline DEF EInv
<1> QED BY <1>1, EventInductive, PTL

(* Every reference to an event is accounted for, however waits end and     *)
(* whoever closes the handle meanwhile.                                    *)
THEOREM EventReferences == Spec => []ReferencesExact
<1>1. EInv => ReferencesExact
  BY CallInvReferences DEF EInv
<1> QED BY <1>1, EventInductive, PTL

-----------------------------------------------------------------------------
(* The promise *)

Promised == \A o \in Objects : Promise(o)!Next \/ UNCHANGED Promise(o)!vars

Level(o) == IF signaled[o] THEN 1 ELSE 0
SameFields(o) == signaled'[o] = signaled[o] /\ manual_reset'[o] = manual_reset[o]

\* What is not seen of an object is a stutter of its promise.
LEMMA HiddenStutters ==
  ASSUME NEW o \in Objects, Hidden(o), UNCHANGED kill_ticket, SameFields(o)
  PROVE  UNCHANGED Promise(o)!vars
BY DEF Hidden, Outcomes, Timed, SameFields, Promise!vars

\* A step seen of one object only answers for that one.
LEMMA OneObjectMoves ==
  ASSUME NEW o \in Objects, OnlyAt(o), UNCHANGED kill_ticket, \A p \in Objects \ {o} : SameFields(p),
         Promise(o)!Next \/ UNCHANGED Promise(o)!vars
  PROVE  Promised
BY HiddenStutters DEF OnlyAt, Promised

\* A step of which nothing is seen.
LEMMA NoObjectMoves ==
  ASSUME \A o \in Objects : Hidden(o), UNCHANGED <<kill_ticket, fields>>
  PROVE  Promised
<1>1. \A o \in Objects : SameFields(o)
  BY DEF SameFields, fields
<1> QED BY <1>1, HiddenStutters DEF Promised

\* Entering a wait begins it; nothing is seen of entering another call.
LEMMA EnterPromised ==
  ASSUME EInv, NEW t \in Tasks, NEW o \in Objects, NEW op, NEW tick, op = "wait" \/ tick = "none",
         EnterCall(t, o, op, 0, tick), UNCHANGED fields
  PROVE  Promised
<1>0. \A p \in Objects : SameFields(p)
  BY DEF SameFields, fields
<1>1. /\ IF op = "wait" THEN Begins(t, o, tick # "none") ELSE Hidden(o)
      /\ OnlyAt(o) /\ UNCHANGED kill_ticket
  BY EnterSeen DEF EInv
<1>2. CASE op = "wait"
  <2>1. Promise(o)!Begin(t, tick # "none")
    BY <1>0, <1>1, <1>2 DEF Begins, Outcomes, Timed, SameFields, Promise!Begin
  <2>2. Promise(o)!Next
    BY <1>0, <2>1 DEF SameFields, Promise!Next
  <2> QED BY <1>0, <1>1, <2>2, OneObjectMoves
<1>3. CASE op # "wait"
  BY <1>1, <1>3, NoObjectMoves DEF OnlyAt
<1> QED BY <1>2, <1>3

\* The steps of a call that every object shares.
LEMMA CallStepPromised ==
  ASSUME EInv, NEW t \in Tasks, CallStep(t), UNCHANGED fields
  PROVE  Promised
<1>0. CallInv(EventOps, {}, {}) /\ OutcomesFit /\ \A p \in Objects : SameFields(p)
  BY DEF EInv, SameFields, fields
<1>1. CASE LockInner(t) \/ UnlockInner(t) \/ WaitResume(t)
  <2>1. \A o \in Objects : Hidden(o)
    BY <1>0, <1>1, StepSeen
  <2>2. UNCHANGED kill_ticket
    BY <1>1 DEF LockInner, MutexPark, UnlockInner, UnlockTo, MutexUnlock, MutexRelinquish, WaitResume, ClassifyCancellableWaitResume
  <2> QED BY <2>1, <2>2, NoObjectMoves
<1>2. CASE ReturnFromCall(t)
  <2>1. /\ call[t].obj \in Objects /\ OnlyAt(call[t].obj) /\ UNCHANGED kill_ticket
        /\ Hidden(call[t].obj) \/ Ends(t, call[t].obj)
    BY <1>0, <1>2, ReturnSeen
  <2> SUFFICES ASSUME NEW o \in Objects, o = call[t].obj PROVE Promised
    BY <2>1
  <2>2. CASE Hidden(o)
    BY <2>1, <2>2, NoObjectMoves DEF OnlyAt
  <2>3. CASE Ends(t, o)
    <3>1. Promise(o)!End(t)
      BY <1>0, <2>1, <2>3 DEF Ends, Outcomes, Timed, SameFields, Promise!End
    <3>2. Promise(o)!Next
      BY <1>0, <3>1 DEF SameFields, Promise!Next
    <3> QED BY <1>0, <2>1, <3>2, OneObjectMoves
  <2> QED BY <2>1, <2>2, <2>3
<1> QED BY <1>1, <1>2 DEF CallStep

\* A wait is granted by a signal, times out without one, or is cancelled by a kill.
LEMMA WaitStepPromised ==
  ASSUME EInv, NEW t \in Tasks, WaitStep(t)
  PROVE  Promised
<1>0. /\ CallInv(EventOps, {}, {}) /\ OutcomesFit
      /\ signaled \in [Objects -> BOOLEAN] /\ manual_reset \in [Objects -> BOOLEAN]
  BY DEF EInv
<1>1. pc[t] = "test"
  BY DEF WaitStep, WaitGranted, WaitCancelled, WaitTimedOut, WaitPark, At
<1>2. call[t].obj \in Objects /\ TaskFits(t)
  BY <1>0, <1>1, CallFacts
<1> SUFFICES ASSUME NEW o \in Objects, o = call[t].obj PROVE Promised
  BY <1>2
<1>3. ASSUME NEW r, Decide(t, r)
      PROVE  OnlyAt(o) /\ UNCHANGED kill_ticket /\ Concludes(t, o, r) /\ Timed(o)[t] = (call[t].tick # "none")
  BY <1>0, <1>1, <1>3, DecideSeen
<1>4. CASE WaitGranted(t, signaled[o]) /\ signaled' = [signaled EXCEPT ![o] = AfterWait(o)] /\ UNCHANGED manual_reset
  <2>1. /\ Decide(t, "granted") /\ signaled[o] /\ signaled'[o] = manual_reset[o] /\ manual_reset'[o] = manual_reset[o]
        /\ \A p \in Objects \ {o} : SameFields(p)
    BY <1>0, <1>4 DEF WaitGranted, AfterWait, SameFields
  <2>2. OnlyAt(o) /\ UNCHANGED kill_ticket /\ Concludes(t, o, "granted")
    BY <1>3, <2>1
  <2>3. Promise(o)!Grant(t)
    <3>1. Level(o) = 1 /\ Level(o)' = IF ~manual_reset[o] THEN Level(o) - 1 ELSE Level(o)
      BY <1>0, <2>1 DEF Level
    <3> QED BY <2>1, <2>2, <3>1 DEF Level, Concludes, Outcomes, Timed, Promise!Grant, Promise!Conclude
  <2>4. Promise(o)!Next
    BY <2>1, <2>3 DEF Promise!Next
  <2> QED BY <2>1, <2>2, <2>4, OneObjectMoves
<1>5. CASE WaitCancelled(t, signaled[o]) /\ UNCHANGED fields
  <2>1. Decide(t, "cancelled") /\ kill_ticket[t] /\ \A p \in Objects : SameFields(p)
    BY <1>2, <1>5 DEF WaitCancelled, Aborted, KillPending, TaskFits, SameFields, fields
  <2>2. OnlyAt(o) /\ UNCHANGED kill_ticket /\ Concludes(t, o, "cancelled")
    BY <1>3, <2>1
  <2>3. Promise(o)!Cancel(t)
    BY <2>1, <2>2 DEF Concludes, Outcomes, Timed, SameFields, Promise!Cancel, Promise!Conclude
  <2>4. Promise(o)!Next
    BY <2>1, <2>3 DEF SameFields, Promise!Next
  <2> QED BY <2>1, <2>2, <2>4, OneObjectMoves
<1>6. CASE WaitTimedOut(t, signaled[o]) /\ UNCHANGED fields
  <2>1. Decide(t, "timedout") /\ ~signaled[o] /\ call[t].tick # "none" /\ \A p \in Objects : SameFields(p)
    BY <1>6 DEF WaitTimedOut, OutOfTime, SameFields, fields
  <2>2. OnlyAt(o) /\ UNCHANGED kill_ticket /\ Concludes(t, o, "timedout") /\ Timed(o)[t]
    BY <1>3, <2>1
  <2>3. Promise(o)!TimeOut(t)
    BY <2>1, <2>2 DEF Concludes, Outcomes, Timed, SameFields, Promise!TimeOut, Promise!Conclude
  <2>4. Promise(o)!Next
    BY <2>1, <2>3 DEF SameFields, Promise!Next
  <2> QED BY <2>1, <2>2, <2>4, OneObjectMoves
<1>7. CASE WaitPark(t, signaled[o]) /\ UNCHANGED fields
  <2>1. \A p \in Objects : Hidden(p)
    BY <1>0, <1>7, StepSeen
  <2> QED BY <1>7, <2>1, NoObjectMoves DEF WaitPark, CondvarPark
<1> QED BY <1>4, <1>5, <1>6, <1>7 DEF WaitStep

\* A set raises the level, unless it is up already.
LEMMA SetPromised ==
  ASSUME EInv, NEW t \in Tasks, SetBody(t)
  PROVE  Promised
<1>0. /\ CallInv(EventOps, {}, {}) /\ BodyDone(t) /\ pc[t] = "body"
      /\ signaled \in [Objects -> BOOLEAN] /\ manual_reset \in [Objects -> BOOLEAN]
  BY DEF EInv, SetBody, BodyDone, At
<1>1. call[t].obj \in Objects
  BY <1>0, CallFacts
<1> SUFFICES ASSUME NEW o \in Objects, o = call[t].obj PROVE Promised
  BY <1>1
<1>2. signaled' = [signaled EXCEPT ![o] = TRUE] /\ UNCHANGED <<manual_reset, kill_ticket>>
  BY DEF SetBody, WakeForSet, CondvarBroadcast, CondvarSignal
<1>3. (\A p \in Objects : Hidden(p)) /\ signaled'[o] = TRUE /\ manual_reset'[o] = manual_reset[o] /\ \A p \in Objects \ {o} : SameFields(p)
  BY <1>0, <1>2, StepSeen DEF SameFields
<1>4. CASE signaled[o] = TRUE
  <2>1. UNCHANGED Promise(o)!vars
    BY <1>2, <1>3, <1>4, HiddenStutters DEF SameFields
  <2> QED BY <1>2, <1>3, <2>1, OneObjectMoves DEF OnlyAt
<1>5. CASE signaled[o] = FALSE
  <2>1. Promise(o)!Raise
    BY <1>2, <1>3, <1>5 DEF Hidden, Outcomes, Timed, Promise!Raise
  <2>2. Promise(o)!Next
    BY <1>3, <2>1 DEF Promise!Next
  <2> QED BY <1>2, <1>3, <2>2, OneObjectMoves DEF OnlyAt
<1> QED BY <1>0, <1>4, <1>5

\* A reset clears a manual-reset event; nothing is seen of a reset of an auto-reset one.
LEMMA ResetPromised ==
  ASSUME EInv, NEW t \in Tasks, ResetBody(t)
  PROVE  Promised
<1>0. /\ CallInv(EventOps, {}, {}) /\ BodyDone(t) /\ pc[t] = "body"
      /\ signaled \in [Objects -> BOOLEAN] /\ manual_reset \in [Objects -> BOOLEAN]
  BY DEF EInv, ResetBody, BodyDone, At
<1>1. call[t].obj \in Objects
  BY <1>0, CallFacts
<1> SUFFICES ASSUME NEW o \in Objects, o = call[t].obj PROVE Promised
  BY <1>1
<1>2. signaled' = [signaled EXCEPT ![o] = @ /\ ~manual_reset[o]] /\ UNCHANGED <<manual_reset, kill_ticket>>
  BY DEF ResetBody, schedVars
<1>3. /\ \A p \in Objects : Hidden(p)
      /\ signaled'[o] = (signaled[o] /\ ~manual_reset[o]) /\ manual_reset'[o] = manual_reset[o]
      /\ \A p \in Objects \ {o} : SameFields(p)
  BY <1>0, <1>2, StepSeen DEF SameFields
<1>4. CASE manual_reset[o] = TRUE
  <2>1. Promise(o)!Clear
    BY <1>2, <1>3, <1>4 DEF Hidden, Outcomes, Timed, Promise!Clear
  <2>2. Promise(o)!Next
    BY <1>3, <2>1 DEF Promise!Next
  <2> QED BY <1>2, <1>3, <2>2, OneObjectMoves DEF OnlyAt
<1>5. CASE manual_reset[o] = FALSE
  <2>1. SameFields(o)
    BY <1>0, <1>3, <1>5 DEF SameFields
  <2>2. UNCHANGED Promise(o)!vars
    BY <1>2, <1>3, <2>1, HiddenStutters
  <2> QED BY <1>2, <1>3, <2>2, OneObjectMoves DEF OnlyAt
<1> QED BY <1>0, <1>4, <1>5

\* A kill and a fresh task are seen by every object.
LEMMA EnvironmentPromised ==
  ASSUME EInv, Environment, UNCHANGED fields
  PROVE  Promised
<1>0. \A o \in Objects : SameFields(o)
  BY DEF SameFields, fields
<1>1. (\A o \in Objects : Hidden(o)) /\ (UNCHANGED kill_ticket \/ \E t \in Tasks : TicketMoves(t))
  BY EnvironmentSeen DEF EInv
<1>2. CASE UNCHANGED kill_ticket
  BY <1>1, <1>2, NoObjectMoves
<1>3. CASE \E t \in Tasks : TicketMoves(t) /\ ~UNCHANGED kill_ticket
  <2>1. PICK t \in Tasks : TicketMoves(t) /\ ~UNCHANGED kill_ticket
    BY <1>3
  <2>2. ASSUME NEW o \in Objects PROVE Promise(o)!Next
    <3>1. Outcomes(o)' = Outcomes(o) /\ Timed(o)' = Timed(o) /\ SameFields(o)
      BY <1>0, <1>1 DEF Hidden
    <3>2. \/ ~kill_ticket[t] /\ kill_ticket' = [kill_ticket EXCEPT ![t] = TRUE]
          \/ Outcomes(o)[t] = "none" /\ kill_ticket[t] /\ kill_ticket' = [kill_ticket EXCEPT ![t] = FALSE]
      BY <2>1 DEF TicketMoves
    <3>3. Promise(o)!Kill(t) \/ Promise(o)!Replace(t)
      BY <3>2 DEF Outcomes, Promise!Kill, Promise!Replace
    <3> QED BY <3>1, <3>3 DEF Outcomes, Timed, SameFields, Promise!Next
  <2> QED BY <2>2 DEF Promised
<1> QED BY <1>1, <1>2, <1>3

\* No event is cleared behind its waiters' backs where nobody multi-waits.
LEMMA NextPromised ==
  ASSUME MultiTasks = {}, EInv, [Next]_vars
  PROVE  Promised
<1>1. CASE \E t \in Tasks, o \in Objects : ~InMulti(t) /\ EventCall(t, o) /\ UNCHANGED multi
  <2>1. PICK t \in Tasks, o \in Objects, op \in {"wait", "set", "reset"}, tick \in {"none", "zero", "deadline"} :
          EnterCall(t, o, op, 0, tick) /\ (op = "wait" \/ tick = "none") /\ UNCHANGED fields
    BY <1>1, CondvarObjectAssumption DEF EventCall, KEventWait, KEventSet, KEventReset
  <2> QED BY <2>1, EnterPromised
<1>2. ASSUME NEW t \in Tasks, EventStep(t) PROVE Promised
  BY <1>2, CallStepPromised, WaitStepPromised, SetPromised, ResetPromised DEF EventStep
<1>3. CASE UNCHANGED eventVars
  <2>1. (\A o \in Objects : Hidden(o)) /\ UNCHANGED <<kill_ticket, fields>>
    BY <1>3 DEF eventVars, callVars, schedVars, Hidden, Outcomes, Timed
  <2> QED BY <2>1, NoObjectMoves
<1>4. ASSUME NEW t \in Tasks, MultiStep(t) PROVE Promised
  <2>1. multi[t].phase = "none" /\ multi[t].todo = <<>> /\ call[t].op \notin {"peek", "clear"}
    BY MultiFacts DEF MultiFits
  <2> QED BY <1>4, <2>1 DEF MultiStep, NextHandle, PeekBody, ClearBody, EndPass, EndPause, EndMulti
<1>5. ASSUME NEW t \in Tasks, BeginMulti(t) \/ MultiDeadline(t) PROVE Promised
  BY <1>3, <1>5 DEF BeginMulti, MultiDeadline
<1>6. ASSUME NEW t \in Tasks, EventTimer(t) \/ ((Outside(t) \/ Kill(t)) /\ UNCHANGED fields) PROVE Promised
  <2>1. Environment /\ UNCHANGED fields
    BY <1>6 DEF EventTimer, Outside, Environment
  <2> QED BY <2>1, EnvironmentPromised
<1>7. ASSUME NEW o \in Objects, CloseHandle(o), UNCHANGED fields PROVE Promised
  BY <1>7, EnvironmentPromised DEF Environment
<1> QED BY <1>1, <1>2, <1>3, <1>4, <1>5, <1>6, <1>7 DEF Next, Step, Clock, vars

(* Events that nobody multi-waits for implement WaitPromise: one Set of an *)
(* auto-reset event satisfies at most one wait, a wait that fails takes    *)
(* nothing, and only a reset of a manual-reset event clears it otherwise.  *)
(* A multi-wait's claim is not a step of that promise: see                 *)
(* ClaimFindsSignal.                                                       *)
THEOREM EventImplements == MultiTasks = {} /\ Spec => ImplementsEvent
<1> SUFFICES ASSUME MultiTasks = {} PROVE Spec => ImplementsEvent
  OBVIOUS
<1>1. Init => \A o \in Objects : Promise(o)!Init
  <2> SUFFICES ASSUME Init, NEW o \in Objects PROVE Promise(o)!Init
    OBVIOUS
  <2>1. /\ signaled[o] \in BOOLEAN /\ manual_reset[o] \in BOOLEAN
        /\ kill_ticket = [t \in Tasks |-> FALSE] /\ call = [t \in Tasks |-> NoCall] /\ NoCall.obj # o
    BY SchedAssumption DEF Init, EventInit, CallInit, SchedInit, NoCall
  <2>2. [t \in Tasks |-> IF call[t].obj = o THEN call[t].result ELSE "none"] = [t \in Tasks |-> "none"]
    BY <2>1
  <2>3. [t \in Tasks |-> call[t].obj = o /\ call[t].tick # "none"] = [t \in Tasks |-> FALSE]
    BY <2>1
  <2>4. (IF signaled[o] THEN 1 ELSE 0) \in 0..1
    OBVIOUS
  <2>5. (~manual_reset[o]) \in BOOLEAN
    BY Zenon
  <2> QED BY <2>1, <2>2, <2>3, <2>4, <2>5, Zenon DEF Promise!Init
<1>2. ASSUME EInv, [Next]_vars PROVE [Promised]_eventVars
  BY <1>2, NextPromised
<1>3. [][Promised]_eventVars <=> [][\A o \in Objects : Promise(o)!Next \/ UNCHANGED Promise(o)!vars]_eventVars
  BY DEF Promised
<1>4. Spec => [][Promised]_eventVars
  BY <1>2, EventInductive, PTL DEF Spec
<1> QED BY <1>1, <1>3, <1>4 DEF Spec, ImplementsEvent
=============================================================================
