------------------------ MODULE CondvarObjectProofs ------------------------
(***************************************************************************)
(* What every call of CondvarObject keeps, whatever object extends it: the *)
(* invariant CallInv, and one lemma per action of CondvarObject.  The      *)
(* proofs about KSemaphore and KEvent build on it.                         *)
(***************************************************************************)
EXTENDS CondvarObject, SchedSyncProofs

CallRecords(ops, args) ==
  [obj: Objects \cup {NULL}, op: ops \cup {"none"}, arg: args \cup {0}, tick: {"none", "zero", "deadline", "past"},
   woke: {"none", "Woken", "TimedOut", "Cancelled"}, result: Results]

Holding == {"test", "body", "unlock"}
Holds(t) == \E o \in Objects : owner[o] = t

(* Where a task stands fits what it owns and what it waits for.  A task    *)
(* owns the mutex of the object it calls, and nothing else; it is queued   *)
(* on that mutex only at a lock and on that condition variable only when   *)
(* parked; a cancellation it saw comes from a kill.                        *)
TaskFits(t) ==
  /\ Blocked(t) => \/ pc[t] = "lock" /\ wait[t].waiting_on = Inner(call[t].obj)
                   \/ pc[t] = "parked" /\ wait[t].waiting_on = Cv(call[t].obj)
  /\ call[t].obj = NULL <=> pc[t] \in {"idle", "dead"}
  /\ call[t].obj = NULL => call[t] = NoCall
  /\ pc[t] \in Holding => owner[call[t].obj] = t
  /\ \A o \in Objects : owner[o] = t => call[t].obj = o /\ pc[t] \in Holding \cup {"lock"} /\ ~Blocked(t)
  /\ owned_internal_mutex_count[t] = IF Holds(t) THEN 1 ELSE 0
  /\ wait[t].wait_cancellable => pc[t] = "parked"
  /\ wait[t].wake_by_cancel => kill_ticket[t]
  /\ call[t].woke = "Cancelled" => kill_ticket[t] /\ pc[t] # "parked"
  /\ pc[t] = "dead" => kill_ticket[t]
  /\ pc[t] \in {"test", "parked"} => IsWait(t)

TasksFit == \A t \in Tasks : TaskFits(t)

(* The references, as counts.                                              *)
CallOn == [t \in Tasks |-> call[t].obj]
WaitOn == [t \in Tasks |-> IF call[t].op = "wait" THEN call[t].obj ELSE NULL]
ReferencesOK ==
  \A o \in Objects : refcount[o] = handles[o] + Count(CallOn, Tasks, o) + Count(WaitOn, Tasks, o)

CallInv(ops, args, pcs) == CallTypeOK(ops, args, pcs) /\ SchedInv /\ TasksFit /\ ReferencesOK

-----------------------------------------------------------------------------
(* References *)

Weight(c, o) == IF c.obj = o THEN IF c.op = "wait" THEN 2 ELSE 1 ELSE 0

(* A step of t's call on o changes the count of o with what it holds.      *)
Balanced(t, o) ==
  /\ handles' \in [Objects -> {0, 1}] /\ refcount' \in [Objects -> Int]
  /\ \A p \in Objects \ {o} : refcount'[p] = refcount[p] /\ handles'[p] = handles[p]
  /\ refcount'[o] + handles[o] + Weight(call[t], o) = refcount[o] + handles'[o] + Weight(call'[t], o)
  /\ call[t].obj \in {o, NULL} /\ call'[t].obj \in {o, NULL}
  /\ \A u \in Tasks \ {t} : call'[u] = call[u]

\* A balanced step keeps the count exact, so it never goes below zero.
LEMMA ReferencesKept ==
  ASSUME NEW t \in Tasks, NEW o \in Objects, Balanced(t, o), ReferencesOK,
         handles \in [Objects -> {0, 1}], refcount \in [Objects -> Nat]
  PROVE  ReferencesOK' /\ refcount' \in [Objects -> Nat]
<1>1. OneChange(CallOn, CallOn', Tasks, t) /\ OneChange(WaitOn, WaitOn', Tasks, t)
  BY CondvarObjectAssumption DEF OneChange, CallOn, WaitOn, Balanced
<1>2. CallOn[t] \in {o, NULL} /\ CallOn'[t] \in {o, NULL} /\ WaitOn[t] \in {o, NULL} /\ WaitOn'[t] \in {o, NULL}
  BY DEF CallOn, WaitOn, Balanced
<1>3. ASSUME NEW p \in Objects
      PROVE  /\ refcount'[p] \in Nat
             /\ refcount'[p] = handles'[p] + Count(CallOn', Tasks, p) + Count(WaitOn', Tasks, p)
  <2> DEFINE a == Count(CallOn, Tasks, p)
             b == Count(WaitOn, Tasks, p)
             c == Count(CallOn', Tasks, p)
             d == Count(WaitOn', Tasks, p)
             h == handles[p]
             k == handles'[p]
             r == refcount[p]
             s == refcount'[p]
  <2>1. a \in Nat /\ b \in Nat /\ c \in Nat /\ d \in Nat
    BY CountNat, CondvarObjectAssumption
  <2>2. h \in {0, 1} /\ k \in {0, 1} /\ r \in Nat /\ s \in Int
    BY DEF Balanced
  <2>3. r = h + a + b
    BY DEF ReferencesOK
  <2>4. c + One(CallOn[t], p) = a + One(CallOn'[t], p)
    BY <1>1, CountUpdate
  <2>5. d + One(WaitOn[t], p) = b + One(WaitOn'[t], p)
    BY <1>1, CountUpdate
  <2>6. /\ One(CallOn[t], p) \in {0, 1} /\ One(WaitOn[t], p) \in {0, 1}
        /\ One(CallOn'[t], p) \in {0, 1} /\ One(WaitOn'[t], p) \in {0, 1}
    BY DEF One
  <2> HIDE DEF a, b, c, d, h, k, r, s
  <2>7. CASE p # o
    <3>1. /\ One(CallOn[t], p) = 0 /\ One(WaitOn[t], p) = 0
          /\ One(CallOn'[t], p) = 0 /\ One(WaitOn'[t], p) = 0
      BY <1>2, <2>7, SchedAssumption DEF One
    <3>2. s = r /\ k = h
      BY <2>7 DEF Balanced, s, r, k, h
    <3>3. s = k + c + d /\ s \in Nat
      BY <2>1, <2>2, <2>3, <2>4, <2>5, <3>1, <3>2
    <3> QED BY <3>3 DEF s, k, c, d
  <2>8. CASE p = o
    <3>1. s + h + Weight(call[t], p) = r + k + Weight(call'[t], p)
      BY <2>8 DEF Balanced, s, r, k, h
    <3>2. Weight(call[t], p) = One(CallOn[t], p) + One(WaitOn[t], p)
      BY SchedAssumption DEF Weight, One, CallOn, WaitOn
    <3>3. Weight(call'[t], p) = One(CallOn'[t], p) + One(WaitOn'[t], p)
      BY SchedAssumption DEF Weight, One, CallOn, WaitOn
    <3> DEFINE L == One(CallOn[t], p) + One(WaitOn[t], p)
               R == One(CallOn'[t], p) + One(WaitOn'[t], p)
    <3>4. L \in Int /\ R \in Int
      BY <2>6
    <3>5. c + d + L = a + b + R
      BY <2>1, <2>4, <2>5, <2>6
    <3>6. s + h + L = r + k + R
      BY <3>1, <3>2, <3>3
    <3> HIDE DEF L, R
    <3>7. s = k + c + d
      BY <2>1, <2>2, <2>3, <3>4, <3>5, <3>6
    <3>8. s \in Nat
      BY <2>1, <2>2, <3>7
    <3> QED BY <3>7, <3>8 DEF s, k, c, d
  <2> QED BY <2>7, <2>8
<1>4. refcount' \in [Objects -> Nat]
  BY <1>3 DEF Balanced
<1>5. ReferencesOK' <=> \A p \in Objects :
        refcount'[p] = handles'[p] + Count(CallOn', Tasks, p) + Count(WaitOn', Tasks, p)
  BY DEF ReferencesOK, Count
<1> QED BY <1>3, <1>4, <1>5

-----------------------------------------------------------------------------
(* One step of a task *)

(* What a step of t does to another task: nothing, it is woken from the    *)
(* condition variable, or it is handed the mutex it is queued for.         *)
Spared(u) ==
  /\ pc'[u] = pc[u] /\ call'[u] = call[u] /\ kill_ticket'[u] = kill_ticket[u]
  /\ \/ /\ wait'[u] = wait[u] /\ owned_internal_mutex_count'[u] = owned_internal_mutex_count[u]
        /\ \A o \in Objects : owner'[o] = u <=> owner[o] = u
     \/ /\ wait'[u] = Woken(wait[u]) /\ owned_internal_mutex_count'[u] = owned_internal_mutex_count[u]
        /\ \A o \in Objects : owner'[o] = u <=> owner[o] = u
     \/ /\ wait'[u] = Woken(wait[u]) /\ owned_internal_mutex_count'[u] = owned_internal_mutex_count[u] + 1
        /\ \E o \in Objects : /\ wait[u].waiting_on = Inner(o) /\ owner[o] # u /\ owner'[o] = u
                              /\ \A p \in Objects \ {o} : owner'[p] = u <=> owner[p] = u

\* What an explicit wake makes of the wait record.
LEMMA WokenFields ==
  ASSUME NEW w \in WaitRecords
  PROVE  /\ Woken(w).waiting_on = NULL /\ Woken(w).wake_by_cancel = FALSE /\ Woken(w).wake_by_timeout = FALSE
         /\ Woken(w).wait_cancellable = w.wait_cancellable
BY DEF Woken, WaitRecords

\* A task that another one's step spares, wakes or hands a mutex to still fits.
LEMMA SparedFits ==
  ASSUME NEW u \in Tasks, TaskFits(u), wait[u] \in WaitRecords, call[u].obj \in Objects \cup {NULL}, Spared(u)
  PROVE  TaskFits(u)'
<1>0. /\ pc'[u] = pc[u] /\ call'[u] = call[u] /\ kill_ticket'[u] = kill_ticket[u]
  BY DEF Spared
<1>1. pc[u] \in Holding => call[u].obj \in Objects
  BY DEF TaskFits, Holding
<1>2. /\ Woken(wait[u]).waiting_on = NULL /\ Woken(wait[u]).wake_by_cancel = FALSE
      /\ Woken(wait[u]).wait_cancellable = wait[u].wait_cancellable
  BY WokenFields
<1>3. CASE /\ wait'[u] = wait[u] /\ owned_internal_mutex_count'[u] = owned_internal_mutex_count[u]
           /\ \A o \in Objects : owner'[o] = u <=> owner[o] = u
  <2>1. Holds(u)' <=> Holds(u)
    BY <1>3 DEF Holds
  <2> QED BY <1>0, <1>1, <1>3, <2>1 DEF TaskFits, Blocked, IsWait
<1>4. CASE /\ wait'[u] = Woken(wait[u]) /\ owned_internal_mutex_count'[u] = owned_internal_mutex_count[u]
           /\ \A o \in Objects : owner'[o] = u <=> owner[o] = u
  <2>1. Holds(u)' <=> Holds(u)
    BY <1>4 DEF Holds
  <2> QED BY <1>0, <1>1, <1>2, <1>4, <2>1 DEF TaskFits, Blocked, IsWait
<1>5. CASE /\ wait'[u] = Woken(wait[u]) /\ owned_internal_mutex_count'[u] = owned_internal_mutex_count[u] + 1
           /\ \E o \in Objects : /\ wait[u].waiting_on = Inner(o) /\ owner[o] # u /\ owner'[o] = u
                                 /\ \A p \in Objects \ {o} : owner'[p] = u <=> owner[p] = u
  <2>1. PICK o \in Objects : /\ wait[u].waiting_on = Inner(o) /\ owner'[o] = u
                             /\ \A p \in Objects \ {o} : owner'[p] = u <=> owner[p] = u
    BY <1>5
  <2>2. Blocked(u) /\ Inner(o) # NULL
    BY <2>1, QueueNames DEF Blocked
  <2>3. call[u].obj \in Objects
    BY <2>2 DEF TaskFits
  <2>4. pc[u] = "lock" /\ call[u].obj = o
    BY <2>1, <2>2, <2>3, QueueNames DEF TaskFits
  <2>5. ~Holds(u) /\ \A p \in Objects : owner[p] # u
    BY <2>2 DEF TaskFits, Holds
  <2>6. \A p \in Objects : owner'[p] = u <=> p = o
    BY <2>1, <2>5
  <2>7. Holds(u)' /\ owned_internal_mutex_count'[u] = 1
    BY <1>5, <2>5, <2>6 DEF Holds, TaskFits
  <2> QED BY <1>0, <1>2, <1>5, <2>4, <2>6, <2>7 DEF TaskFits, Blocked, IsWait, Holding
<1> QED BY <1>3, <1>4, <1>5 DEF Spared

(* The step of t spares everybody else.                                    *)
Others(t) == \A u \in Tasks \ {t} : Spared(u)

\* The whole invariant after a step of t, from what the step does to t.
LEMMA CallMoves ==
  ASSUME NEW ops, NEW args, NEW pcs, CallInv(ops, args, pcs), NEW t \in Tasks, NEW o \in Objects,
         SchedInv', pc' \in [Tasks -> PCs \cup pcs], call' \in [Tasks -> CallRecords(ops, args)],
         TaskFits(t)', Balanced(t, o), Others(t)
  PROVE  CallInv(ops, args, pcs)' /\ Others(t)
<1>0. /\ handles \in [Objects -> {0, 1}] /\ refcount \in [Objects -> Nat] /\ wait \in [Tasks -> WaitRecords]
      /\ call \in [Tasks -> CallRecords(ops, args)] /\ TasksFit /\ ReferencesOK
  BY DEF CallInv, CallTypeOK, SchedInv, SchedTypeOK, CallRecords
<1>1. ReferencesOK' /\ refcount' \in [Objects -> Nat] /\ handles' \in [Objects -> {0, 1}]
  BY <1>0, ReferencesKept DEF Balanced
<1>2. ASSUME NEW u \in Tasks PROVE TaskFits(u)'
  <2>1. CASE u = t
    BY <2>1
  <2>2. CASE u # t
    <3>1. call[u].obj \in Objects \cup {NULL} /\ wait[u] \in WaitRecords /\ TaskFits(u) /\ Spared(u)
      BY <1>0, <2>2 DEF CallRecords, TasksFit, Others
    <3> QED BY <3>1, SparedFits
  <2> QED BY <2>1, <2>2
<1>3. CallTypeOK(ops, args, pcs)'
  BY <1>1 DEF CallTypeOK, SchedInv, CallRecords
<1> QED BY <1>1, <1>2, <1>3 DEF CallInv, TasksFit

\* The same for a step that leaves every call and every reference alone.
LEMMA NoCallMoves ==
  ASSUME NEW ops, NEW args, NEW pcs, CallInv(ops, args, pcs), NEW t \in Tasks, UNCHANGED <<refcount, handles, call>>,
         SchedInv', pc' \in [Tasks -> PCs \cup pcs], TaskFits(t)', Others(t)
  PROVE  CallInv(ops, args, pcs)' /\ Others(t)
<1>0. /\ wait \in [Tasks -> WaitRecords] /\ call \in [Tasks -> CallRecords(ops, args)] /\ TasksFit
  BY DEF CallInv, CallTypeOK, SchedInv, SchedTypeOK, CallRecords
<1>1. ReferencesOK'
  BY DEF CallInv, ReferencesOK, Count, CallOn, WaitOn
<1>2. ASSUME NEW u \in Tasks PROVE TaskFits(u)'
  <2>1. CASE u = t
    BY <2>1
  <2>2. CASE u # t
    <3>1. call[u].obj \in Objects \cup {NULL} /\ wait[u] \in WaitRecords /\ TaskFits(u) /\ Spared(u)
      BY <1>0, <2>2 DEF CallRecords, TasksFit, Others
    <3> QED BY <3>1, SparedFits
  <2> QED BY <2>1, <2>2
<1>3. CallTypeOK(ops, args, pcs)'
  BY DEF CallInv, CallTypeOK, SchedInv
<1> QED BY <1>1, <1>2, <1>3 DEF CallInv, TasksFit

\* The types and the facts about t that the lemmas below start from.
LEMMA CallFacts ==
  ASSUME NEW ops, NEW args, NEW pcs, CallInv(ops, args, pcs), NEW t \in Tasks
  PROVE  /\ SchedInv /\ SchedTypeOK /\ TaskFits(t)
         /\ handles \in [Objects -> {0, 1}] /\ refcount \in [Objects -> Nat] /\ pc \in [Tasks -> PCs \cup pcs]
         /\ call \in [Tasks -> CallRecords(ops, args)] /\ call[t] \in CallRecords(ops, args)
         /\ call[t].obj \in Objects \cup {NULL} /\ (pc[t] \notin {"idle", "dead"} => call[t].obj \in Objects)
         /\ wait \in [Tasks -> WaitRecords] /\ wait[t] \in WaitRecords /\ kill_ticket \in [Tasks -> BOOLEAN]
         /\ owner \in [Objects -> Tasks \cup {NULL}] /\ owned_internal_mutex_count \in [Tasks -> Nat]
<1>1. /\ SchedInv /\ SchedTypeOK /\ TaskFits(t)
      /\ handles \in [Objects -> {0, 1}] /\ refcount \in [Objects -> Nat] /\ pc \in [Tasks -> PCs \cup pcs]
      /\ call \in [Tasks -> CallRecords(ops, args)]
  BY DEF CallInv, CallTypeOK, SchedInv, CallRecords, TasksFit
<1>2. call[t] \in CallRecords(ops, args) /\ call[t].obj \in Objects \cup {NULL}
  BY <1>1 DEF CallRecords
<1>3. pc[t] \notin {"idle", "dead"} => call[t].obj \in Objects
  BY <1>1, <1>2 DEF TaskFits
<1> QED BY <1>1, <1>2, <1>3 DEF SchedTypeOK

\* Nothing of the scheduler moves: everybody else is spared.
LEMMA StillSpared ==
  ASSUME NEW t \in Tasks, UNCHANGED schedVars, \A u \in Tasks \ {t} : pc'[u] = pc[u] /\ call'[u] = call[u]
  PROVE  Others(t)
BY DEF Others, Spared, schedVars

\* The scheduler's invariant when nothing of it moves.
LEMMA SchedStill ==
  ASSUME SchedInv, UNCHANGED schedVars
  PROVE  SchedInv'
<1>1. wait \in [Tasks -> WaitRecords] /\ kill_ticket \in [Tasks -> BOOLEAN]
  BY DEF SchedInv, SchedTypeOK
<1> QED BY <1>1, OwnFieldsKept DEF schedVars

\* A step that changes only where t stands and its locals.
LEMMA PlainMove ==
  ASSUME NEW ops, NEW args, NEW pcs, CallInv(ops, args, pcs), NEW t \in Tasks, NEW o \in Objects,
         NEW at \in PCs \cup pcs, NEW c \in CallRecords(ops, args), UNCHANGED schedVars,
         pc' = [pc EXCEPT ![t] = at], call' = [call EXCEPT ![t] = c], Balanced(t, o), TaskFits(t)'
  PROVE  CallInv(ops, args, pcs)' /\ Others(t)
<1>0. pc \in [Tasks -> PCs \cup pcs] /\ call \in [Tasks -> CallRecords(ops, args)] /\ SchedInv
  BY CallFacts
<1>1. SchedInv'
  BY <1>0, SchedStill
<1>2. /\ pc' \in [Tasks -> PCs \cup pcs] /\ call' \in [Tasks -> CallRecords(ops, args)]
      /\ \A u \in Tasks \ {t} : pc'[u] = pc[u] /\ call'[u] = call[u]
  BY <1>0
<1>3. Others(t)
  BY <1>2, StillSpared
<1> QED BY <1>1, <1>2, <1>3, CallMoves

-----------------------------------------------------------------------------
(* Entering and leaving *)

\* A task at no place where it may own a mutex owns none.
LEMMA OwnsNothing ==
  ASSUME NEW t \in Tasks, TaskFits(t), pc[t] \notin Holding \cup {"lock"} \/ Blocked(t)
  PROVE  ~Holds(t) /\ owned_internal_mutex_count[t] = 0 /\ \A o \in Objects : owner[o] # t
BY DEF TaskFits, Holds

\* A task that holds its object's mutex holds nothing else.
LEMMA OwnsItsObject ==
  ASSUME NEW t \in Tasks, NEW o \in Objects, TaskFits(t), owner[o] = t
  PROVE  /\ Holds(t) /\ owned_internal_mutex_count[t] = 1 /\ call[t].obj = o /\ ~Blocked(t)
         /\ \A p \in Objects : owner[p] = t <=> p = o
BY DEF TaskFits, Holds

\* Entering a call.
LEMMA EnterCallKeeps ==
  ASSUME NEW ops, NEW args, NEW pcs, CallInv(ops, args, pcs), NEW t \in Tasks, NEW o \in Objects,
         NEW op \in ops, NEW arg \in args \cup {0}, NEW tick \in {"none", "zero", "deadline"},
         EnterCall(t, o, op, arg, tick)
  PROVE  CallInv(ops, args, pcs)' /\ Others(t)
<1> DEFINE c == [obj |-> o, op |-> op, arg |-> arg, tick |-> tick, woke |-> "none",
                 result |-> IF op = "wait" THEN "waiting" ELSE "none"]
<1>0. /\ pc[t] = "idle" /\ ~Blocked(t) /\ pc' = [pc EXCEPT ![t] = "lock"] /\ call' = [call EXCEPT ![t] = c]
      /\ refcount' = [refcount EXCEPT ![o] = @ + (IF op = "wait" THEN 2 ELSE 1)] /\ UNCHANGED <<schedVars, handles>>
  BY DEF EnterCall, At, Goto
<1>1. c \in CallRecords(ops, args) /\ c.obj = o /\ c.op = op /\ c.woke = "none"
  BY DEF CallRecords, Results
<1> HIDE DEF c
<1>2. /\ TaskFits(t) /\ handles \in [Objects -> {0, 1}] /\ refcount \in [Objects -> Nat]
      /\ pc \in [Tasks -> PCs \cup pcs] /\ call \in [Tasks -> CallRecords(ops, args)]
  BY CallFacts
<1>3. pc'[t] = "lock" /\ call'[t] = c
  BY <1>0, <1>2
<1>4. call[t].obj = NULL
  BY <1>0, <1>2 DEF TaskFits
<1>5. Balanced(t, o)
  <2>1. Weight(call[t], o) = 0 /\ Weight(call'[t], o) = IF op = "wait" THEN 2 ELSE 1
    BY <1>1, <1>3, <1>4, SchedAssumption DEF Weight
  <2> QED BY <1>0, <1>1, <1>2, <1>3, <1>4, <2>1 DEF Balanced
<1>6. TaskFits(t)'
  <2>1. ~Holds(t) /\ owned_internal_mutex_count[t] = 0 /\ \A p \in Objects : owner[p] # t
    BY <1>0, <1>2, OwnsNothing DEF Holding
  <2>2. wait' = wait /\ kill_ticket' = kill_ticket /\ owner' = owner
        /\ owned_internal_mutex_count' = owned_internal_mutex_count
    BY <1>0 DEF schedVars
  <2>3. ~Holds(t)'
    BY <2>1, <2>2 DEF Holds
  <2> QED BY <1>0, <1>1, <1>2, <1>3, <2>1, <2>2, <2>3, SchedAssumption DEF TaskFits, Holding, Blocked
<1> QED BY <1>0, <1>1, <1>5, <1>6, PlainMove DEF PCs

\* Leaving it with what it entered with.
LEMMA ReturnKeeps ==
  ASSUME NEW ops, NEW args, NEW pcs, CallInv(ops, args, pcs), NEW t \in Tasks, ReturnFromCall(t)
  PROVE  CallInv(ops, args, pcs)' /\ Others(t)
<1>0. /\ pc[t] = "return" /\ ~Blocked(t) /\ pc' = [pc EXCEPT ![t] = "idle"] /\ call' = [call EXCEPT ![t] = NoCall]
      /\ refcount' = [refcount EXCEPT ![call[t].obj] = @ - References(t)] /\ UNCHANGED <<schedVars, handles>>
  BY DEF ReturnFromCall, At, Goto
<1>1. NoCall \in CallRecords(ops, args) /\ NoCall.obj = NULL /\ NoCall.woke = "none"
  BY DEF CallRecords, Results, NoCall
<1>2. /\ TaskFits(t) /\ handles \in [Objects -> {0, 1}] /\ refcount \in [Objects -> Nat]
      /\ pc \in [Tasks -> PCs \cup pcs] /\ call \in [Tasks -> CallRecords(ops, args)] /\ call[t].obj \in Objects
  BY <1>0, CallFacts
<1> SUFFICES ASSUME NEW o \in Objects, o = call[t].obj PROVE CallInv(ops, args, pcs)' /\ Others(t)
  BY <1>2
<1>3. pc'[t] = "idle" /\ call'[t] = NoCall
  BY <1>0, <1>2
<1>4. Balanced(t, o)
  <2>1. Weight(call[t], o) = References(t) /\ Weight(call'[t], o) = 0 /\ References(t) \in {1, 2}
    BY <1>1, <1>3, SchedAssumption DEF Weight, References
  <2>2. refcount'[o] = refcount[o] - References(t) /\ \A p \in Objects \ {o} : refcount'[p] = refcount[p]
    BY <1>0, <1>2
  <2>3. refcount' \in [Objects -> Int]
    BY <1>0, <1>2, <2>1
  <2> QED BY <1>0, <1>1, <1>2, <1>3, <2>1, <2>2, <2>3 DEF Balanced
<1>5. TaskFits(t)'
  <2>1. ~Holds(t) /\ owned_internal_mutex_count[t] = 0 /\ \A p \in Objects : owner[p] # t
    BY <1>0, <1>2, OwnsNothing DEF Holding
  <2>2. wait' = wait /\ kill_ticket' = kill_ticket /\ owner' = owner
        /\ owned_internal_mutex_count' = owned_internal_mutex_count
    BY <1>0 DEF schedVars
  <2>3. ~Holds(t)'
    BY <2>1, <2>2 DEF Holds
  <2> QED BY <1>0, <1>1, <1>2, <1>3, <2>1, <2>2, <2>3 DEF TaskFits, Holding, Blocked
<1> QED BY <1>0, <1>1, <1>4, <1>5, PlainMove DEF PCs

\* Closing the handle drops its reference.
LEMMA CloseHandleKeeps ==
  ASSUME NEW ops, NEW args, NEW pcs, CallInv(ops, args, pcs), NEW o \in Objects, CloseHandle(o)
  PROVE  CallInv(ops, args, pcs)'
<1>0. /\ handles[o] = 1 /\ handles' = [handles EXCEPT ![o] = 0] /\ refcount' = [refcount EXCEPT ![o] = @ - 1]
      /\ UNCHANGED <<schedVars, pc, call>>
  BY DEF CloseHandle
<1>1. /\ handles \in [Objects -> {0, 1}] /\ refcount \in [Objects -> Nat] /\ SchedInv /\ TasksFit /\ ReferencesOK
      /\ CallTypeOK(ops, args, pcs)
  BY DEF CallInv, CallTypeOK
<1>2. SchedInv' /\ SchedTypeOK'
  BY <1>0, <1>1, SchedStill DEF SchedInv
<1>3. TasksFit'
  BY <1>0, <1>1 DEF TasksFit, TaskFits, Blocked, IsWait, Holds, schedVars
<1>4. ASSUME NEW p \in Objects
      PROVE  /\ refcount'[p] \in Nat
             /\ refcount'[p] = handles'[p] + Count(CallOn, Tasks, p) + Count(WaitOn, Tasks, p)
  <2>1. Count(CallOn, Tasks, p) \in Nat /\ Count(WaitOn, Tasks, p) \in Nat
    BY CountNat, CondvarObjectAssumption
  <2>2. refcount[p] = handles[p] + Count(CallOn, Tasks, p) + Count(WaitOn, Tasks, p) /\ handles[p] \in {0, 1}
    BY <1>1 DEF ReferencesOK
  <2>3. CASE p = o
    BY <1>0, <1>1, <2>1, <2>2, <2>3
  <2>4. CASE p # o
    BY <1>0, <1>1, <2>1, <2>2, <2>4
  <2> QED BY <2>3, <2>4
<1>5. CallOn' = CallOn /\ WaitOn' = WaitOn
  BY <1>0 DEF CallOn, WaitOn
<1>6. ReferencesOK' <=> \A p \in Objects :
        refcount'[p] = handles'[p] + Count(CallOn', Tasks, p) + Count(WaitOn', Tasks, p)
  BY DEF ReferencesOK, Count
<1>7. ReferencesOK' /\ refcount' \in [Objects -> Nat] /\ handles' \in [Objects -> {0, 1}]
  BY <1>0, <1>1, <1>4, <1>5, <1>6
<1>8. CallTypeOK(ops, args, pcs)'
  BY <1>0, <1>1, <1>2, <1>7 DEF CallTypeOK
<1> QED BY <1>2, <1>3, <1>7, <1>8 DEF CallInv

-----------------------------------------------------------------------------
(* The companion mutex *)

\* Balance of a step that changes neither the counts nor what t's call is.
LEMMA SameReferences ==
  ASSUME NEW ops, NEW args, NEW pcs, CallInv(ops, args, pcs), NEW t \in Tasks, NEW o \in Objects, o = call[t].obj,
         UNCHANGED <<refcount, handles>>, call'[t].obj = call[t].obj, call'[t].op = call[t].op,
         \A u \in Tasks \ {t} : call'[u] = call[u]
  PROVE  Balanced(t, o)
<1>1. handles \in [Objects -> {0, 1}] /\ refcount \in [Objects -> Nat]
  BY CallFacts
<1>2. Weight(call'[t], o) = Weight(call[t], o) /\ Weight(call[t], o) \in {0, 1, 2}
  BY DEF Weight
<1> QED BY <1>1, <1>2 DEF Balanced

\* Taking the mutex, free or handed over, or queueing for it.
LEMMA LockInnerKeeps ==
  ASSUME NEW ops, NEW args, NEW pcs, CallInv(ops, args, pcs), NEW t \in Tasks, LockInner(t)
  PROVE  CallInv(ops, args, pcs)' /\ Others(t)
<1>0. pc[t] = "lock" /\ ~Blocked(t) /\ UNCHANGED <<refcount, handles, call>>
  BY DEF LockInner, At
<1>1. /\ SchedInv /\ TaskFits(t) /\ call[t].obj \in Objects /\ pc \in [Tasks -> PCs \cup pcs]
      /\ call \in [Tasks -> CallRecords(ops, args)] /\ wait \in [Tasks -> WaitRecords]
      /\ owner \in [Objects -> Tasks \cup {NULL}] /\ owned_internal_mutex_count \in [Tasks -> Nat]
  BY <1>0, CallFacts
<1> SUFFICES ASSUME NEW o \in Objects, o = call[t].obj PROVE CallInv(ops, args, pcs)' /\ Others(t)
  BY <1>1
<1>2. Balanced(t, o)
  BY <1>0, SameReferences
<1>3. CASE /\ MutexClaim(t, o) /\ UNCHANGED <<wait, kill_ticket, queue>>
           /\ Goto(t, IF IsWait(t) THEN "test" ELSE "body")
  <2>1. SchedInv' /\ owner' = [owner EXCEPT ![o] = t] /\ owner[o] \in {NULL, t}
    BY <1>1, <1>3, ClaimKept
  <2>2. /\ owner'[o] = t /\ (\A p \in Objects \ {o} : owner'[p] = owner[p])
        /\ \A u \in Tasks \ {t} : \A p \in Objects : owner'[p] = u <=> owner[p] = u
    BY <1>1, <2>1, SchedAssumption
  <2>3. /\ pc' = [pc EXCEPT ![t] = IF IsWait(t) THEN "test" ELSE "body"]
        /\ pc'[t] = (IF IsWait(t) THEN "test" ELSE "body") /\ pc' \in [Tasks -> PCs \cup pcs]
        /\ \A u \in Tasks \ {t} : pc'[u] = pc[u]
    BY <1>1, <1>3 DEF Goto, PCs
  <2>4. owned_internal_mutex_count'[t] = 1 /\ \A u \in Tasks \ {t} : owned_internal_mutex_count'[u] = owned_internal_mutex_count[u]
    <3>1. CASE owner[o] = NULL
      <4>1. \A p \in Objects : owner[p] = t => p = o
        BY <1>1 DEF TaskFits
      <4>2. owned_internal_mutex_count[t] = 0
        BY <1>1, <3>1, <4>1, SchedAssumption DEF TaskFits, Holds
      <4>3. owned_internal_mutex_count' = [owned_internal_mutex_count EXCEPT ![t] = owned_internal_mutex_count[t] + 1]
        BY <1>3, <3>1, CondvarObjectAssumption, SchedAssumption DEF MutexClaim, Counted
      <4> QED BY <1>1, <4>2, <4>3
    <3>2. CASE owner[o] = t
      <4>1. owned_internal_mutex_count[t] = 1
        BY <1>1, <3>2, OwnsItsObject
      <4>2. owned_internal_mutex_count' = owned_internal_mutex_count
        BY <1>3, <3>2, SchedAssumption DEF MutexClaim
      <4> QED BY <4>1, <4>2
    <3> QED BY <2>1, <3>1, <3>2
  <2>5. \A p \in Objects : owner'[p] = t <=> p = o
    BY <1>1, <2>2 DEF TaskFits
  <2>6. TaskFits(t)'
    <3>1. Holds(t)'
      BY <2>2 DEF Holds
    <3> QED BY <1>0, <1>1, <1>3, <2>3, <2>4, <2>5, <3>1, SchedAssumption DEF TaskFits, Holding, Blocked, IsWait
  <2>7. Others(t)
    BY <1>0, <1>3, <2>2, <2>3, <2>4 DEF Others, Spared
  <2> QED BY <1>0, <1>1, <1>2, <2>1, <2>3, <2>6, <2>7, CallMoves
<1>4. CASE MutexPark(t, o, ParkedOn(wait[t], Inner(o), "none")) /\ UNCHANGED pc
  <2> DEFINE w == ParkedOn(wait[t], Inner(o), "none")
  <2>1. w \in WaitRecords /\ w.waiting_on = Inner(o) /\ Inner(o) # NULL
    BY <1>1, ParkUpdates, QueueNames DEF WakeTicks
  <2>2. w.wait_cancellable = wait[t].wait_cancellable /\ w.wake_by_cancel = wait[t].wake_by_cancel
    BY <1>1 DEF ParkedOn, WaitRecords
  <2> HIDE DEF w
  <2>3. /\ SchedInv' /\ UNCHANGED owner
        /\ wait'[t] = w /\ \A u \in Tasks \ {t} : wait'[u] = wait[u]
    BY <1>0, <1>1, <1>4, <2>1, ParkKept DEF w
  <2>4. UNCHANGED <<kill_ticket, owned_internal_mutex_count>> /\ owner[o] # t
    BY <1>4 DEF MutexPark, MutexAvailable
  <2>5. \A p \in Objects : owner[p] # t
    BY <1>1, <2>4 DEF TaskFits
  <2>6. ~Holds(t) /\ ~Holds(t)'
    BY <2>3, <2>5 DEF Holds
  <2>7. TaskFits(t)'
    BY <1>0, <1>1, <1>4, <2>1, <2>2, <2>3, <2>4, <2>5, <2>6 DEF TaskFits, Holding, Blocked, IsWait
  <2>8. Others(t)
    BY <1>0, <1>4, <2>3, <2>4 DEF Others, Spared
  <2> QED BY <1>0, <1>1, <1>2, <1>4, <2>3, <2>7, <2>8, CallMoves
<1> QED BY <1>3, <1>4 DEF LockInner

\* The hand-off of t's mutex spares everybody else: at most the head of its queue is made the owner.
LEMMA HandOffSpares ==
  ASSUME SchedInv, NEW t \in Tasks, NEW o \in Objects, TaskFits(t), owner[o] = t,
         HandedOwner(o), HandedCounts(t, o), UNCHANGED kill_ticket,
         \A u \in Tasks \ {t} : /\ wait'[u] = IF u = Successor(o) THEN Woken(wait[u]) ELSE wait[u]
                                /\ pc'[u] = pc[u] /\ call'[u] = call[u]
  PROVE  /\ Others(t)
         /\ \A p \in Objects : owner'[p] # t
         /\ owned_internal_mutex_count'[t] = 0 /\ Successor(o) # t
<1>0. /\ owner \in [Objects -> Tasks \cup {NULL}] /\ owned_internal_mutex_count \in [Tasks -> Nat]
      /\ owned_internal_mutex_count[t] = 1 /\ ~Blocked(t) /\ \A p \in Objects : owner[p] = t <=> p = o
  BY OwnsItsObject DEF SchedInv, SchedTypeOK
<1>1. \/ Successor(o) = NULL
      \/ /\ Successor(o) \in Tasks /\ wait[Successor(o)].waiting_on = Inner(o) /\ Blocked(Successor(o))
  BY SuccessorFacts
<1>2. Successor(o) # t
  BY <1>0, <1>1, SchedAssumption
<1>3. owner'[o] = Successor(o) /\ \A p \in Objects \ {o} : owner'[p] = owner[p]
  BY <1>0 DEF HandedOwner
<1>4. \A u \in Tasks : owned_internal_mutex_count'[u] = IF u = t THEN owned_internal_mutex_count[u] - 1
                          ELSE IF u = Successor(o) THEN owned_internal_mutex_count[u] + 1
                          ELSE owned_internal_mutex_count[u]
  BY CondvarObjectAssumption DEF HandedCounts
<1>5. ASSUME NEW u \in Tasks \ {t} PROVE Spared(u)
  <2>1. CASE u = Successor(o)
    <3>1. wait[u].waiting_on = Inner(o) /\ owner[o] # u /\ owner'[o] = u
      BY <1>1, <1>3, <2>1, SchedAssumption
    <3> QED BY <1>3, <1>4, <2>1, <3>1 DEF Others, Spared
  <2>2. CASE u # Successor(o)
    <3>1. \A p \in Objects : owner'[p] = u <=> owner[p] = u
      BY <1>3, <2>2
    <3> QED BY <1>4, <2>2, <3>1 DEF Others, Spared
  <2> QED BY <2>1, <2>2
<1> QED BY <1>0, <1>2, <1>3, <1>4, <1>5 DEF Others

\* Unlocking, to a place where t owns nothing; its call goes on with the locals c.
LEMMA UnlockKeeps ==
  ASSUME NEW ops, NEW args, NEW pcs, CallInv(ops, args, pcs), NEW t \in Tasks, pc[t] \in Holding,
         NEW at \in (PCs \cup pcs) \ (Holding \cup {"idle", "dead", "lock", "parked"}), NEW c \in CallRecords(ops, args),
         c.obj = call[t].obj, c.op = call[t].op, c.woke = call[t].woke,
         MutexUnlock(t, call[t].obj), pc' = [pc EXCEPT ![t] = at], call' = [call EXCEPT ![t] = c],
         UNCHANGED <<refcount, handles>>
  PROVE  CallInv(ops, args, pcs)' /\ Others(t)
<1>1. /\ SchedInv /\ TaskFits(t) /\ call[t].obj \in Objects /\ pc \in [Tasks -> PCs \cup pcs]
      /\ call \in [Tasks -> CallRecords(ops, args)] /\ wait \in [Tasks -> WaitRecords]
  BY CallFacts DEF Holding
<1> SUFFICES ASSUME NEW o \in Objects, o = call[t].obj PROVE CallInv(ops, args, pcs)' /\ Others(t)
  BY <1>1
<1>2. /\ pc'[t] = at /\ call'[t] = c /\ pc' \in [Tasks -> PCs \cup pcs] /\ call' \in [Tasks -> CallRecords(ops, args)]
      /\ \A u \in Tasks \ {t} : pc'[u] = pc[u] /\ call'[u] = call[u]
  BY <1>1
<1>3. Balanced(t, o)
  BY <1>2, SameReferences
<1>4. owner[o] = t /\ MutexRelinquish(t, o, wait[t])
  BY DEF MutexUnlock
<1>5. owned_internal_mutex_count[t] = 1 /\ ~Blocked(t)
  BY <1>1, <1>4, OwnsItsObject
<1>6. SchedInv' /\ Successor(o) # t
  BY <1>1, <1>4, <1>5, RelinquishKept DEF Blocked
<1>7. /\ \A u \in Tasks : wait'[u] = IF u = Successor(o) THEN Woken(wait[u]) ELSE wait[u]
      /\ HandedOwner(o) /\ HandedCounts(t, o) /\ UNCHANGED kill_ticket
  BY <1>4 DEF MutexRelinquish
<1>8. /\ Others(t)
      /\ \A p \in Objects : owner'[p] # t
      /\ owned_internal_mutex_count'[t] = 0
  BY <1>1, <1>2, <1>4, <1>7, HandOffSpares
<1>9. TaskFits(t)'
  <2>1. ~Holds(t)'
    BY <1>8 DEF Holds
  <2>2. wait'[t] = wait[t] /\ kill_ticket'[t] = kill_ticket[t]
    BY <1>6, <1>7
  <2>3. at \notin Holding \cup {"idle", "dead", "lock", "parked"}
    OBVIOUS
  <2> QED BY <1>1, <1>2, <1>5, <1>8, <2>1, <2>2, <2>3, SchedAssumption DEF TaskFits, Blocked, Holding
<1> QED BY <1>2, <1>3, <1>6, <1>8, <1>9, CallMoves

\* The unlock that ends a body.
LEMMA UnlockInnerKeeps ==
  ASSUME NEW ops, NEW args, NEW pcs, CallInv(ops, args, pcs), NEW t \in Tasks, UnlockInner(t)
  PROVE  CallInv(ops, args, pcs)' /\ Others(t)
<1>0. /\ pc[t] = "unlock" /\ MutexUnlock(t, call[t].obj) /\ pc' = [pc EXCEPT ![t] = "return"]
      /\ UNCHANGED <<refcount, handles, call>>
  BY DEF UnlockInner, UnlockTo, At, Goto
<1>1. call \in [Tasks -> CallRecords(ops, args)] /\ call[t] \in CallRecords(ops, args)
  BY CallFacts
<1>2. call' = [call EXCEPT ![t] = call[t]]
  BY <1>0, <1>1
<1>3. "return" \in (PCs \cup pcs) \ (Holding \cup {"idle", "dead", "lock", "parked"}) /\ pc[t] \in Holding
  BY <1>0 DEF PCs, Holding
<1> QED BY <1>0, <1>1, <1>2, <1>3, UnlockKeeps

(* The scheduler's part of a body: nothing, or waking waiters of o.        *)
WakesAtMost(o) ==
  /\ SchedInv' /\ UNCHANGED <<kill_ticket, owner, owned_internal_mutex_count>>
  /\ \A u \in Tasks : wait'[u] = wait[u] \/ (wait[u].waiting_on = Cv(o) /\ wait'[u] = Woken(wait[u]))

\* A step under the mutex that leads to the unlock.
LEMMA BodyKeeps ==
  ASSUME NEW ops, NEW args, NEW pcs, CallInv(ops, args, pcs), NEW t \in Tasks, NEW o \in Objects, o = call[t].obj,
         pc[t] \in Holding, NEW c \in CallRecords(ops, args), c.obj = call[t].obj, c.op = call[t].op, c.woke = call[t].woke,
         pc' = [pc EXCEPT ![t] = "unlock"], call' = [call EXCEPT ![t] = c],
         UNCHANGED <<refcount, handles>>, WakesAtMost(o)
  PROVE  CallInv(ops, args, pcs)' /\ Others(t)
<1>1. /\ SchedInv /\ TaskFits(t) /\ pc \in [Tasks -> PCs \cup pcs]
      /\ call \in [Tasks -> CallRecords(ops, args)] /\ wait \in [Tasks -> WaitRecords]
  BY CallFacts
<1>2. /\ pc'[t] = "unlock" /\ call'[t] = c /\ pc' \in [Tasks -> PCs \cup pcs] /\ call' \in [Tasks -> CallRecords(ops, args)]
      /\ \A u \in Tasks \ {t} : pc'[u] = pc[u] /\ call'[u] = call[u]
  BY <1>1 DEF PCs
<1>3. Balanced(t, o)
  BY <1>2, SameReferences
<1>4. owner[o] = t
  BY <1>1 DEF TaskFits
<1>5. Holds(t) /\ owned_internal_mutex_count[t] = 1 /\ ~Blocked(t)
  BY <1>1, <1>4, OwnsItsObject
<1>6. wait'[t] = wait[t] /\ owner' = owner /\ kill_ticket' = kill_ticket
      /\ owned_internal_mutex_count' = owned_internal_mutex_count
  BY <1>5, QueueNames DEF WakesAtMost, Blocked
<1>7. TaskFits(t)'
  <2>1. Holds(t)'
    BY <1>5, <1>6 DEF Holds
  <2> QED BY <1>1, <1>2, <1>4, <1>5, <1>6, <2>1, SchedAssumption DEF TaskFits, Blocked, Holding
<1>8. Others(t)
  BY <1>2, <1>6 DEF Others, Spared, WakesAtMost
<1>9. SchedInv'
  BY DEF WakesAtMost
<1> QED BY <1>2, <1>3, <1>7, <1>8, <1>9, CallMoves

\* Nothing, a signal and a broadcast are such parts.
LEMMA BodyWakes ==
  ASSUME SchedInv, NEW o \in Objects, UNCHANGED schedVars \/ CondvarSignal(o) \/ CondvarBroadcast(o)
  PROVE  WakesAtMost(o)
<1>1. CASE UNCHANGED schedVars
  BY <1>1, SchedStill DEF WakesAtMost, schedVars
<1>2. CASE CondvarSignal(o)
  BY <1>2, SignalKept DEF WakesAtMost
<1>3. CASE CondvarBroadcast(o)
  BY <1>3, BroadcastKept DEF WakesAtMost
<1> QED BY <1>1, <1>2, <1>3

\* A body that is done.
LEMMA BodyDoneKeeps ==
  ASSUME NEW ops, NEW args, NEW pcs, CallInv(ops, args, pcs), NEW t \in Tasks, BodyDone(t),
         \/ UNCHANGED schedVars \/ CondvarSignal(call[t].obj) \/ CondvarBroadcast(call[t].obj)
  PROVE  CallInv(ops, args, pcs)' /\ Others(t)
<1>0. pc[t] = "body" /\ pc' = [pc EXCEPT ![t] = "unlock"] /\ UNCHANGED <<refcount, handles, call>>
  BY DEF BodyDone, At, Goto
<1>1. /\ call \in [Tasks -> CallRecords(ops, args)] /\ call[t] \in CallRecords(ops, args)
      /\ call[t].obj \in Objects /\ SchedInv
  BY <1>0, CallFacts
<1>2. call' = [call EXCEPT ![t] = call[t]] /\ pc[t] \in Holding
  BY <1>0, <1>1 DEF Holding
<1>3. WakesAtMost(call[t].obj)
  BY <1>1, BodyWakes
<1> QED BY <1>0, <1>1, <1>2, <1>3, BodyKeeps

-----------------------------------------------------------------------------
(* The wait loop *)

\* A wait is given its outcome.
LEMMA ResultUpdate ==
  ASSUME NEW ops, NEW args, NEW c \in CallRecords(ops, args), NEW r \in Results
  PROVE  /\ [c EXCEPT !.result = r] \in CallRecords(ops, args) /\ [c EXCEPT !.result = r].result = r
         /\ [c EXCEPT !.result = r].obj = c.obj /\ [c EXCEPT !.result = r].op = c.op
         /\ [c EXCEPT !.result = r].woke = c.woke /\ [c EXCEPT !.result = r].tick = c.tick
BY DEF CallRecords

\* The deadline of a wait goes by.
LEMMA TickUpdate ==
  ASSUME NEW ops, NEW args, NEW c \in CallRecords(ops, args)
  PROVE  /\ [c EXCEPT !.tick = "past"] \in CallRecords(ops, args) /\ [c EXCEPT !.tick = "past"].tick = "past"
         /\ [c EXCEPT !.tick = "past"].obj = c.obj /\ [c EXCEPT !.tick = "past"].op = c.op
         /\ [c EXCEPT !.tick = "past"].woke = c.woke /\ [c EXCEPT !.tick = "past"].result = c.result
BY DEF CallRecords

\* A decided wait goes to its unlock.
LEMMA DecideKeeps ==
  ASSUME NEW ops, NEW args, NEW pcs, CallInv(ops, args, pcs), NEW t \in Tasks, pc[t] = "test",
         NEW r \in Results, Decide(t, r)
  PROVE  CallInv(ops, args, pcs)' /\ Others(t)
<1> DEFINE c == [call[t] EXCEPT !.result = r]
<1>0. /\ pc' = [pc EXCEPT ![t] = "unlock"] /\ call' = [call EXCEPT ![t].result = r]
      /\ UNCHANGED <<schedVars, refcount, handles>>
  BY DEF Decide, Goto
<1>1. /\ call \in [Tasks -> CallRecords(ops, args)] /\ call[t] \in CallRecords(ops, args)
      /\ call[t].obj \in Objects /\ SchedInv
  BY CallFacts
<1>2. /\ c \in CallRecords(ops, args) /\ c.obj = call[t].obj /\ c.op = call[t].op /\ c.woke = call[t].woke
      /\ call' = [call EXCEPT ![t] = c] /\ pc[t] \in Holding
  <2>1. /\ c \in CallRecords(ops, args) /\ c.obj = call[t].obj /\ c.op = call[t].op /\ c.woke = call[t].woke
    BY <1>1, ResultUpdate
  <2>2. call' = [call EXCEPT ![t] = c]
    BY <1>0
  <2> QED BY <2>1, <2>2 DEF Holding
<1>3. WakesAtMost(call[t].obj)
  BY <1>0, <1>1, BodyWakes
<1> HIDE DEF c
<1> QED BY <1>0, <1>1, <1>2, <1>3, BodyKeeps

\* Parking hands the mutex on.
LEMMA WaitParkKeeps ==
  ASSUME NEW ops, NEW args, NEW pcs, CallInv(ops, args, pcs), NEW t \in Tasks, NEW available, WaitPark(t, available)
  PROVE  CallInv(ops, args, pcs)' /\ Others(t)
<1> DEFINE tick == IF call[t].tick = "none" THEN "none" ELSE "deadline"
<1>0. /\ pc[t] = "test" /\ call[t].woke # "Cancelled" /\ CondvarPark(t, call[t].obj, tick)
      /\ pc' = [pc EXCEPT ![t] = "parked"] /\ UNCHANGED <<refcount, handles, call>> /\ tick \in WakeTicks
  BY DEF WaitPark, At, Goto, Aborted, WakeTicks
<1> HIDE DEF tick
<1>1. /\ SchedInv /\ TaskFits(t) /\ call[t].obj \in Objects /\ pc \in [Tasks -> PCs \cup pcs]
      /\ call \in [Tasks -> CallRecords(ops, args)] /\ wait \in [Tasks -> WaitRecords]
  BY <1>0, CallFacts
<1> SUFFICES ASSUME NEW o \in Objects, o = call[t].obj PROVE CallInv(ops, args, pcs)' /\ Others(t)
  BY <1>1
<1>2. /\ pc'[t] = "parked" /\ pc' \in [Tasks -> PCs \cup pcs] /\ call' \in [Tasks -> CallRecords(ops, args)]
      /\ \A u \in Tasks \ {t} : pc'[u] = pc[u] /\ call'[u] = call[u]
  BY <1>0, <1>1 DEF PCs
<1>3. Balanced(t, o)
  BY <1>0, SameReferences
<1>4. owner[o] = t
  BY <1>0 DEF CondvarPark
<1>5. owned_internal_mutex_count[t] = 1 /\ ~Blocked(t)
  BY <1>1, <1>4, OwnsItsObject
<1>6. /\ SchedInv' /\ Successor(o) # t
      /\ wait'[t].waiting_on = Cv(o) /\ ~wait'[t].wake_by_cancel
      /\ \A u \in Tasks \ {t} : wait'[u] = IF u = Successor(o) THEN Woken(wait[u]) ELSE wait[u]
  BY <1>0, <1>1, <1>5, CondvarParkKept
<1>7. HandedOwner(o) /\ HandedCounts(t, o) /\ UNCHANGED kill_ticket
  BY <1>0 DEF CondvarPark
<1>8. /\ Others(t)
      /\ \A p \in Objects : owner'[p] # t
      /\ owned_internal_mutex_count'[t] = 0
  BY <1>1, <1>2, <1>4, <1>6, <1>7, HandOffSpares
<1>9. TaskFits(t)'
  <2>1. ~Holds(t)'
    BY <1>8 DEF Holds
  <2> QED BY <1>0, <1>1, <1>2, <1>6, <1>8, <2>1, SchedAssumption DEF TaskFits, Blocked, Holding, IsWait
<1> QED BY <1>2, <1>3, <1>6, <1>8, <1>9, CallMoves

\* A resumed wait learns what took it off the queue, and locks again.
LEMMA WaitResumeKeeps ==
  ASSUME NEW ops, NEW args, NEW pcs, CallInv(ops, args, pcs), NEW t \in Tasks, WaitResume(t)
  PROVE  CallInv(ops, args, pcs)' /\ Others(t)
<1> DEFINE c == [call[t] EXCEPT !.woke = ResumeResult(t)]
<1>0. /\ pc[t] = "parked" /\ ~Blocked(t) /\ ClassifyCancellableWaitResume(t)
      /\ call' = [call EXCEPT ![t].woke = ResumeResult(t)] /\ pc' = [pc EXCEPT ![t] = "lock"]
      /\ UNCHANGED <<refcount, handles>>
  BY DEF WaitResume, At, Goto
<1>1. /\ SchedInv /\ TaskFits(t) /\ call[t].obj \in Objects /\ pc \in [Tasks -> PCs \cup pcs]
      /\ call \in [Tasks -> CallRecords(ops, args)] /\ call[t] \in CallRecords(ops, args)
  BY <1>0, CallFacts
<1>2. ResumeResult(t) \in {"Woken", "TimedOut", "Cancelled"} /\ (ResumeResult(t) = "Cancelled" => wait[t].wake_by_cancel)
  BY DEF ResumeResult
<1>3. /\ c \in CallRecords(ops, args) /\ c.obj = call[t].obj /\ c.op = call[t].op /\ c.woke = ResumeResult(t)
      /\ call' = [call EXCEPT ![t] = c]
  <2>1. /\ c \in CallRecords(ops, args) /\ c.obj = call[t].obj /\ c.op = call[t].op /\ c.woke = ResumeResult(t)
    <3>1. ASSUME NEW w \in {"Woken", "TimedOut", "Cancelled"}
          PROVE  LET d == [call[t] EXCEPT !.woke = w] IN
                 d \in CallRecords(ops, args) /\ d.obj = call[t].obj /\ d.op = call[t].op /\ d.woke = w
      BY <1>1 DEF CallRecords
    <3> QED BY <1>2, <3>1
  <2>2. call' = [call EXCEPT ![t] = c]
    BY <1>0
  <2> QED BY <2>1, <2>2
<1> HIDE DEF c
<1> SUFFICES ASSUME NEW o \in Objects, o = call[t].obj PROVE CallInv(ops, args, pcs)' /\ Others(t)
  BY <1>1
<1>4. /\ pc'[t] = "lock" /\ call'[t] = c /\ pc' \in [Tasks -> PCs \cup pcs] /\ call' \in [Tasks -> CallRecords(ops, args)]
      /\ \A u \in Tasks \ {t} : pc'[u] = pc[u] /\ call'[u] = call[u]
  BY <1>0, <1>1, <1>3 DEF PCs
<1>5. Balanced(t, o)
  BY <1>0, <1>3, <1>4, SameReferences
<1>6. /\ SchedInv' /\ UNCHANGED <<kill_ticket, queue, owner, owned_internal_mutex_count>>
      /\ wait'[t].waiting_on = NULL /\ ~wait'[t].wait_cancellable /\ ~wait'[t].wake_by_cancel
      /\ \A u \in Tasks \ {t} : wait'[u] = wait[u]
  BY <1>0, <1>1, ResumeKept
<1>7. Others(t)
  BY <1>4, <1>6 DEF Others, Spared
<1>8. TaskFits(t)'
  <2>1. ~Holds(t) /\ owned_internal_mutex_count[t] = 0 /\ \A p \in Objects : owner[p] # t
    BY <1>0, <1>1, OwnsNothing DEF Holding
  <2>2. ~Holds(t)'
    BY <1>6, <2>1 DEF Holds
  <2>3. c.woke = "Cancelled" => kill_ticket[t]
    BY <1>1, <1>2, <1>3 DEF TaskFits
  <2> QED BY <1>1, <1>3, <1>4, <1>6, <2>1, <2>2, <2>3, SchedAssumption DEF TaskFits, Blocked, Holding
<1> QED BY <1>4, <1>5, <1>6, <1>7, <1>8, CallMoves

-----------------------------------------------------------------------------
(* The rest of the system *)

\* A killed task dies at the boundary, owning nothing.
LEMMA TaskExitKeeps ==
  ASSUME NEW ops, NEW args, NEW pcs, CallInv(ops, args, pcs), NEW t \in Tasks, TaskExit(t)
  PROVE  CallInv(ops, args, pcs)' /\ Others(t)
<1>0. /\ pc[t] = "idle" /\ ~Blocked(t) /\ kill_ticket[t] /\ pc' = [pc EXCEPT ![t] = "dead"]
      /\ UNCHANGED <<schedVars, refcount, handles, call>>
  BY DEF TaskExit, At, Goto, KillPending
<1>1. /\ TaskFits(t) /\ pc \in [Tasks -> PCs \cup pcs] /\ call \in [Tasks -> CallRecords(ops, args)]
      /\ call[t] \in CallRecords(ops, args) /\ handles \in [Objects -> {0, 1}] /\ refcount \in [Objects -> Nat]
  BY CallFacts
<1>2. call[t].obj = NULL /\ pc'[t] = "dead"
  BY <1>0, <1>1 DEF TaskFits
<1>3. pc' \in [Tasks -> PCs \cup pcs] /\ SchedInv' /\ Others(t)
  <2>1. pc' \in [Tasks -> PCs \cup pcs] /\ \A u \in Tasks \ {t} : pc'[u] = pc[u] /\ call'[u] = call[u]
    BY <1>0, <1>1 DEF PCs
  <2>2. SchedInv'
    BY <1>0, CallFacts, SchedStill
  <2> QED BY <1>0, <2>1, <2>2, StillSpared
<1>4. TaskFits(t)'
  <2>1. ~Holds(t) /\ owned_internal_mutex_count[t] = 0 /\ \A p \in Objects : owner[p] # t
    BY <1>0, <1>1, OwnsNothing DEF Holding
  <2>2. wait' = wait /\ kill_ticket' = kill_ticket /\ owner' = owner
        /\ owned_internal_mutex_count' = owned_internal_mutex_count
    BY <1>0 DEF schedVars
  <2>3. ~Holds(t)'
    BY <2>1, <2>2 DEF Holds
  <2> QED BY <1>0, <1>1, <1>2, <2>1, <2>2, <2>3 DEF TaskFits, Holding, Blocked
<1> QED BY <1>0, <1>3, <1>4, NoCallMoves

\* A task created in the storage of a dead one starts afresh.
LEMMA TaskCreateKeeps ==
  ASSUME NEW ops, NEW args, NEW pcs, CallInv(ops, args, pcs), NEW t \in Tasks, TaskCreate(t)
  PROVE  CallInv(ops, args, pcs)' /\ Others(t)
<1>0. /\ pc[t] = "dead" /\ pc' = [pc EXCEPT ![t] = "idle"] /\ kill_ticket' = [kill_ticket EXCEPT ![t] = FALSE]
      /\ wait' = [wait EXCEPT ![t] = NotWaiting]
      /\ UNCHANGED <<queue, owner, owned_internal_mutex_count, refcount, handles, call>>
  BY DEF TaskCreate, Goto
<1>1. /\ SchedInv /\ TaskFits(t) /\ pc \in [Tasks -> PCs \cup pcs] /\ call \in [Tasks -> CallRecords(ops, args)]
      /\ handles \in [Objects -> {0, 1}] /\ refcount \in [Objects -> Nat]
      /\ wait \in [Tasks -> WaitRecords] /\ kill_ticket \in [Tasks -> BOOLEAN]
  BY CallFacts
<1>2. /\ call[t].obj = NULL /\ call[t].woke = "none" /\ pc'[t] = "idle" /\ pc' \in [Tasks -> PCs \cup pcs]
      /\ \A u \in Tasks \ {t} : pc'[u] = pc[u]
  BY <1>0, <1>1 DEF TaskFits, PCs, NoCall
<1>3. NotWaiting \in WaitRecords /\ NotWaiting.waiting_on = NULL /\ NotWaiting.wait_cancellable = FALSE
      /\ NotWaiting.wake_by_cancel = FALSE
  BY DEF NotWaiting, WaitRecords, WakeTicks
<1>4. ~Blocked(t) /\ wait[t].waiting_on = NULL
  BY <1>0, <1>1 DEF TaskFits, Blocked
<1>5. /\ kill_ticket' \in [Tasks -> BOOLEAN] /\ wait' \in [Tasks -> WaitRecords] /\ wait'[t] = NotWaiting
      /\ \A u \in Tasks \ {t} : wait'[u] = wait[u] /\ kill_ticket'[u] = kill_ticket[u]
  BY <1>0, <1>1, <1>3
<1>6. SchedInv'
  <2>1. \A u \in Tasks : wait'[u].waiting_on = wait[u].waiting_on
    BY <1>3, <1>4, <1>5
  <2> QED BY <1>0, <1>1, <1>5, <2>1, OwnFieldsKept
<1>7. Others(t)
  BY <1>0, <1>2, <1>5 DEF Others, Spared
<1>8. TaskFits(t)'
  <2>1. ~Holds(t) /\ owned_internal_mutex_count[t] = 0 /\ \A p \in Objects : owner[p] # t
    BY <1>0, <1>1, OwnsNothing DEF Holding
  <2>2. ~Holds(t)'
    BY <1>0, <2>1 DEF Holds
  <2> QED BY <1>0, <1>1, <1>2, <1>3, <1>5, <2>1, <2>2 DEF TaskFits, Holding, Blocked
<1> QED BY <1>0, <1>2, <1>6, <1>7, <1>8, NoCallMoves

\* A deadline goes by.
LEMMA DeadlineKeeps ==
  ASSUME NEW ops, NEW args, NEW pcs, CallInv(ops, args, pcs), NEW t \in Tasks, DeadlinePasses(t)
  PROVE  CallInv(ops, args, pcs)' /\ Others(t)
<1> DEFINE c == [call[t] EXCEPT !.tick = "past"]
<1>0. /\ call[t].tick = "deadline" /\ call' = [call EXCEPT ![t].tick = "past"]
      /\ UNCHANGED <<schedVars, refcount, handles, pc>>
  BY DEF DeadlinePasses
<1>1. /\ TaskFits(t) /\ call \in [Tasks -> CallRecords(ops, args)] /\ call[t] \in CallRecords(ops, args)
      /\ call[t].obj \in Objects \cup {NULL} /\ pc \in [Tasks -> PCs \cup pcs]
  BY CallFacts
<1>2. call[t].obj \in Objects
  BY <1>0, <1>1 DEF TaskFits, NoCall
<1>3. c \in CallRecords(ops, args) /\ c.obj = call[t].obj /\ c.op = call[t].op /\ c.woke = call[t].woke
  BY <1>1, TickUpdate
<1>4. call' = [call EXCEPT ![t] = c]
  BY <1>0
<1> HIDE DEF c
<1> SUFFICES ASSUME NEW o \in Objects, o = call[t].obj PROVE CallInv(ops, args, pcs)' /\ Others(t)
  BY <1>2
<1>5. call'[t] = c /\ (\A u \in Tasks \ {t} : call'[u] = call[u]) /\ pc' = [pc EXCEPT ![t] = pc[t]] /\ pc[t] \in PCs \cup pcs
  BY <1>0, <1>1, <1>4
<1>6. Balanced(t, o)
  BY <1>0, <1>3, <1>5, SameReferences
<1>7. TaskFits(t)'
  <2>1. wait' = wait /\ kill_ticket' = kill_ticket /\ owner' = owner /\ pc' = pc
        /\ owned_internal_mutex_count' = owned_internal_mutex_count
    BY <1>0 DEF schedVars
  <2>2. Holds(t)' <=> Holds(t)
    BY <2>1 DEF Holds
  <2> QED BY <1>1, <1>2, <1>3, <1>5, <2>1, <2>2, SchedAssumption DEF TaskFits, Blocked, IsWait
<1> QED BY <1>0, <1>3, <1>4, <1>5, <1>6, <1>7, PlainMove

\* The timer and the killer take a parked task off its queue, or leave it where it is.
LEMMA OneWaitEnds ==
  ASSUME NEW ops, NEW args, NEW pcs, CallInv(ops, args, pcs), NEW t \in Tasks, UNCHANGED callVars,
         SchedInv', UNCHANGED <<owner, owned_internal_mutex_count>>,
         \A u \in Tasks \ {t} : wait'[u] = wait[u] /\ kill_ticket'[u] = kill_ticket[u],
         wait'[t].waiting_on \in {NULL, wait[t].waiting_on}, kill_ticket[t] => kill_ticket'[t],
         wait'[t].wait_cancellable => wait[t].wait_cancellable,
         wait'[t].wake_by_cancel => kill_ticket'[t]
  PROVE  CallInv(ops, args, pcs)' /\ Others(t)
<1>1. UNCHANGED <<refcount, handles, pc, call>>
  BY DEF callVars
<1>2. TaskFits(t)'
  <2>1. TaskFits(t)
    BY CallFacts
  <2>2. Holds(t)' <=> Holds(t)
    BY DEF Holds
  <2> QED BY <1>1, <2>1, <2>2 DEF TaskFits, Blocked, IsWait
<1>3. Others(t)
  BY <1>1 DEF Others, Spared
<1>4. pc' \in [Tasks -> PCs \cup pcs]
  BY <1>1, CallFacts
<1> QED BY <1>1, <1>2, <1>3, <1>4, NoCallMoves

\* The timer.
LEMMA TimerKeeps ==
  ASSUME NEW ops, NEW args, NEW pcs, CallInv(ops, args, pcs), NEW t \in Tasks, Timer(t)
  PROVE  CallInv(ops, args, pcs)' /\ Others(t)
<1>1. CASE OnTimerTick(t) /\ UNCHANGED callVars
  <2>0. SchedInv /\ wait \in [Tasks -> WaitRecords]
    BY CallFacts
  <2>1. /\ SchedInv' /\ UNCHANGED owner
        /\ wait'[t].waiting_on = NULL /\ \A u \in Tasks \ {t} : wait'[u] = wait[u]
    BY <1>1, <2>0, TimerKept
  <2>2. wait'[t] = TimedOut(wait[t]) /\ UNCHANGED <<kill_ticket, owned_internal_mutex_count>>
    BY <1>1, <2>0 DEF OnTimerTick
  <2>3. wait'[t].wait_cancellable = wait[t].wait_cancellable /\ ~wait'[t].wake_by_cancel
    BY <2>0, <2>2 DEF TimedOut, WaitRecords
  <2> QED BY <1>1, <2>1, <2>2, <2>3, OneWaitEnds
<1>2. CASE DeadlinePasses(t)
  BY <1>2, DeadlineKeeps
<1> QED BY <1>1, <1>2 DEF Timer

\* A kill.
LEMMA KillKeeps ==
  ASSUME NEW ops, NEW args, NEW pcs, CallInv(ops, args, pcs), NEW t \in Tasks, Kill(t)
  PROVE  CallInv(ops, args, pcs)' /\ Others(t)
<1>0. SignalTask(t) /\ UNCHANGED callVars /\ SchedInv /\ wait \in [Tasks -> WaitRecords] /\ kill_ticket \in [Tasks -> BOOLEAN]
      /\ TaskFits(t)
  BY CallFacts DEF Kill
<1>1. /\ SchedInv' /\ UNCHANGED owner
      /\ wait'[t].waiting_on = NULL \/ UNCHANGED wait
      /\ \A u \in Tasks \ {t} : wait'[u] = wait[u]
  BY <1>0, KillKept
<1>2. kill_ticket'[t] = TRUE /\ (\A u \in Tasks \ {t} : kill_ticket'[u] = kill_ticket[u]) /\ UNCHANGED owned_internal_mutex_count
  BY <1>0 DEF SignalTask
<1>3. wait'[t] = Detached(wait[t]) \/ wait'[t] = wait[t]
  BY <1>0 DEF SignalTask
<1>4. Detached(wait[t]).wait_cancellable = FALSE
  BY <1>0 DEF Detached, WaitRecords
<1> QED BY <1>0, <1>1, <1>2, <1>3, <1>4, OneWaitEnds

\* Every action of CondvarObject that needs no object of the module that extends it.
LEMMA SharedKeeps ==
  ASSUME NEW ops, NEW args, NEW pcs, CallInv(ops, args, pcs),
         (\E t \in Tasks : CallStep(t)) \/ Environment
  PROVE  CallInv(ops, args, pcs)'
<1>1. ASSUME NEW t \in Tasks, CallStep(t) PROVE CallInv(ops, args, pcs)'
  BY <1>1, LockInnerKeeps, WaitResumeKeeps, UnlockInnerKeeps, ReturnKeeps DEF CallStep
<1>2. ASSUME NEW t \in Tasks, TaskExit(t) \/ TaskCreate(t) \/ Timer(t) \/ Kill(t) PROVE CallInv(ops, args, pcs)'
  BY <1>2, TaskExitKeeps, TaskCreateKeeps, TimerKeeps, KillKeeps
<1>3. ASSUME NEW o \in Objects, CloseHandle(o) PROVE CallInv(ops, args, pcs)'
  BY <1>3, CloseHandleKeeps
<1> QED BY <1>1, <1>2, <1>3 DEF Environment

\* A wait that looks at its object is granted, fails or parks.
LEMMA WaitLoopKeeps ==
  ASSUME NEW ops, NEW args, NEW pcs, CallInv(ops, args, pcs), NEW t \in Tasks, NEW available,
         \/ WaitGranted(t, available) \/ WaitCancelled(t, available)
         \/ WaitTimedOut(t, available) \/ WaitPark(t, available)
  PROVE  CallInv(ops, args, pcs)' /\ Others(t)
<1>1. {"granted", "cancelled", "timedout"} \subseteq Results
  BY DEF Results
<1> QED BY <1>1, DecideKeeps, WaitParkKeeps DEF WaitGranted, WaitCancelled, WaitTimedOut, At

-----------------------------------------------------------------------------
(* The beginning, and what the invariant says *)

\* Nobody calls, waits or owns, and the one handle is the one reference.
LEMMA CallInvInit ==
  ASSUME NEW ops, NEW args, NEW pcs, CallInit
  PROVE  CallInv(ops, args, pcs)
<1>0. NULL \notin Tasks /\ NULL \notin Objects /\ NULL \notin WaitQueues
  BY SchedAssumption, QueueNames
<1>1. SchedTypeOK
  <2>1. NotWaiting \in WaitRecords
    BY DEF NotWaiting, WaitRecords, WakeTicks
  <2> QED BY <2>1 DEF CallInit, SchedInit, SchedTypeOK
<1>2. \A t \in Tasks : /\ wait[t] = NotWaiting /\ wait[t].waiting_on = NULL /\ pc[t] = "idle" /\ ~Blocked(t)
                       /\ call[t] = NoCall /\ call[t].obj = NULL /\ call[t].woke = "none"
  BY DEF CallInit, SchedInit, NotWaiting, NoCall, Blocked
<1>3. CallTypeOK(ops, args, pcs)
  <2>1. NoCall \in CallRecords(ops, args)
    BY DEF NoCall, CallRecords, Results
  <2>2. call \in [Tasks -> CallRecords(ops, args)]
    BY <2>1 DEF CallInit
  <2> QED BY <1>1, <2>2 DEF CallInit, CallTypeOK, CallRecords, PCs
<1>4. SchedInv
  <2>1. QueuesConsistent
    BY <1>0, <1>2 DEF CallInit, SchedInit, QueuesConsistent
  <2>2. NoForgottenWaiter
    BY QueueNames DEF CallInit, SchedInit, NoForgottenWaiter
  <2> QED BY <1>1, <2>1, <2>2 DEF SchedInv
<1>5. TasksFit
  <2> SUFFICES ASSUME NEW t \in Tasks PROVE TaskFits(t)
    BY DEF TasksFit
  <2>1. \A o \in Objects : owner[o] # t
    BY <1>0 DEF CallInit, SchedInit
  <2>2. owned_internal_mutex_count[t] = 0 /\ ~Holds(t)
    BY <2>1 DEF CallInit, SchedInit, Holds
  <2>3. ~wait[t].wait_cancellable /\ ~wait[t].wake_by_cancel
    BY <1>2 DEF NotWaiting
  <2> QED BY <1>2, <2>1, <2>2, <2>3 DEF TaskFits, Holding
<1>6. ReferencesOK
  <2> SUFFICES ASSUME NEW o \in Objects
               PROVE  refcount[o] = handles[o] + Count(CallOn, Tasks, o) + Count(WaitOn, Tasks, o)
    BY DEF ReferencesOK
  <2>1. \A t \in Tasks : CallOn[t] # o /\ WaitOn[t] # o
    BY <1>0, <1>2 DEF CallOn, WaitOn
  <2>2. Count(CallOn, Tasks, o) = 0 /\ Count(WaitOn, Tasks, o) = 0
    BY <2>1, CountNat, CondvarObjectAssumption
  <2> QED BY <2>2 DEF CallInit
<1> QED BY <1>3, <1>4, <1>5, <1>6 DEF CallInv

\* The invariant counts the references a reader would count.
LEMMA CallInvReferences ==
  ASSUME NEW ops, NEW args, NEW pcs, CallInv(ops, args, pcs)
  PROVE  ReferencesExact
<1> SUFFICES ASSUME NEW o \in Objects
             PROVE  refcount[o] = handles[o] + Cardinality(Callers(o)) + Cardinality({t \in Callers(o) : call[t].op = "wait"})
  BY DEF ReferencesExact
<1>1. {t \in Tasks : CallOn[t] = o} = Callers(o)
  BY DEF CallOn, Callers
<1>2. {t \in Tasks : WaitOn[t] = o} = {t \in Callers(o) : call[t].op = "wait"}
  BY SchedAssumption DEF WaitOn, Callers
<1> QED BY <1>1, <1>2 DEF CallInv, ReferencesOK, Count

\* The invariant contains the assertions of the mutex.
LEMMA CallInvDiscipline ==
  ASSUME NEW ops, NEW args, NEW pcs, CallInv(ops, args, pcs)
  PROVE  MutexDiscipline
<1>1. ASSUME NEW t \in Tasks PROVE TaskFits(t)
  BY DEF CallInv, TasksFit
<1>2. \A t \in Tasks : pc[t] \in {"test", "body", "unlock"} => owner[call[t].obj] = t
  BY <1>1 DEF TaskFits, Holding
<1>3. \A o \in Objects, t \in Tasks : owner[o] = t => call[t].obj = o /\ pc[t] \in {"lock", "test", "body", "unlock"}
  BY <1>1 DEF TaskFits, Holding
<1>4. ASSUME NEW t \in Tasks, pc[t] \in {"idle", "dead", "return"} PROVE ~Blocked(t) /\ owned_internal_mutex_count[t] = 0
  <2>1. ~Blocked(t)
    BY <1>1, <1>4 DEF TaskFits
  <2>2. pc[t] \notin Holding \cup {"lock"}
    BY <1>4 DEF Holding
  <2> QED BY <1>1, <2>1, <2>2, OwnsNothing
<1> QED BY <1>2, <1>3, <1>4 DEF MutexDiscipline

-----------------------------------------------------------------------------
(* Who is parked *)

ParkedAt(u, o) == wait[u].waiting_on = Cv(o)

\* A condition variable's queue is empty exactly if nobody waits on it.
LEMMA EmptyQueue ==
  ASSUME SchedInv, NEW o \in Objects
  PROVE  queue[Cv(o)] = <<>> <=> \A u \in Tasks : ~ParkedAt(u, o)
BY QueueNames, BehindKept DEF ParkedAt

\* A task that another one's step spares is not parked by it.
LEMMA SparedNotParked ==
  ASSUME NEW u \in Tasks, wait[u] \in WaitRecords, Spared(u), NEW o \in Objects
  PROVE  ParkedAt(u, o)' => ParkedAt(u, o)
BY WokenFields, QueueNames DEF Spared, ParkedAt

(* Nobody parks on the condition variable of any object.                   *)
NobodyParks == \A u \in Tasks, o \in Objects : ParkedAt(u, o)' => ParkedAt(u, o)

\* A step of t that does not leave t parked parks nobody.
LEMMA OthersDoNotPark ==
  ASSUME NEW ops, NEW args, NEW pcs, CallInv(ops, args, pcs), CallInv(ops, args, pcs)', NEW t \in Tasks, Others(t),
         pc'[t] # "parked" \/ wait'[t].waiting_on \in {NULL, wait[t].waiting_on}
  PROVE  NobodyParks
<1> SUFFICES ASSUME NEW u \in Tasks, NEW o \in Objects, ParkedAt(u, o)' PROVE ParkedAt(u, o)
  BY DEF NobodyParks
<1>1. CASE u # t
  <2>1. wait[u] \in WaitRecords /\ Spared(u)
    BY <1>1, CallFacts DEF Others
  <2> QED BY <2>1, SparedNotParked
<1>2. CASE u = t
  <2>1. CASE pc'[t] # "parked"
    <3>1. TaskFits(t)' /\ call'[t].obj \in Objects \cup {NULL}
      <4>1. TaskFits(t)'
        BY DEF CallInv, TasksFit
      <4>2. call' \in [Tasks -> CallRecords(ops, args)]
        BY DEF CallInv, CallTypeOK, CallRecords
      <4> QED BY <4>1, <4>2 DEF CallRecords
    <3>2. wait'[t].waiting_on = Cv(o) /\ wait'[t].waiting_on # NULL
      BY <1>2, QueueNames DEF ParkedAt
    <3>3. pc'[t] = "lock" /\ wait'[t].waiting_on = Inner(call'[t].obj)
      BY <2>1, <3>1, <3>2 DEF TaskFits, Blocked
    <3>4. call'[t].obj \in Objects
      BY <3>1, <3>3 DEF TaskFits
    <3> QED BY <3>2, <3>3, <3>4, QueueNames
  <2>2. CASE wait'[t].waiting_on \in {NULL, wait[t].waiting_on}
    BY <1>2, <2>2, QueueNames DEF ParkedAt
  <2> QED BY <2>1, <2>2
<1> QED BY <1>1, <1>2

\* Entering a call, a body, a decision and the steps every object shares park nobody.
LEMMA StepParksNobody ==
  ASSUME NEW ops, NEW args, NEW pcs, CallInv(ops, args, pcs), CallInv(ops, args, pcs)', NEW t \in Tasks, Others(t),
         \/ CallStep(t) \/ BodyDone(t) \/ (\E r \in Results : Decide(t, r))
         \/ (\E o \in Objects, op \in ops, arg \in args \cup {0}, tick \in {"none", "zero", "deadline"} : EnterCall(t, o, op, arg, tick))
  PROVE  NobodyParks
<1>1. pc \in [Tasks -> PCs \cup pcs]
  BY CallFacts
<1>2. \/ pc[t] = "lock" /\ UNCHANGED pc
      \/ \E at \in {"test", "body", "lock", "return", "idle", "unlock"} : pc' = [pc EXCEPT ![t] = at]
  BY DEF CallStep, LockInner, WaitResume, UnlockInner, UnlockTo, ReturnFromCall, BodyDone, Decide, EnterCall, Goto, At
<1>3. pc'[t] # "parked"
  BY <1>1, <1>2
<1> QED BY <1>3, OthersDoNotPark

\* Nor does the environment.
LEMMA EnvironmentParksNobody ==
  ASSUME NEW ops, NEW args, NEW pcs, CallInv(ops, args, pcs), Environment
  PROVE  NobodyParks
<1>0. CallInv(ops, args, pcs)' /\ \A t \in Tasks : pc \in [Tasks -> PCs \cup pcs] /\ SchedInv
  BY SharedKeeps, CallFacts
<1>1. ASSUME NEW t \in Tasks, TaskExit(t) \/ TaskCreate(t) PROVE NobodyParks
  <2>1. Others(t)
    BY <1>1, TaskExitKeeps, TaskCreateKeeps
  <2>2. pc'[t] # "parked"
    BY <1>0, <1>1 DEF TaskExit, TaskCreate, Goto
  <2> QED BY <1>0, <2>1, <2>2, OthersDoNotPark
<1>2. ASSUME NEW t \in Tasks, Timer(t) \/ Kill(t) PROVE NobodyParks
  <2>1. Others(t)
    BY <1>2, TimerKeeps, KillKeeps
  <2>2. wait'[t].waiting_on \in {NULL, wait[t].waiting_on}
    <3>1. CASE OnTimerTick(t)
      BY <1>0, <3>1, TimerKept
    <3>2. CASE SignalTask(t)
      BY <1>0, <3>2, KillKept
    <3>3. CASE UNCHANGED schedVars
      BY <3>3 DEF schedVars
    <3> QED BY <1>2, <3>1, <3>2, <3>3 DEF Timer, DeadlinePasses, Kill
  <2> QED BY <1>0, <2>1, <2>2, OthersDoNotPark
<1>3. ASSUME NEW o \in Objects, CloseHandle(o) PROVE NobodyParks
  BY <1>3 DEF CloseHandle, schedVars, NobodyParks, ParkedAt
<1> QED BY <1>1, <1>2, <1>3 DEF Environment

\* A wait parks on its own object only.
LEMMA WaitParks ==
  ASSUME NEW ops, NEW args, NEW pcs, CallInv(ops, args, pcs), CallInv(ops, args, pcs)', NEW t \in Tasks, Others(t),
         NEW available, WaitPark(t, available)
  PROVE  \A u \in Tasks, o \in Objects : ParkedAt(u, o)' => ParkedAt(u, o) \/ (u = t /\ o = call[t].obj)
<1> SUFFICES ASSUME NEW u \in Tasks, NEW o \in Objects, ParkedAt(u, o)', ~ParkedAt(u, o) PROVE u = t /\ o = call[t].obj
  OBVIOUS
<1>1. u = t
  <2>1. wait[u] \in WaitRecords
    BY CallFacts
  <2> QED BY <2>1, SparedNotParked DEF Others
<1>2. pc[t] = "test" /\ call' = call /\ call[t].obj \in Objects /\ pc \in [Tasks -> PCs \cup pcs]
  BY CallFacts DEF WaitPark, At
<1>3. pc'[t] = "parked"
  BY <1>2 DEF WaitPark, Goto
<1>4. TaskFits(t)'
  BY DEF CallInv, TasksFit
<1>5. wait'[t].waiting_on = Cv(o) /\ wait'[t].waiting_on # NULL
  BY <1>1, QueueNames DEF ParkedAt
<1>6. wait'[t].waiting_on = Cv(call[t].obj)
  BY <1>2, <1>3, <1>4, <1>5 DEF TaskFits, Blocked
<1> QED BY <1>1, <1>2, <1>5, <1>6, QueueNames

-----------------------------------------------------------------------------
(* Outcomes, for objects without a readable wait *)

(* A wait has an outcome from the moment it is decided and not before; no  *)
(* other call has one.                                                     *)
OutcomeFits(t) ==
  \/ /\ call[t].op = "wait" /\ pc[t] \in {"lock", "test", "parked"} /\ call[t].result = "waiting"
  \/ /\ call[t].op = "wait" /\ pc[t] \in {"unlock", "return"} /\ call[t].result \in {"granted", "timedout", "cancelled"}
  \/ /\ call[t].op \notin {"wait", "readable"} /\ call[t].result = "none" /\ call[t].tick = "none"

OutcomesFit == \A t \in Tasks : OutcomeFits(t)

\* Nobody has called yet.
LEMMA OutcomesInit ==
  ASSUME CallInit
  PROVE  OutcomesFit
BY DEF CallInit, NoCall, OutcomesFit, OutcomeFits

\* A step of t leaves the outcomes of the others alone.
LEMMA OutcomesMove ==
  ASSUME OutcomesFit, NEW t \in Tasks, Others(t), OutcomeFits(t)'
  PROVE  OutcomesFit'
<1> SUFFICES ASSUME NEW u \in Tasks PROVE OutcomeFits(u)'
  BY DEF OutcomesFit
<1>1. CASE u # t
  BY <1>1 DEF OutcomesFit, OutcomeFits, Others, Spared
<1> QED BY <1>1

\* Entering: a wait is waiting; only a wait has a timeout.
LEMMA EnterOutcomes ==
  ASSUME NEW ops, NEW args, NEW pcs, CallInv(ops, args, pcs), OutcomesFit, NEW t \in Tasks, Others(t),
         NEW o \in Objects, NEW op, op # "readable", NEW arg, NEW tick, op = "wait" \/ tick = "none", EnterCall(t, o, op, arg, tick)
  PROVE  OutcomesFit'
<1>1. call \in [Tasks -> CallRecords(ops, args)] /\ pc \in [Tasks -> PCs \cup pcs]
  BY CallFacts
<1>2. /\ pc'[t] = "lock" /\ call'[t].op = op /\ call'[t].tick = tick
      /\ call'[t].result = IF op = "wait" THEN "waiting" ELSE "none"
  BY <1>1 DEF EnterCall, Goto
<1>3. OutcomeFits(t)'
  BY <1>2 DEF OutcomeFits
<1> QED BY <1>3, OutcomesMove

\* The steps every object shares decide nothing.
LEMMA StepOutcomes ==
  ASSUME NEW ops, NEW args, NEW pcs, CallInv(ops, args, pcs), OutcomesFit, NEW t \in Tasks, Others(t), CallStep(t) \/ BodyDone(t)
  PROVE  OutcomesFit'
<1>1. /\ call \in [Tasks -> CallRecords(ops, args)] /\ pc \in [Tasks -> PCs \cup pcs] /\ call[t] \in CallRecords(ops, args)
      /\ OutcomeFits(t)
  BY CallFacts DEF OutcomesFit
<1>2. CASE LockInner(t)
  <2>1. /\ pc[t] = "lock" /\ UNCHANGED call
        /\ pc' = pc \/ pc' = [pc EXCEPT ![t] = IF IsWait(t) THEN "test" ELSE "body"]
    BY <1>2 DEF LockInner, At, Goto
  <2>2. OutcomeFits(t)'
    BY <1>1, <2>1 DEF OutcomeFits, IsWait
  <2> QED BY <2>2, OutcomesMove
<1>3. CASE WaitResume(t)
  <2>1. /\ pc[t] = "parked" /\ pc'[t] = "lock"
        /\ call'[t].op = call[t].op /\ call'[t].tick = call[t].tick /\ call'[t].result = call[t].result
    BY <1>1, <1>3 DEF WaitResume, At, Goto, CallRecords
  <2>2. OutcomeFits(t)'
    BY <1>1, <2>1 DEF OutcomeFits
  <2> QED BY <2>2, OutcomesMove
<1>4. CASE UnlockInner(t)
  <2>1. pc[t] = "unlock" /\ pc'[t] = "return" /\ UNCHANGED call
    BY <1>1, <1>4 DEF UnlockInner, UnlockTo, At, Goto
  <2>2. OutcomeFits(t)'
    BY <1>1, <2>1 DEF OutcomeFits
  <2> QED BY <2>2, OutcomesMove
<1>5. CASE ReturnFromCall(t)
  <2>1. call'[t] = NoCall
    BY <1>1, <1>5 DEF ReturnFromCall
  <2>2. OutcomeFits(t)'
    BY <2>1 DEF OutcomeFits, NoCall
  <2> QED BY <2>2, OutcomesMove
<1>6. CASE BodyDone(t)
  <2>1. pc[t] = "body" /\ pc'[t] = "unlock" /\ UNCHANGED call
    BY <1>1, <1>6 DEF BodyDone, At, Goto
  <2>2. OutcomeFits(t)'
    BY <1>1, <2>1 DEF OutcomeFits
  <2> QED BY <2>2, OutcomesMove
<1> QED BY <1>2, <1>3, <1>4, <1>5, <1>6 DEF CallStep

\* A decision is the outcome of a wait.
LEMMA DecideOutcomes ==
  ASSUME NEW ops, NEW args, NEW pcs, CallInv(ops, args, pcs), OutcomesFit, NEW t \in Tasks, Others(t), pc[t] = "test",
         NEW r \in {"granted", "timedout", "cancelled"}, Decide(t, r)
  PROVE  OutcomesFit'
<1>1. /\ call \in [Tasks -> CallRecords(ops, args)] /\ pc \in [Tasks -> PCs \cup pcs] /\ call[t] \in CallRecords(ops, args)
      /\ OutcomeFits(t) /\ TaskFits(t)
  BY CallFacts DEF OutcomesFit
<1>2. pc'[t] = "unlock" /\ call'[t].op = call[t].op /\ call'[t].result = r
  BY <1>1 DEF Decide, Goto, CallRecords
<1>3. call[t].op = "wait"
  BY <1>1 DEF OutcomeFits, TaskFits, IsWait
<1>4. OutcomeFits(t)'
  BY <1>2, <1>3 DEF OutcomeFits
<1> QED BY <1>4, OutcomesMove

\* Parking is not an outcome.
LEMMA ParkOutcomes ==
  ASSUME NEW ops, NEW args, NEW pcs, CallInv(ops, args, pcs), OutcomesFit, NEW t \in Tasks, Others(t),
         NEW available, WaitPark(t, available)
  PROVE  OutcomesFit'
<1>1. pc \in [Tasks -> PCs \cup pcs] /\ OutcomeFits(t) /\ TaskFits(t)
  BY CallFacts DEF OutcomesFit
<1>2. pc[t] = "test" /\ pc'[t] = "parked" /\ UNCHANGED call
  BY <1>1 DEF WaitPark, At, Goto
<1>3. OutcomeFits(t)'
  BY <1>1, <1>2 DEF OutcomeFits, TaskFits, IsWait
<1> QED BY <1>3, OutcomesMove

\* The environment decides nothing either.
LEMMA EnvironmentOutcomes ==
  ASSUME NEW ops, NEW args, NEW pcs, CallInv(ops, args, pcs), OutcomesFit, Environment
  PROVE  OutcomesFit'
<1>1. ASSUME NEW t \in Tasks, TaskExit(t) \/ TaskCreate(t) PROVE OutcomesFit'
  <2>1. Others(t) /\ OutcomeFits(t) /\ TaskFits(t) /\ pc[t] \in {"idle", "dead"} /\ UNCHANGED call
    BY <1>1, TaskExitKeeps, TaskCreateKeeps, CallFacts DEF OutcomesFit, TaskExit, TaskCreate, At
  <2>2. OutcomeFits(t)'
    BY <2>1 DEF OutcomeFits, TaskFits, NoCall
  <2> QED BY <2>1, <2>2, OutcomesMove
<1>2. ASSUME NEW t \in Tasks, Timer(t) \/ Kill(t) PROVE OutcomesFit'
  <2>1. Others(t) /\ OutcomeFits(t) /\ call \in [Tasks -> CallRecords(ops, args)] /\ call[t] \in CallRecords(ops, args) /\ UNCHANGED pc
    BY <1>2, TimerKeeps, KillKeeps, CallFacts DEF OutcomesFit, Timer, DeadlinePasses, Kill, callVars
  <2>2. CASE UNCHANGED call
    <3>1. OutcomeFits(t)'
      BY <2>1, <2>2 DEF OutcomeFits
    <3> QED BY <2>1, <3>1, OutcomesMove
  <2>3. CASE DeadlinePasses(t)
    <3>1. call[t].tick = "deadline" /\ call'[t].op = call[t].op /\ call'[t].result = call[t].result
      BY <2>1, <2>3 DEF DeadlinePasses, CallRecords
    <3>2. OutcomeFits(t)'
      BY <2>1, <3>1 DEF OutcomeFits
    <3> QED BY <2>1, <3>2, OutcomesMove
  <2> QED BY <1>2, <2>2, <2>3 DEF Timer, Kill, callVars
<1>3. ASSUME NEW o \in Objects, CloseHandle(o) PROVE OutcomesFit'
  BY <1>3 DEF CloseHandle, OutcomesFit, OutcomeFits
<1> QED BY <1>1, <1>2, <1>3 DEF Environment

-----------------------------------------------------------------------------
(* What a client of an object sees of its waits *)

Outcomes(o) == [t \in Tasks |-> IF call[t].obj = o THEN call[t].result ELSE "none"]
Timed(o) == [t \in Tasks |-> call[t].obj = o /\ call[t].tick # "none"]

Hidden(o) == Outcomes(o)' = Outcomes(o) /\ Timed(o)' = Timed(o)
OnlyAt(o) == \A p \in Objects \ {o} : Hidden(p)

Begins(t, o, patience) ==
  /\ Outcomes(o)[t] = "none" /\ Outcomes(o)' = [Outcomes(o) EXCEPT ![t] = "waiting"]
  /\ Timed(o)' = [Timed(o) EXCEPT ![t] = patience]

Ends(t, o) ==
  /\ Outcomes(o)[t] \in {"granted", "timedout", "cancelled"} /\ Outcomes(o)' = [Outcomes(o) EXCEPT ![t] = "none"]
  /\ Timed(o)' = [Timed(o) EXCEPT ![t] = FALSE]

Concludes(t, o, r) ==
  Outcomes(o)[t] = "waiting" /\ Outcomes(o)' = [Outcomes(o) EXCEPT ![t] = r] /\ Timed(o)' = Timed(o)

\* A step of t changes what is seen of t's wait alone.
LEMMA OneWaitSeen ==
  ASSUME NEW t \in Tasks, \A u \in Tasks \ {t} : call'[u] = call[u], NEW o
  PROVE  /\ Outcomes(o)' = [Outcomes(o) EXCEPT ![t] = IF call'[t].obj = o THEN call'[t].result ELSE "none"]
         /\ Timed(o)' = [Timed(o) EXCEPT ![t] = call'[t].obj = o /\ call'[t].tick # "none"]
         /\ Outcomes(o)[t] = IF call[t].obj = o THEN call[t].result ELSE "none"
         /\ Timed(o)[t] = (call[t].obj = o /\ call[t].tick # "none")
BY DEF Outcomes, Timed

\* Nothing is seen where t's call looks the same before and after.
LEMMA NothingSeen ==
  ASSUME NEW t \in Tasks, \A u \in Tasks \ {t} : call'[u] = call[u], NEW o,
         \/ call'[t].obj = call[t].obj /\ call'[t].result = call[t].result /\ (call'[t].tick # "none" <=> call[t].tick # "none")
         \/ /\ call[t].obj # o \/ (call[t].result = "none" /\ call[t].tick = "none")
            /\ call'[t].obj # o \/ (call'[t].result = "none" /\ call'[t].tick = "none")
  PROVE  Hidden(o)
BY DEF Hidden, Outcomes, Timed

\* Entering a wait begins it; entering another call is not seen.
LEMMA EnterSeen ==
  ASSUME NEW ops, NEW args, NEW pcs, CallInv(ops, args, pcs), NEW t \in Tasks, NEW o \in Objects,
         NEW op, NEW arg, NEW tick, op = "wait" \/ tick = "none", EnterCall(t, o, op, arg, tick)
  PROVE  /\ IF op = "wait" THEN Begins(t, o, tick # "none") ELSE Hidden(o)
         /\ OnlyAt(o) /\ UNCHANGED kill_ticket
<1>1. call \in [Tasks -> CallRecords(ops, args)] /\ TaskFits(t) /\ pc[t] = "idle"
  BY CallFacts DEF EnterCall, At
<1>2. call[t].obj = NULL /\ call[t].result = "none" /\ call[t].tick = "none"
  BY <1>1 DEF TaskFits, NoCall
<1>3. /\ call'[t].obj = o /\ call'[t].tick = tick /\ call'[t].result = IF op = "wait" THEN "waiting" ELSE "none"
      /\ \A u \in Tasks \ {t} : call'[u] = call[u]
  BY <1>1 DEF EnterCall
<1>4. CASE op = "wait"
  <2>1. Begins(t, o, tick # "none")
    BY <1>2, <1>3, <1>4, OneWaitSeen, SchedAssumption DEF Begins
  <2>2. OnlyAt(o)
    BY <1>2, <1>3, NothingSeen DEF OnlyAt
  <2> QED BY <1>4, <2>1, <2>2 DEF EnterCall, schedVars
<1>5. CASE op # "wait"
  <2>1. Hidden(o) /\ OnlyAt(o)
    BY <1>2, <1>3, <1>5, NothingSeen DEF OnlyAt
  <2> QED BY <1>5, <2>1 DEF EnterCall, schedVars
<1> QED BY <1>4, <1>5

\* Returning from a wait ends it; returning from another call is not seen.
LEMMA ReturnSeen ==
  ASSUME NEW ops, NEW args, NEW pcs, CallInv(ops, args, pcs), OutcomesFit, NEW t \in Tasks, ReturnFromCall(t)
  PROVE  /\ call[t].obj \in Objects /\ OnlyAt(call[t].obj) /\ UNCHANGED kill_ticket
         /\ Hidden(call[t].obj) \/ Ends(t, call[t].obj)
<1>1. /\ call \in [Tasks -> CallRecords(ops, args)] /\ OutcomeFits(t) /\ pc[t] = "return" /\ call[t].obj \in Objects
      /\ UNCHANGED kill_ticket
  BY CallFacts DEF ReturnFromCall, At, OutcomesFit, schedVars
<1> SUFFICES ASSUME NEW o \in Objects, o = call[t].obj
             PROVE  OnlyAt(o) /\ (Hidden(o) \/ Ends(t, o))
  BY <1>1
<1>2. /\ call'[t].obj = NULL /\ call'[t].tick = "none" /\ call'[t].result = "none"
      /\ \A u \in Tasks \ {t} : call'[u] = call[u]
  BY <1>1 DEF ReturnFromCall, NoCall
<1>3. OnlyAt(o)
  BY <1>2, NothingSeen DEF OnlyAt
<1>4. CASE call[t].op = "wait"
  <2>1. call[t].result \in {"granted", "timedout", "cancelled"}
    BY <1>1, <1>4 DEF OutcomeFits
  <2>2. Ends(t, o)
    BY <1>2, <2>1, OneWaitSeen, SchedAssumption DEF Ends
  <2> QED BY <1>3, <2>2
<1>5. CASE call[t].op # "wait"
  <2>1. call[t].result = "none" /\ call[t].tick = "none"
    BY <1>1, <1>5 DEF OutcomeFits
  <2>2. Hidden(o)
    BY <1>2, <2>1, NothingSeen
  <2> QED BY <1>3, <2>2
<1> QED BY <1>4, <1>5

\* A decision concludes the wait with its result.
LEMMA DecideSeen ==
  ASSUME NEW ops, NEW args, NEW pcs, CallInv(ops, args, pcs), OutcomesFit, NEW t \in Tasks, pc[t] = "test",
         NEW r, Decide(t, r)
  PROVE  /\ call[t].obj \in Objects /\ OnlyAt(call[t].obj) /\ UNCHANGED kill_ticket
         /\ Concludes(t, call[t].obj, r) /\ Timed(call[t].obj)[t] = (call[t].tick # "none")
<1>1. /\ call \in [Tasks -> CallRecords(ops, args)] /\ call[t] \in CallRecords(ops, args) /\ OutcomeFits(t)
      /\ TaskFits(t) /\ call[t].obj \in Objects /\ UNCHANGED kill_ticket
  BY CallFacts DEF OutcomesFit, Decide, schedVars
<1> SUFFICES ASSUME NEW o \in Objects, o = call[t].obj
             PROVE  OnlyAt(o) /\ Concludes(t, o, r) /\ Timed(o)[t] = (call[t].tick # "none")
  BY <1>1
<1>2. /\ call'[t].obj = o /\ call'[t].tick = call[t].tick /\ call'[t].result = r
      /\ \A u \in Tasks \ {t} : call'[u] = call[u]
  BY <1>1 DEF Decide, CallRecords
<1>3. call[t].result = "waiting"
  BY <1>1 DEF OutcomeFits, TaskFits, IsWait
<1>4. OnlyAt(o)
  BY <1>2, NothingSeen DEF OnlyAt
<1>5. Timed(o)' = Timed(o)
  BY <1>2 DEF Timed
<1>6. Outcomes(o)[t] = "waiting" /\ Outcomes(o)' = [Outcomes(o) EXCEPT ![t] = r] /\ Timed(o)[t] = (call[t].tick # "none")
  BY <1>2, <1>3, OneWaitSeen
<1> QED BY <1>4, <1>5, <1>6 DEF Concludes

\* The other steps of a call are not seen.
LEMMA StepSeen ==
  ASSUME NEW ops, NEW args, NEW pcs, CallInv(ops, args, pcs), NEW t \in Tasks,
         LockInner(t) \/ UnlockInner(t) \/ WaitResume(t) \/ BodyDone(t) \/ (\E available : WaitPark(t, available))
  PROVE  \A o \in Objects : Hidden(o)
<1>1. call \in [Tasks -> CallRecords(ops, args)] /\ call[t] \in CallRecords(ops, args)
  BY CallFacts
<1>2. \A u \in Tasks \ {t} : call'[u] = call[u]
  BY <1>1 DEF LockInner, UnlockInner, WaitResume, BodyDone, WaitPark
<1>3. call'[t].obj = call[t].obj /\ call'[t].result = call[t].result /\ call'[t].tick = call[t].tick
  BY <1>1 DEF LockInner, UnlockInner, WaitResume, BodyDone, WaitPark, CallRecords
<1> QED BY <1>2, <1>3, NothingSeen

(* The kill tickets change by one kill, or by one fresh task in no wait.   *)
TicketMoves(t) ==
  \/ UNCHANGED kill_ticket
  \/ ~kill_ticket[t] /\ kill_ticket' = [kill_ticket EXCEPT ![t] = TRUE]
  \/ /\ \A o \in Objects : Outcomes(o)[t] = "none"
     /\ kill_ticket[t] /\ kill_ticket' = [kill_ticket EXCEPT ![t] = FALSE]

\* Of the environment a kill and the reuse of a dead task's storage are seen.
LEMMA EnvironmentSeen ==
  ASSUME NEW ops, NEW args, NEW pcs, CallInv(ops, args, pcs), Environment
  PROVE  (\A o \in Objects : Hidden(o)) /\ (UNCHANGED kill_ticket \/ \E t \in Tasks : TicketMoves(t))
<1>1. ASSUME NEW t \in Tasks, TaskExit(t) PROVE (\A o \in Objects : Hidden(o)) /\ UNCHANGED kill_ticket
  BY <1>1 DEF TaskExit, Hidden, Outcomes, Timed, schedVars
<1>2. ASSUME NEW t \in Tasks, TaskCreate(t) PROVE (\A o \in Objects : Hidden(o)) /\ TicketMoves(t)
  <2>1. TaskFits(t) /\ pc[t] = "dead" /\ kill_ticket' = [kill_ticket EXCEPT ![t] = FALSE] /\ UNCHANGED call
    BY <1>2, CallFacts DEF TaskCreate
  <2>2. kill_ticket[t] /\ call[t].obj = NULL
    BY <2>1 DEF TaskFits
  <2>3. \A o \in Objects : Outcomes(o)[t] = "none" /\ Hidden(o)
    BY <2>1, <2>2, SchedAssumption DEF Outcomes, Hidden, Timed
  <2> QED BY <2>1, <2>2, <2>3 DEF TicketMoves
<1>3. ASSUME NEW t \in Tasks, DeadlinePasses(t) PROVE (\A o \in Objects : Hidden(o)) /\ UNCHANGED kill_ticket
  <2>1. call \in [Tasks -> CallRecords(ops, args)] /\ call[t] \in CallRecords(ops, args)
    BY CallFacts
  <2>2. /\ call[t].tick = "deadline" /\ call'[t].tick = "past" /\ call'[t].obj = call[t].obj /\ call'[t].result = call[t].result
        /\ \A u \in Tasks \ {t} : call'[u] = call[u]
    BY <1>3, <2>1 DEF DeadlinePasses, CallRecords
  <2> QED BY <1>3, <2>2, NothingSeen DEF DeadlinePasses, schedVars
<1>4. ASSUME NEW t \in Tasks, OnTimerTick(t), UNCHANGED callVars PROVE (\A o \in Objects : Hidden(o)) /\ UNCHANGED kill_ticket
  BY <1>4 DEF OnTimerTick, callVars, Hidden, Outcomes, Timed
<1>5. ASSUME NEW t \in Tasks, Kill(t) PROVE (\A o \in Objects : Hidden(o)) /\ TicketMoves(t)
  BY <1>5 DEF Kill, SignalTask, KillPending, callVars, Hidden, Outcomes, Timed, TicketMoves
<1>6. ASSUME NEW o \in Objects, CloseHandle(o) PROVE (\A p \in Objects : Hidden(p)) /\ UNCHANGED kill_ticket
  BY <1>6 DEF CloseHandle, Hidden, Outcomes, Timed, schedVars
<1> QED BY <1>1, <1>2, <1>3, <1>4, <1>5, <1>6 DEF Environment, Timer
=============================================================================
