-------------------------- MODULE SchedSyncProofs --------------------------
(***************************************************************************)
(* What the scheduler's sleeping primitives keep, whoever calls them: the  *)
(* wait queues stay well linked (QueuesConsistent) and a mutex with a      *)
(* waiter has an owner (NoForgottenWaiter).  One lemma per primitive; the  *)
(* proofs about the kernel objects cite them.                              *)
(***************************************************************************)
EXTENDS SchedSync, FiniteSetTheorems, TLAPS

(* A task is linked in a queue; a queue links no task twice.               *)
Linked(s, t) == \E i \in 1..Len(s) : s[i] = t
Once(s) == \A i, j \in 1..Len(s) : s[i] = s[j] => i = j

SchedInv == SchedTypeOK /\ QueuesConsistent /\ NoForgottenWaiter

-----------------------------------------------------------------------------
(* Counting the places at which a function has a value *)

Count(f, S, v) == Cardinality({x \in S : f[x] = v})

One(a, b) == IF a = b THEN 1 ELSE 0

\* A count over a finite domain is a natural number, zero exactly if no place has the value.
LEMMA CountNat ==
  ASSUME NEW S, IsFiniteSet(S), NEW f, NEW v
  PROVE  /\ Count(f, S, v) \in Nat
         /\ Count(f, S, v) = 0 <=> \A x \in S : f[x] # v
<1> DEFINE A == {x \in S : f[x] = v}
<1>1. IsFiniteSet(A)
  BY FS_Subset
<1>2. Cardinality(A) \in Nat /\ (Cardinality(A) = 0 <=> A = {})
  BY <1>1, FS_CardinalityType, FS_EmptySet
<1> QED BY <1>2 DEF Count

\* g is f but for what it has at x.
OneChange(f, g, S, x) == IsFiniteSet(S) /\ x \in S /\ \A y \in S : y # x => g[y] = f[y]

\* Counting occurrences: a change at x moves one unit from f[x] to g[x].
LEMMA CountUpdate ==
  ASSUME NEW S, NEW f, NEW g, NEW x, NEW v, OneChange(f, g, S, x)
  PROVE  Count(g, S, v) + One(f[x], v) = Count(f, S, v) + One(g[x], v)
<1> DEFINE A == {y \in S : f[y] = v}
           B == {y \in S : g[y] = v}
<1>0. x \in S /\ \A y \in S : y # x => g[y] = f[y]
  BY DEF OneChange
<1>1. IsFiniteSet(A) /\ IsFiniteSet(B)
  BY FS_Subset DEF OneChange
<1>2. Cardinality(A) \in Nat /\ Cardinality(B) \in Nat
  BY <1>1, FS_CardinalityType
<1>3. CASE f[x] = v /\ g[x] = v
  <2>1. A = B
    BY <1>0, <1>3
  <2> QED BY <1>2, <1>3, <2>1 DEF Count, One
<1>4. CASE f[x] # v /\ g[x] # v
  <2>1. A = B
    BY <1>0, <1>4
  <2> QED BY <1>2, <1>4, <2>1 DEF Count, One
<1>5. CASE f[x] = v /\ g[x] # v
  <2>1. x \in A /\ B = A \ {x}
    BY <1>0, <1>5
  <2>2. Cardinality(B) = Cardinality(A) - 1
    BY <1>1, <2>1, FS_RemoveElement
  <2> QED BY <1>2, <1>5, <2>2 DEF Count, One
<1>6. CASE f[x] # v /\ g[x] = v
  <2>1. x \notin A /\ B = A \cup {x}
    BY <1>0, <1>6
  <2>2. Cardinality(B) = Cardinality(A) + 1
    BY <1>1, <2>1, FS_AddElement
  <2> QED BY <1>2, <1>6, <2>2 DEF Count, One
<1> QED BY <1>3, <1>4, <1>5, <1>6

-----------------------------------------------------------------------------
(* The queue operations *)

\* Enqueueing at the tail links exactly one task more.
LEMMA AppendLinks ==
  ASSUME NEW S, NEW s \in Seq(S), NEW t \in S, Once(s), ~Linked(s, t)
  PROVE  /\ Append(s, t) \in Seq(S) /\ Append(s, t) # <<>> /\ Once(Append(s, t))
         /\ \A u : Linked(Append(s, t), u) <=> Linked(s, u) \/ u = t
<1> DEFINE a == Append(s, t)
           n == Len(s)
<1>1. n \in Nat /\ a \in Seq(S) /\ Len(a) = n + 1 /\ a[n + 1] = t /\ \A i \in 1..n : a[i] = s[i]
  OBVIOUS
<1>2. a # <<>>
  BY <1>1
<1> HIDE DEF a
<1>3. Once(a)
  <2> SUFFICES ASSUME NEW i \in 1..n + 1, NEW j \in 1..n + 1, a[i] = a[j]
               PROVE  i = j
    BY <1>1 DEF Once
  <2>1. CASE i \in 1..n /\ j \in 1..n
    BY <1>1, <2>1 DEF Once
  <2>2. CASE i = n + 1 /\ j \in 1..n
    BY <1>1, <2>2 DEF Linked
  <2>3. CASE i \in 1..n /\ j = n + 1
    BY <1>1, <2>3 DEF Linked
  <2> QED BY <1>1, <2>1, <2>2, <2>3
<1>4. ASSUME NEW u PROVE Linked(a, u) <=> Linked(s, u) \/ u = t
  <2>1. ASSUME Linked(a, u) PROVE Linked(s, u) \/ u = t
    <3>1. PICK i \in 1..n + 1 : a[i] = u
      BY <1>1, <2>1 DEF Linked
    <3>2. i \in 1..n \/ i = n + 1
      BY <1>1
    <3> QED BY <1>1, <3>1, <3>2 DEF Linked
  <2>2. ASSUME Linked(s, u) PROVE Linked(a, u)
    <3>1. PICK i \in 1..n : s[i] = u
      BY <2>2 DEF Linked
    <3>2. i \in 1..n + 1
      BY <1>1
    <3> QED BY <1>1, <3>1, <3>2 DEF Linked
  <2>3. ASSUME u = t PROVE Linked(a, u)
    <3>1. n + 1 \in 1..n + 1
      BY <1>1
    <3> QED BY <1>1, <2>3, <3>1 DEF Linked
  <2> QED BY <2>1, <2>2, <2>3
<1> QED BY <1>1, <1>2, <1>3, <1>4 DEF a

\* Dequeueing from a queue that is not empty unlinks its head and nothing else.
LEMMA BehindLinks ==
  ASSUME NEW S, NEW s \in Seq(S), s # <<>>, Once(s)
  PROVE  /\ Head(s) \in S /\ Linked(s, Head(s))
         /\ Behind(s) \in Seq(S) /\ Once(Behind(s))
         /\ \A u : Linked(Behind(s), u) <=> Linked(s, u) /\ u # Head(s)
<1> DEFINE b == Behind(s)
           n == Len(s)
<1>1. n \in Nat \ {0} /\ Head(s) = s[1] /\ s[1] \in S /\ b = Tail(s)
  BY DEF Behind
<1>2. b \in Seq(S) /\ Len(b) = n - 1 /\ \A i \in 1..n - 1 : b[i] = s[i + 1]
  BY <1>1
<1>3. 1 \in 1..n /\ \A i \in 1..n - 1 : i + 1 \in 1..n
  BY <1>1
<1> HIDE DEF b
<1>4. Once(b)
  <2> SUFFICES ASSUME NEW i \in 1..n - 1, NEW j \in 1..n - 1, b[i] = b[j]
               PROVE  i = j
    BY <1>1, <1>2 DEF Once
  <2>1. s[i + 1] = s[j + 1] /\ i + 1 \in 1..n /\ j + 1 \in 1..n
    BY <1>2, <1>3
  <2> QED BY <2>1 DEF Once
<1>5. ASSUME NEW u PROVE Linked(b, u) <=> Linked(s, u) /\ u # Head(s)
  <2>1. ASSUME Linked(b, u) PROVE Linked(s, u) /\ u # Head(s)
    <3>1. PICK i \in 1..n - 1 : b[i] = u
      BY <1>1, <1>2, <2>1 DEF Linked
    <3>2. s[i + 1] = u /\ i + 1 \in 1..n /\ i + 1 # 1
      BY <1>2, <1>3, <3>1
    <3> QED BY <1>1, <1>3, <3>2 DEF Linked, Once
  <2>2. ASSUME Linked(s, u), u # Head(s) PROVE Linked(b, u)
    <3>1. PICK i \in 1..n : s[i] = u
      BY <2>2 DEF Linked
    <3>2. i # 1 /\ i - 1 \in 1..n - 1 /\ (i - 1) + 1 = i
      BY <1>1, <2>2, <3>1
    <3>3. b[i - 1] = u
      BY <1>2, <3>1, <3>2
    <3> QED BY <1>2, <3>2, <3>3 DEF Linked
  <2> QED BY <2>1, <2>2
<1> QED BY <1>1, <1>2, <1>3, <1>4, <1>5 DEF b, Linked

\* Unlinking a task leaves the others linked once, in a queue that is empty if it was.
LEMMA UnlinkLinks ==
  ASSUME NEW S, NEW s \in Seq(S), NEW t, Once(s)
  PROVE  /\ Unlink(s, t) \in Seq(S) /\ Once(Unlink(s, t))
         /\ s = <<>> => Unlink(s, t) = <<>>
         /\ \A u : Linked(Unlink(s, t), u) <=> Linked(s, u) /\ u # t
<1> DEFINE b == Unlink(s, t)
           n == Len(s)
<1>0. n \in Nat /\ \A i \in 1..n : s[i] \in S
  OBVIOUS
<1>1. CASE ~Linked(s, t)
  <2>1. b = s
    BY <1>1 DEF Unlink, Linked
  <2> QED BY <1>1, <2>1 DEF Linked
<1>2. CASE Linked(s, t)
  <2> DEFINE p == CHOOSE i \in 1..n : s[i] = t
  <2>1. p \in 1..n /\ s[p] = t
    BY <1>2 DEF Linked
  <2>2. b = [i \in 1..(n - 1) |-> IF i < p THEN s[i] ELSE s[i + 1]]
    BY <1>2 DEF Unlink, Linked
  <2> HIDE DEF p, b
  <2>3. n - 1 \in Nat /\ \A i \in 1..n - 1 : i \in 1..n /\ i + 1 \in 1..n
    BY <1>0, <2>1
  <2>4. b \in Seq(S) /\ Len(b) = n - 1
    BY <1>0, <2>2, <2>3
  <2>5. \A i \in 1..n - 1 : b[i] = IF i < p THEN s[i] ELSE s[i + 1]
    BY <2>2
  <2>6. s # <<>>
    BY <2>1
  <2>7. \A i \in 1..n : s[i] = t => i = p
    BY <2>1 DEF Once
  <2>8. Once(b)
    <3> SUFFICES ASSUME NEW i \in 1..n - 1, NEW j \in 1..n - 1, b[i] = b[j]
                 PROVE  i = j
      BY <2>4 DEF Once
    <3> QED BY <1>0, <2>1, <2>3, <2>5 DEF Once
  <2>9. ASSUME NEW u PROVE Linked(b, u) <=> Linked(s, u) /\ u # t
    <3>1. ASSUME Linked(b, u) PROVE Linked(s, u) /\ u # t
      <4>1. PICK i \in 1..n - 1 : b[i] = u
        BY <2>4, <3>1 DEF Linked
      <4>2. CASE i < p
        BY <2>3, <2>5, <2>7, <4>1, <4>2 DEF Linked
      <4>3. CASE ~(i < p)
        <5>1. s[i + 1] = u /\ i + 1 \in 1..n /\ i + 1 # p
          BY <1>0, <2>1, <2>3, <2>5, <4>1, <4>3
        <5> QED BY <2>7, <5>1 DEF Linked
      <4> QED BY <4>2, <4>3
    <3>2. ASSUME Linked(s, u), u # t PROVE Linked(b, u)
      <4>1. PICK i \in 1..n : s[i] = u
        BY <3>2 DEF Linked
      <4>2. i # p
        BY <2>1, <3>2, <4>1
      <4>3. CASE i < p
        <5>1. i \in 1..n - 1
          BY <1>0, <2>1, <4>3
        <5>2. b[i] = u
          BY <2>5, <4>1, <4>3, <5>1
        <5> QED BY <2>4, <5>1, <5>2 DEF Linked
      <4>4. CASE ~(i < p)
        <5>1. i - 1 \in 1..n - 1 /\ ~(i - 1 < p) /\ (i - 1) + 1 = i
          BY <1>0, <2>1, <4>2, <4>4
        <5>2. b[i - 1] = u
          BY <2>5, <4>1, <5>1
        <5> QED BY <2>4, <5>1, <5>2 DEF Linked
      <4> QED BY <4>3, <4>4
    <3> QED BY <3>1, <3>2
  <2> QED BY <2>4, <2>6, <2>8, <2>9 DEF b
<1> QED BY <1>1, <1>2

-----------------------------------------------------------------------------
(* The primitives *)

\* QueuesConsistent in terms of Once and Linked.
LEMMA WellLinked ==
  QueuesConsistent <=>
    /\ \A q \in WaitQueues : Once(queue[q])
    /\ \A q \in WaitQueues, t \in Tasks : Linked(queue[q], t) <=> wait[t].waiting_on = q
BY DEF QueuesConsistent, Once, Linked

\* The same of the next state.
LEMMA WellLinkedNext ==
  QueuesConsistent' <=>
    /\ \A q \in WaitQueues : Once(queue'[q])
    /\ \A q \in WaitQueues, t \in Tasks : Linked(queue'[q], t) <=> wait'[t].waiting_on = q
BY DEF QueuesConsistent, Once, Linked

\* The queues of an object are different, and none is the null pointer.
LEMMA QueueNames ==
  /\ NULL \notin WaitQueues
  /\ \A o \in Objects : Inner(o) \in WaitQueues /\ Cv(o) \in WaitQueues /\ Inner(o) # NULL /\ Cv(o) # NULL
  /\ \A o, p \in Objects : Inner(o) # Cv(p) /\ (Inner(o) = Inner(p) => o = p) /\ (Cv(o) = Cv(p) => o = p)
BY SchedAssumption DEF WaitQueues, Inner, Cv

\* The fields of a wait record, and what each of its updates makes of waiting_on.
LEMMA WaitUpdates ==
  ASSUME NEW w \in WaitRecords
  PROVE  /\ Woken(w) \in WaitRecords /\ Woken(w).waiting_on = NULL
         /\ TimedOut(w) \in WaitRecords /\ TimedOut(w).waiting_on = NULL
         /\ Detached(w) \in WaitRecords /\ Detached(w).waiting_on = NULL
BY DEF Woken, TimedOut, Detached, WaitRecords, WakeTicks

\* A park enters the queue and arms the deadline; the other fields stay typed.
LEMMA ParkUpdates ==
  ASSUME NEW w \in WaitRecords, NEW q \in WaitQueues, NEW tick \in WakeTicks
  PROVE  ParkedOn(w, q, tick) \in WaitRecords /\ ParkedOn(w, q, tick).waiting_on = q
BY DEF ParkedOn, WaitRecords

\* Whether a wait may be cancelled is a field of its own.
LEMMA CancellableUpdate ==
  ASSUME NEW w \in WaitRecords, NEW c \in BOOLEAN
  PROVE  /\ [w EXCEPT !.wait_cancellable = c] \in WaitRecords
         /\ [w EXCEPT !.wait_cancellable = c].waiting_on = w.waiting_on
         /\ [w EXCEPT !.wait_cancellable = c].wake_by_timeout = w.wake_by_timeout
BY DEF WaitRecords

\* The head of a mutex's queue is blocked on it; without one nobody is.
LEMMA SuccessorFacts ==
  ASSUME SchedInv, NEW o \in Objects
  PROVE  \/ /\ Successor(o) = NULL /\ queue[Inner(o)] = <<>>
            /\ \A u \in Tasks : wait[u].waiting_on # Inner(o)
         \/ /\ Successor(o) \in Tasks /\ queue[Inner(o)] # <<>> /\ Successor(o) = Head(queue[Inner(o)])
            /\ wait[Successor(o)].waiting_on = Inner(o) /\ Blocked(Successor(o))
            /\ owner[o] # NULL
<1>1. Inner(o) \in WaitQueues /\ Inner(o) # NULL
  BY QueueNames
<1>2. queue[Inner(o)] \in Seq(Tasks)
  BY <1>1 DEF SchedInv, SchedTypeOK
<1>3. Once(queue[Inner(o)]) /\ \A u \in Tasks : Linked(queue[Inner(o)], u) <=> wait[u].waiting_on = Inner(o)
  BY <1>1, WellLinked DEF SchedInv
<1>4. CASE queue[Inner(o)] = <<>>
  <2>1. \A u : ~Linked(queue[Inner(o)], u)
    BY <1>4 DEF Linked
  <2> QED BY <1>3, <1>4, <2>1 DEF Successor
<1>5. CASE queue[Inner(o)] # <<>>
  <2>1. Head(queue[Inner(o)]) \in Tasks /\ Linked(queue[Inner(o)], Head(queue[Inner(o)]))
    BY <1>2, <1>3, <1>5, BehindLinks
  <2> QED BY <1>1, <1>3, <1>5, <2>1 DEF Successor, Blocked, SchedInv, NoForgottenWaiter
<1> QED BY <1>4, <1>5

\* A step that leaves queues and owners alone and only touches the other wait fields.
LEMMA OwnFieldsKept ==
  ASSUME SchedInv, UNCHANGED <<queue, owner, owned_internal_mutex_count>>,
         kill_ticket' \in [Tasks -> BOOLEAN], wait' \in [Tasks -> WaitRecords],
         \A u \in Tasks : wait'[u].waiting_on = wait[u].waiting_on
  PROVE  SchedInv'
<1>1. SchedTypeOK'
  BY DEF SchedInv, SchedTypeOK
<1>2. QueuesConsistent'
  BY WellLinked, WellLinkedNext DEF SchedInv
<1>3. NoForgottenWaiter'
  BY DEF SchedInv, NoForgottenWaiter
<1> QED BY <1>1, <1>2, <1>3 DEF SchedInv

\* One task is unlinked from the queue it waits on, by whatever authority.
LEMMA UnlinkKept ==
  ASSUME SchedInv, NEW t \in Tasks, Blocked(t), NEW w \in WaitRecords, w.waiting_on = NULL,
         queue' = [queue EXCEPT ![wait[t].waiting_on] = Unlink(@, t)],
         wait' = [wait EXCEPT ![t] = w],
         kill_ticket' \in [Tasks -> BOOLEAN], UNCHANGED <<owner, owned_internal_mutex_count>>
  PROVE  SchedInv'
<1> DEFINE q == wait[t].waiting_on
<1>0. wait \in [Tasks -> WaitRecords] /\ queue \in [WaitQueues -> Seq(Tasks)]
  BY DEF SchedInv, SchedTypeOK
<1>1. q \in WaitQueues
  BY <1>0 DEF Blocked, WaitRecords
<1>2. queue[q] \in Seq(Tasks) /\ Once(queue[q])
  BY <1>0, <1>1, WellLinked DEF SchedInv
<1>3. /\ Unlink(queue[q], t) \in Seq(Tasks) /\ Once(Unlink(queue[q], t))
      /\ queue[q] = <<>> => Unlink(queue[q], t) = <<>>
      /\ \A u : Linked(Unlink(queue[q], t), u) <=> Linked(queue[q], u) /\ u # t
  BY <1>2, UnlinkLinks
<1> HIDE DEF q
<1>4. queue' = [queue EXCEPT ![q] = Unlink(queue[q], t)]
  BY DEF q
<1>5. SchedTypeOK'
  BY <1>0, <1>1, <1>3, <1>4 DEF SchedInv, SchedTypeOK
<1>6. QueuesConsistent'
  <2>1. \A p \in WaitQueues : Once(queue'[p])
    BY <1>0, <1>1, <1>3, <1>4, WellLinked DEF SchedInv
  <2>2. ASSUME NEW p \in WaitQueues, NEW u \in Tasks PROVE Linked(queue'[p], u) <=> wait'[u].waiting_on = p
    <3>1. Linked(queue[p], u) <=> wait[u].waiting_on = p
      BY WellLinked DEF SchedInv
    <3>2. p # NULL
      BY QueueNames
    <3>3. queue'[p] = IF p = q THEN Unlink(queue[q], t) ELSE queue[p]
      BY <1>0, <1>4
    <3>4. wait'[u] = IF u = t THEN w ELSE wait[u]
      BY <1>0
    <3> QED BY <1>3, <3>1, <3>2, <3>3, <3>4 DEF q
  <2> QED BY <2>1, <2>2, WellLinkedNext
<1>7. NoForgottenWaiter'
  BY <1>0, <1>1, <1>3, <1>4 DEF SchedInv, NoForgottenWaiter, Inner, WaitQueues
<1> QED BY <1>5, <1>6, <1>7 DEF SchedInv

\* The timer takes an expired task off its queue.
LEMMA TimerKept ==
  ASSUME SchedInv, NEW t \in Tasks, OnTimerTick(t)
  PROVE  /\ SchedInv' /\ UNCHANGED owner
         /\ wait'[t].waiting_on = NULL /\ \A u \in Tasks \ {t} : wait'[u] = wait[u]
<1>1. wait \in [Tasks -> WaitRecords] /\ kill_ticket \in [Tasks -> BOOLEAN]
  BY DEF SchedInv, SchedTypeOK
<1>2. TimedOut(wait[t]) \in WaitRecords /\ TimedOut(wait[t]).waiting_on = NULL
  BY <1>1, WaitUpdates
<1>3. wait' = [wait EXCEPT ![t] = TimedOut(wait[t])]
  BY DEF OnTimerTick
<1>4. SchedInv'
  BY <1>1, <1>2, <1>3, UnlinkKept DEF OnTimerTick
<1> QED BY <1>1, <1>2, <1>3, <1>4 DEF OnTimerTick

\* A kill takes a task off its queue only if the wait may be cancelled.
LEMMA KillKept ==
  ASSUME SchedInv, NEW t \in Tasks, SignalTask(t)
  PROVE  /\ SchedInv' /\ UNCHANGED owner
         /\ wait'[t].waiting_on = NULL \/ UNCHANGED wait
         /\ \A u \in Tasks \ {t} : wait'[u] = wait[u]
<1>1. wait \in [Tasks -> WaitRecords] /\ kill_ticket \in [Tasks -> BOOLEAN]
  BY DEF SchedInv, SchedTypeOK
<1>2. kill_ticket' \in [Tasks -> BOOLEAN] /\ UNCHANGED <<owner, owned_internal_mutex_count>>
  BY <1>1 DEF SignalTask
<1>3. CASE CancellableWait(t) /\ queue' = [queue EXCEPT ![wait[t].waiting_on] = Unlink(@, t)]
           /\ wait' = [wait EXCEPT ![t] = Detached(@)]
  <2>1. Detached(wait[t]) \in WaitRecords /\ Detached(wait[t]).waiting_on = NULL
    BY <1>1, WaitUpdates
  <2>2. wait' = [wait EXCEPT ![t] = Detached(wait[t])] /\ Blocked(t)
    BY <1>3 DEF CancellableWait
  <2>3. SchedInv'
    BY <1>2, <1>3, <2>1, <2>2, UnlinkKept
  <2> QED BY <1>1, <1>2, <2>1, <2>2, <2>3
<1>4. CASE UNCHANGED <<queue, wait>>
  <2>1. SchedInv'
    BY <1>1, <1>2, <1>4, OwnFieldsKept
  <2> QED BY <1>2, <1>4, <2>1
<1> QED BY <1>3, <1>4 DEF SignalTask

\* The contended branch of an acquire queues its task behind an owner.
LEMMA ParkKept ==
  ASSUME SchedInv, NEW t \in Tasks, NEW o \in Objects, NEW w \in WaitRecords,
         MutexPark(t, o, w), ~Blocked(t), w.waiting_on = Inner(o)
  PROVE  /\ SchedInv' /\ UNCHANGED owner
         /\ wait'[t] = w /\ \A u \in Tasks \ {t} : wait'[u] = wait[u]
<1> DEFINE q == Inner(o)
           s == Append(queue[q], t)
<1>0. wait \in [Tasks -> WaitRecords] /\ queue \in [WaitQueues -> Seq(Tasks)]
  BY DEF SchedInv, SchedTypeOK
<1>1. q \in WaitQueues /\ q # NULL
  BY QueueNames
<1>2. queue[q] \in Seq(Tasks) /\ Once(queue[q]) /\ ~Linked(queue[q], t)
  BY <1>0, <1>1, WellLinked DEF SchedInv, Blocked
<1>3. s \in Seq(Tasks) /\ Once(s) /\ \A u : Linked(s, u) <=> Linked(queue[q], u) \/ u = t
  BY <1>2, AppendLinks
<1> HIDE DEF q, s
<1>4. queue' = [queue EXCEPT ![q] = s] /\ wait' = [wait EXCEPT ![t] = w]
  BY DEF MutexPark, q, s
<1>5. SchedTypeOK'
  BY <1>0, <1>1, <1>3, <1>4 DEF SchedInv, SchedTypeOK, MutexPark
<1>6. QueuesConsistent'
  <2>1. \A p \in WaitQueues : Once(queue'[p])
    BY <1>0, <1>1, <1>3, <1>4, WellLinked DEF SchedInv
  <2>2. ASSUME NEW p \in WaitQueues, NEW u \in Tasks PROVE Linked(queue'[p], u) <=> wait'[u].waiting_on = p
    <3>1. Linked(queue[p], u) <=> wait[u].waiting_on = p
      BY WellLinked DEF SchedInv
    <3>2. p # NULL
      BY QueueNames
    <3>3. queue'[p] = IF p = q THEN s ELSE queue[p]
      BY <1>0, <1>4
    <3>4. wait'[u] = IF u = t THEN w ELSE wait[u]
      BY <1>0, <1>4
    <3> QED BY <1>3, <3>1, <3>2, <3>3, <3>4 DEF q, Blocked
  <2> QED BY <2>1, <2>2, WellLinkedNext
<1>7. NoForgottenWaiter'
  <2>1. owner[o] # NULL /\ UNCHANGED owner
    BY DEF MutexPark, MutexAvailable
  <2>2. \A p \in Objects : p # o => queue'[Inner(p)] = queue[Inner(p)]
    BY <1>0, <1>4, QueueNames DEF q
  <2> QED BY <2>1, <2>2 DEF SchedInv, NoForgottenWaiter
<1> QED BY <1>0, <1>4, <1>5, <1>6, <1>7 DEF SchedInv, MutexPark

\* Taking a free mutex, or one that was handed over.
LEMMA ClaimKept ==
  ASSUME SchedInv, NEW t \in Tasks, NEW o \in Objects, MutexClaim(t, o), UNCHANGED <<queue, kill_ticket>>,
         wait' \in [Tasks -> WaitRecords], \A u \in Tasks : wait'[u].waiting_on = wait[u].waiting_on
  PROVE  SchedInv' /\ owner' = [owner EXCEPT ![o] = t] /\ owner[o] \in {NULL, t}
<1>0. /\ owner \in [Objects -> Tasks \cup {NULL}] /\ owned_internal_mutex_count \in [Tasks -> Nat]
      /\ owner' = [owner EXCEPT ![o] = t]
  BY DEF SchedInv, SchedTypeOK, MutexClaim
<1>1. owned_internal_mutex_count' \in [Tasks -> Nat]
  <2>1. Counted(t, owned_internal_mutex_count[t] + 1) \in [Tasks -> Nat]
    BY <1>0 DEF Counted
  <2> QED BY <1>0, <2>1 DEF MutexClaim
<1>2. SchedTypeOK'
  BY <1>0, <1>1 DEF SchedInv, SchedTypeOK
<1>3. QueuesConsistent'
  BY WellLinked, WellLinkedNext DEF SchedInv
<1>4. NoForgottenWaiter'
  BY <1>0, SchedAssumption DEF SchedInv, NoForgottenWaiter
<1> QED BY <1>0, <1>2, <1>3, <1>4 DEF SchedInv, MutexClaim, MutexAvailable

\* A queue whose head, if any, was taken.
LEMMA BehindKept ==
  ASSUME SchedInv, NEW q \in WaitQueues
  PROVE  /\ Behind(queue[q]) \in Seq(Tasks) /\ Once(Behind(queue[q]))
         /\ queue[q] = <<>> => Behind(queue[q]) = <<>> /\ \A u \in Tasks : wait[u].waiting_on # q
         /\ queue[q] # <<>> => Head(queue[q]) \in Tasks /\ wait[Head(queue[q])].waiting_on = q
         /\ \A u \in Tasks : Linked(Behind(queue[q]), u) <=>
                               wait[u].waiting_on = q /\ ~(queue[q] # <<>> /\ u = Head(queue[q]))
<1>0. queue[q] \in Seq(Tasks)
  BY DEF SchedInv, SchedTypeOK
<1>1. Once(queue[q]) /\ \A u \in Tasks : Linked(queue[q], u) <=> wait[u].waiting_on = q
  BY WellLinked DEF SchedInv
<1>2. CASE queue[q] = <<>>
  <2>1. Behind(queue[q]) = queue[q] /\ \A u : ~Linked(queue[q], u)
    BY <1>2 DEF Behind, Linked
  <2> QED BY <1>0, <1>1, <1>2, <2>1
<1>3. CASE queue[q] # <<>>
  <2>1. /\ Head(queue[q]) \in Tasks /\ Linked(queue[q], Head(queue[q]))
        /\ Behind(queue[q]) \in Seq(Tasks) /\ Once(Behind(queue[q]))
        /\ \A u : Linked(Behind(queue[q]), u) <=> Linked(queue[q], u) /\ u # Head(queue[q])
    BY <1>0, <1>1, <1>3, BehindLinks
  <2> QED BY <1>1, <1>3, <2>1
<1> QED BY <1>2, <1>3

\* A release gives the mutex to the head of its queue, or leaves it free with nobody queued.
LEMMA RelinquishKept ==
  ASSUME SchedInv, NEW t \in Tasks, NEW o \in Objects, NEW w \in WaitRecords,
         MutexRelinquish(t, o, w), ~Blocked(t), w.waiting_on = NULL,
         OwnershipClass = "Internal" => owned_internal_mutex_count[t] > 0
  PROVE  /\ SchedInv' /\ owner' = [owner EXCEPT ![o] = Successor(o)] /\ Successor(o) # t
         /\ \A u \in Tasks : wait'[u].waiting_on = IF u = Successor(o) THEN NULL ELSE wait[u].waiting_on
<1> DEFINE q == Inner(o)
           s == Behind(queue[q])
           h == Successor(o)
<1>0. /\ wait \in [Tasks -> WaitRecords] /\ queue \in [WaitQueues -> Seq(Tasks)]
      /\ owner \in [Objects -> Tasks \cup {NULL}] /\ owned_internal_mutex_count \in [Tasks -> Nat]
  BY DEF SchedInv, SchedTypeOK
<1>1. q \in WaitQueues /\ q # NULL
  BY QueueNames
<1>2. /\ s \in Seq(Tasks) /\ Once(s)
      /\ queue[q] = <<>> => s = <<>>
      /\ \A u \in Tasks : Linked(s, u) <=> wait[u].waiting_on = q /\ ~(queue[q] # <<>> /\ u = Head(queue[q]))
  BY <1>1, BehindKept
<1>3. \/ h = NULL /\ queue[q] = <<>>
      \/ h \in Tasks /\ queue[q] # <<>> /\ h = Head(queue[q]) /\ wait[h].waiting_on = q /\ Blocked(h)
  BY SuccessorFacts DEF q
<1>4. h # t
  BY <1>3, SchedAssumption
<1> HIDE DEF q, s, h
<1>5. queue' = [queue EXCEPT ![q] = s] /\ owner' = [owner EXCEPT ![o] = h] /\ UNCHANGED kill_ticket
  BY DEF MutexRelinquish, HandedOwner, q, s, h
<1>6. wait' = [u \in Tasks |-> IF u = h THEN Woken(wait[u]) ELSE IF u = t THEN w ELSE wait[u]]
  BY DEF MutexRelinquish, h
<1>7. wait' \in [Tasks -> WaitRecords] /\ \A u \in Tasks : wait'[u].waiting_on = IF u = h THEN NULL ELSE wait[u].waiting_on
  BY <1>0, <1>6, WaitUpdates DEF Blocked
<1>8. owned_internal_mutex_count' \in [Tasks -> Nat]
  BY <1>0 DEF MutexRelinquish, HandedCounts
<1>9. SchedTypeOK'
  BY <1>0, <1>1, <1>2, <1>3, <1>5, <1>7, <1>8 DEF SchedInv, SchedTypeOK
<1>10. QueuesConsistent'
  <2>1. \A p \in WaitQueues : Once(queue'[p])
    BY <1>0, <1>1, <1>2, <1>5, WellLinked DEF SchedInv
  <2>2. ASSUME NEW p \in WaitQueues, NEW u \in Tasks PROVE Linked(queue'[p], u) <=> wait'[u].waiting_on = p
    <3>1. Linked(queue[p], u) <=> wait[u].waiting_on = p
      BY WellLinked DEF SchedInv
    <3>2. p # NULL
      BY QueueNames
    <3>3. queue'[p] = IF p = q THEN s ELSE queue[p]
      BY <1>0, <1>5
    <3>4. u = h <=> queue[q] # <<>> /\ u = Head(queue[q])
      BY <1>3, SchedAssumption
    <3> QED BY <1>2, <1>3, <1>7, <3>1, <3>2, <3>3, <3>4
  <2> QED BY <2>1, <2>2, WellLinkedNext
<1>11. NoForgottenWaiter'
  <2>1. \A p \in Objects : p # o => queue'[Inner(p)] = queue[Inner(p)] /\ owner'[p] = owner[p]
    BY <1>0, <1>5, QueueNames DEF q
  <2>2. owner'[o] = h /\ queue'[Inner(o)] = s
    BY <1>0, <1>1, <1>5 DEF q
  <2> QED BY <1>2, <1>3, <2>1, <2>2, SchedAssumption DEF SchedInv, NoForgottenWaiter
<1> QED BY <1>4, <1>5, <1>7, <1>9, <1>10, <1>11 DEF SchedInv, h

\* A cancellable park hands the mutex on and joins the condition variable in one lock hold.
LEMMA CondvarParkKept ==
  ASSUME SchedInv, NEW t \in Tasks, NEW o \in Objects, NEW tick \in WakeTicks,
         CondvarPark(t, o, tick), ~Blocked(t), OwnershipClass = "Internal" => owned_internal_mutex_count[t] > 0
  PROVE  /\ SchedInv' /\ Successor(o) # t
         /\ wait'[t].waiting_on = Cv(o) /\ ~wait'[t].wake_by_cancel
         /\ \A u \in Tasks \ {t} : wait'[u] = IF u = Successor(o) THEN Woken(wait[u]) ELSE wait[u]
<1> DEFINE q == Inner(o)
           c == Cv(o)
           s == Behind(queue[q])
           a == Append(queue[c], t)
           h == Successor(o)
           w == [ParkedOn(wait[t], Cv(o), tick) EXCEPT !.wake_by_cancel = FALSE, !.wait_cancellable = TRUE]
<1>0. /\ wait \in [Tasks -> WaitRecords] /\ queue \in [WaitQueues -> Seq(Tasks)]
      /\ owner \in [Objects -> Tasks \cup {NULL}] /\ owned_internal_mutex_count \in [Tasks -> Nat]
  BY DEF SchedInv, SchedTypeOK
<1>1. q \in WaitQueues /\ q # NULL /\ c \in WaitQueues /\ c # NULL /\ q # c
  BY QueueNames
<1>2. /\ s \in Seq(Tasks) /\ Once(s)
      /\ queue[q] = <<>> => s = <<>>
      /\ \A u \in Tasks : Linked(s, u) <=> wait[u].waiting_on = q /\ ~(queue[q] # <<>> /\ u = Head(queue[q]))
  BY <1>1, BehindKept
<1>3. \/ h = NULL /\ queue[q] = <<>>
      \/ h \in Tasks /\ queue[q] # <<>> /\ h = Head(queue[q]) /\ wait[h].waiting_on = q /\ Blocked(h)
  BY SuccessorFacts DEF q
<1>4. h # t
  BY <1>3, SchedAssumption
<1>5. queue[c] \in Seq(Tasks) /\ Once(queue[c]) /\ ~Linked(queue[c], t)
  BY <1>0, <1>1, WellLinked DEF SchedInv, Blocked
<1>6. a \in Seq(Tasks) /\ Once(a) /\ \A u : Linked(a, u) <=> Linked(queue[c], u) \/ u = t
  BY <1>5, AppendLinks
<1>7. w \in WaitRecords /\ w.waiting_on = c /\ w.wake_by_cancel = FALSE
  <2>1. ParkedOn(wait[t], c, tick) \in WaitRecords /\ ParkedOn(wait[t], c, tick).waiting_on = c
    BY <1>0, <1>1, ParkUpdates
  <2> QED BY <2>1 DEF WaitRecords
<1> HIDE DEF q, c, s, a, h, w
<1>8. queue' = [queue EXCEPT ![q] = s, ![c] = a] /\ owner' = [owner EXCEPT ![o] = h] /\ UNCHANGED kill_ticket
  BY <1>0, <1>1 DEF CondvarPark, HandedOwner, q, c, s, a, h
<1>9. wait' = [u \in Tasks |-> IF u = h THEN Woken(wait[u]) ELSE IF u = t THEN w ELSE wait[u]]
  BY DEF CondvarPark, h, w
<1>10. /\ wait' \in [Tasks -> WaitRecords]
       /\ \A u \in Tasks : wait'[u].waiting_on = IF u = h THEN NULL ELSE IF u = t THEN c ELSE wait[u].waiting_on
  BY <1>0, <1>7, <1>9, WaitUpdates
<1>11. owned_internal_mutex_count' \in [Tasks -> Nat]
  BY <1>0 DEF CondvarPark, HandedCounts
<1>12. SchedTypeOK'
  BY <1>0, <1>1, <1>2, <1>3, <1>6, <1>8, <1>10, <1>11 DEF SchedInv, SchedTypeOK
<1>13. QueuesConsistent'
  <2>0. \A p \in WaitQueues : queue'[p] = IF p = q THEN s ELSE IF p = c THEN a ELSE queue[p]
    BY <1>0, <1>1, <1>8
  <2>1. \A p \in WaitQueues : Once(queue'[p])
    BY <1>2, <1>6, <2>0, WellLinked DEF SchedInv
  <2>2. ASSUME NEW p \in WaitQueues, NEW u \in Tasks PROVE Linked(queue'[p], u) <=> wait'[u].waiting_on = p
    <3>1. Linked(queue[p], u) <=> wait[u].waiting_on = p
      BY WellLinked DEF SchedInv
    <3>2. p # NULL /\ wait[t].waiting_on = NULL
      BY QueueNames DEF Blocked
    <3>3. u = h <=> queue[q] # <<>> /\ u = Head(queue[q])
      BY <1>3, SchedAssumption
    <3>4. CASE p = q
      <4>1. Linked(queue'[p], u) <=> wait[u].waiting_on = q /\ u # h
        BY <1>2, <2>0, <3>3, <3>4
      <4>2. wait'[u].waiting_on = p <=> wait[u].waiting_on = q /\ u # h
        BY <1>1, <1>10, <3>2, <3>4
      <4> QED BY <4>1, <4>2
    <3>5. CASE p = c
      <4>1. Linked(queue'[p], u) <=> wait[u].waiting_on = c \/ u = t
        BY <1>1, <1>6, <2>0, <3>1, <3>5
      <4>2. u = h => wait[u].waiting_on = q
        BY <1>3, SchedAssumption
      <4>3. wait'[u].waiting_on = p <=> wait[u].waiting_on = c \/ u = t
        BY <1>1, <1>4, <1>10, <3>2, <3>5, <4>2
      <4> QED BY <4>1, <4>3
    <3>6. CASE p # q /\ p # c
      <4>1. u = h => wait[u].waiting_on = q
        BY <1>3, SchedAssumption
      <4> QED BY <1>10, <2>0, <3>1, <3>2, <3>6, <4>1
    <3> QED BY <3>4, <3>5, <3>6
  <2> QED BY <2>1, <2>2, WellLinkedNext
<1>14. NoForgottenWaiter'
  <2>1. \A p \in Objects : p # o => queue'[Inner(p)] = queue[Inner(p)] /\ owner'[p] = owner[p]
    BY <1>0, <1>1, <1>8, QueueNames DEF q, c
  <2>2. owner'[o] = h /\ queue'[Inner(o)] = s
    BY <1>0, <1>1, <1>8 DEF q
  <2> QED BY <1>2, <1>3, <2>1, <2>2, SchedAssumption DEF SchedInv, NoForgottenWaiter
<1>15. \A u \in Tasks \ {t} : wait'[u] = IF u = h THEN Woken(wait[u]) ELSE wait[u]
  BY <1>9
<1>16. wait'[t] = w
  BY <1>4, <1>9
<1> QED BY <1>4, <1>7, <1>12, <1>13, <1>14, <1>15, <1>16 DEF SchedInv, c, h

\* A step that empties or shortens a condition variable's queue, waking exactly who leaves it.
LEMMA CondvarWakeKept ==
  ASSUME SchedInv, NEW o \in Objects, NEW W, NEW s \in Seq(Tasks), Once(s),
         \A u \in Tasks : u \in W => wait[u].waiting_on = Cv(o),
         \A u \in Tasks : Linked(s, u) <=> wait[u].waiting_on = Cv(o) /\ u \notin W,
         queue' = [queue EXCEPT ![Cv(o)] = s],
         wait' = [u \in Tasks |-> IF u \in W THEN Woken(wait[u]) ELSE wait[u]],
         UNCHANGED <<kill_ticket, owner, owned_internal_mutex_count>>
  PROVE  SchedInv'
<1> DEFINE c == Cv(o)
<1>0. wait \in [Tasks -> WaitRecords] /\ queue \in [WaitQueues -> Seq(Tasks)]
  BY DEF SchedInv, SchedTypeOK
<1>1. c \in WaitQueues /\ c # NULL
  BY QueueNames
<1>2. queue' = [queue EXCEPT ![c] = s]
  OBVIOUS
<1> HIDE DEF c
<1>3. /\ wait' \in [Tasks -> WaitRecords]
      /\ \A u \in Tasks : wait'[u].waiting_on = IF u \in W THEN NULL ELSE wait[u].waiting_on
  BY <1>0, WaitUpdates
<1>4. SchedTypeOK'
  BY <1>0, <1>1, <1>2, <1>3 DEF SchedInv, SchedTypeOK
<1>5. QueuesConsistent'
  <2>1. \A p \in WaitQueues : queue'[p] = IF p = c THEN s ELSE queue[p]
    BY <1>0, <1>2
  <2>2. \A p \in WaitQueues : Once(queue'[p])
    BY <2>1, WellLinked DEF SchedInv
  <2>3. ASSUME NEW p \in WaitQueues, NEW u \in Tasks PROVE Linked(queue'[p], u) <=> wait'[u].waiting_on = p
    <3>1. Linked(queue[p], u) <=> wait[u].waiting_on = p
      BY WellLinked DEF SchedInv
    <3>2. p # NULL
      BY QueueNames
    <3> QED BY <1>3, <2>1, <3>1, <3>2 DEF c
  <2> QED BY <2>2, <2>3, WellLinkedNext
<1>6. NoForgottenWaiter'
  BY <1>0, <1>2, QueueNames DEF SchedInv, NoForgottenWaiter, c
<1> QED BY <1>4, <1>5, <1>6 DEF SchedInv

\* CondvarSignal wakes the head and nobody else.
LEMMA SignalKept ==
  ASSUME SchedInv, NEW o \in Objects, CondvarSignal(o)
  PROVE  /\ SchedInv' /\ UNCHANGED <<kill_ticket, owner, owned_internal_mutex_count>>
         /\ \A u \in Tasks : \/ wait'[u] = wait[u]
                             \/ wait[u].waiting_on = Cv(o) /\ wait'[u] = Woken(wait[u])
         /\ queue[Cv(o)] # <<>> => Head(queue[Cv(o)]) \in Tasks /\ wait[Head(queue[Cv(o)])].waiting_on = Cv(o)
                                   /\ wait'[Head(queue[Cv(o)])] = Woken(wait[Head(queue[Cv(o)])])
<1> DEFINE W == {u \in Tasks : queue[Cv(o)] # <<>> /\ u = Head(queue[Cv(o)])}
           s == Behind(queue[Cv(o)])
<1>1. /\ s \in Seq(Tasks) /\ Once(s)
      /\ queue[Cv(o)] # <<>> => Head(queue[Cv(o)]) \in Tasks /\ wait[Head(queue[Cv(o)])].waiting_on = Cv(o)
      /\ \A u \in Tasks : Linked(s, u) <=> wait[u].waiting_on = Cv(o) /\ ~(queue[Cv(o)] # <<>> /\ u = Head(queue[Cv(o)]))
  BY QueueNames, BehindKept
<1>2. /\ \A u \in Tasks : u \in W => wait[u].waiting_on = Cv(o)
      /\ \A u \in Tasks : Linked(s, u) <=> wait[u].waiting_on = Cv(o) /\ u \notin W
  BY <1>1
<1>3. /\ queue' = [queue EXCEPT ![Cv(o)] = s]
      /\ wait' = [u \in Tasks |-> IF u \in W THEN Woken(wait[u]) ELSE wait[u]]
      /\ UNCHANGED <<kill_ticket, owner, owned_internal_mutex_count>>
  BY DEF CondvarSignal
<1> HIDE DEF s
<1>4. SchedInv'
  <2> HIDE DEF W
  <2> QED BY <1>1, <1>2, <1>3, CondvarWakeKept
<1> QED BY <1>1, <1>2, <1>3, <1>4

\* CondvarBroadcast leaves nobody on the condition variable.
LEMMA BroadcastKept ==
  ASSUME SchedInv, NEW o \in Objects, CondvarBroadcast(o)
  PROVE  /\ SchedInv' /\ UNCHANGED <<kill_ticket, owner, owned_internal_mutex_count>>
         /\ queue' = [queue EXCEPT ![Cv(o)] = <<>>]
         /\ \A u \in Tasks : \/ wait'[u] = wait[u]
                             \/ wait[u].waiting_on = Cv(o) /\ wait'[u] = Woken(wait[u])
<1> DEFINE W == {u \in Tasks : wait[u].waiting_on = Cv(o)}
<1>1. <<>> \in Seq(Tasks) /\ Once(<<>>) /\ \A u : ~Linked(<<>>, u)
  BY DEF Once, Linked
<1>2. /\ queue' = [queue EXCEPT ![Cv(o)] = <<>>]
      /\ wait' = [u \in Tasks |-> IF u \in W THEN Woken(wait[u]) ELSE wait[u]]
      /\ UNCHANGED <<kill_ticket, owner, owned_internal_mutex_count>>
  BY DEF CondvarBroadcast
<1>3. \A u \in Tasks : u \in W <=> wait[u].waiting_on = Cv(o)
  OBVIOUS
<1>4. SchedInv'
  <2> HIDE DEF W
  <2> QED BY <1>1, <1>2, <1>3, CondvarWakeKept
<1> QED BY <1>2, <1>3, <1>4

\* A resumed task consumes the latches of its wait.
LEMMA ResumeKept ==
  ASSUME SchedInv, NEW t \in Tasks, ClassifyCancellableWaitResume(t)
  PROVE  /\ SchedInv' /\ UNCHANGED <<kill_ticket, queue, owner, owned_internal_mutex_count>>
         /\ wait'[t].waiting_on = NULL /\ ~wait'[t].wait_cancellable /\ ~wait'[t].wake_by_cancel
         /\ \A u \in Tasks \ {t} : wait'[u] = wait[u]
<1>0. wait \in [Tasks -> WaitRecords] /\ kill_ticket \in [Tasks -> BOOLEAN]
  BY DEF SchedInv, SchedTypeOK
<1>1. /\ wait' = [wait EXCEPT ![t].wait_cancellable = FALSE, ![t].wake_by_cancel = FALSE, ![t].wake_by_timeout = FALSE]
      /\ UNCHANGED <<kill_ticket, queue, owner, owned_internal_mutex_count>> /\ wait[t].waiting_on = NULL
  BY DEF ClassifyCancellableWaitResume, Blocked
<1>2. /\ wait' \in [Tasks -> WaitRecords] /\ \A u \in Tasks \ {t} : wait'[u] = wait[u]
      /\ wait'[t].waiting_on = NULL /\ ~wait'[t].wait_cancellable /\ ~wait'[t].wake_by_cancel
  <2> DEFINE w == [wait[t] EXCEPT !.wait_cancellable = FALSE, !.wake_by_cancel = FALSE, !.wake_by_timeout = FALSE]
  <2>1. w \in WaitRecords /\ w.waiting_on = wait[t].waiting_on /\ ~w.wait_cancellable /\ ~w.wake_by_cancel
    BY <1>0 DEF WaitRecords
  <2>2. wait' = [wait EXCEPT ![t] = w]
    BY <1>0, <1>1
  <2> HIDE DEF w
  <2> QED BY <1>0, <1>1, <2>1, <2>2
<1>3. \A u \in Tasks : wait'[u].waiting_on = wait[u].waiting_on
  BY <1>1, <1>2
<1>4. SchedInv'
  BY <1>0, <1>1, <1>2, <1>3, OwnFieldsKept
<1> QED BY <1>1, <1>2, <1>4
=============================================================================
