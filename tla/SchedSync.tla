------------------------------ MODULE SchedSync ------------------------------
(***************************************************************************)
(* The scheduler's sleeping primitives (kernel/sched/sched.cpp): FIFO wait *)
(* queues, the hand-off mutex, the condition variable, the timer's and     *)
(* the killer's ways of taking a task off a wait queue.                    *)
(*                                                                         *)
(* Everything here runs under g_sched_lock, so each operator is one step   *)
(* or a part of one.  The kernel objects that embed a mutex and a condvar  *)
(* (KMutex, KEvent, KSemaphore) extend this module and add the program of  *)
(* their callers.  A task that is not blocked may be running or ready:     *)
(* which CPU picks it, and when, is the interleaving itself.  NT suspension*)
(* only delays a ready task and is covered by the same freedom.            *)
(***************************************************************************)
EXTENDS Naturals, Sequences, FiniteSets

CONSTANTS
  Tasks,           \* Task structures
  Objects,         \* kernel objects, each with one mutex and one condvar
  NULL,            \* the null pointer
  OwnershipClass   \* Mutex::ownership_class of the embedded mutexes

ASSUME SchedAssumption ==
  /\ NULL \notin Tasks /\ NULL \notin Objects /\ NULL \notin {"inner", "cv"} \X Objects
  /\ OwnershipClass \in {"Internal", "AbandonableUserWaitable"}

VARIABLES
  wait,        \* the wait fields of each Task
  kill_ticket, \* [Tasks -> BOOLEAN]: sticky cancellation request
  queue,       \* [WaitQueues -> Seq(Tasks)], head first
  owner,       \* [Objects -> Task or NULL]: Mutex::owner
  owned_internal_mutex_count \* [Tasks -> Nat]

schedVars == <<wait, kill_ticket, queue, owner, owned_internal_mutex_count>>

WaitQueues == {"inner", "cv"} \X Objects
Inner(o) == <<"inner", o>>   \* Mutex::waiters
Cv(o) == <<"cv", o>>         \* Condvar::waiters

(* Mutex::wake_tick: not on the sleep queue, a deadline the timer will     *)
(* reach, or the 2^63-1 tick horizon that stands for an infinite wait.     *)
WakeTicks == {"none", "deadline", "horizon"}

WaitRecords ==
  [waiting_on: WaitQueues \cup {NULL}, wake_tick: WakeTicks, wake_by_timeout: BOOLEAN,
   wake_by_cancel: BOOLEAN, wait_cancellable: BOOLEAN]

NotWaiting ==
  [waiting_on |-> NULL, wake_tick |-> "none", wake_by_timeout |-> FALSE,
   wake_by_cancel |-> FALSE, wait_cancellable |-> FALSE]

Blocked(t) == wait[t].waiting_on # NULL
KillPending(t) == kill_ticket[t]

SchedInit ==
  /\ wait = [t \in Tasks |-> NotWaiting]
  /\ kill_ticket = [t \in Tasks |-> FALSE]
  /\ queue = [q \in WaitQueues |-> <<>>]
  /\ owner = [o \in Objects |-> NULL]
  /\ owned_internal_mutex_count = [t \in Tasks |-> 0]

SchedTypeOK ==
  /\ wait \in [Tasks -> WaitRecords]
  /\ kill_ticket \in [Tasks -> BOOLEAN]
  /\ queue \in [WaitQueues -> Seq(Tasks)]
  /\ owner \in [Objects -> Tasks \cup {NULL}]
  /\ owned_internal_mutex_count \in [Tasks -> Nat]

-----------------------------------------------------------------------------
(* Wait queues *)

\* Mutant: the deadline is not armed.
ParkedForever(w, wq, tick) == [w EXCEPT !.waiting_on = wq, !.wake_by_timeout = FALSE]

\* WaitQueueBlockCurrentLocked / WaitQueueBlockCurrentUntilLocked.
ParkedOn(w, wq, tick) == [w EXCEPT !.waiting_on = wq, !.wake_tick = tick, !.wake_by_timeout = FALSE]

\* WaitQueueWakeOneLocked: the explicit wake is latched as the winner.
Woken(w) ==
  [w EXCEPT !.waiting_on = NULL, !.wake_tick = "none", !.wake_by_cancel = FALSE, !.wake_by_timeout = FALSE]

\* OnTimerTick: the timer won.
TimedOut(w) ==
  [w EXCEPT !.waiting_on = NULL, !.wake_tick = "none", !.wake_by_cancel = FALSE, !.wake_by_timeout = TRUE]

\* WaitQueueDetachTaskLocked and the latch SignalTaskLocked sets.
Detached(w) ==
  [w EXCEPT !.waiting_on = NULL, !.wake_tick = "none", !.wake_by_timeout = FALSE,
            !.wake_by_cancel = TRUE, !.wait_cancellable = FALSE]

\* Mutant: the timer or the kill forgets to unlink.
LeaveLinked(s, t) == s

\* WaitQueueUnlink.
Unlink(s, t) ==
  IF \E i \in 1..Len(s) : s[i] = t
    THEN LET p == CHOOSE i \in 1..Len(s) : s[i] = t
         IN [i \in 1..(Len(s) - 1) |-> IF i < p THEN s[i] ELSE s[i + 1]]
    ELSE s

\* The timer expires t's deadline.
OnTimerTick(t) ==
  /\ Blocked(t) /\ wait[t].wake_tick = "deadline"
  /\ queue' = [queue EXCEPT ![wait[t].waiting_on] = Unlink(@, t)]
  /\ wait' = [wait EXCEPT ![t] = TimedOut(@)]
  /\ UNCHANGED <<kill_ticket, owner, owned_internal_mutex_count>>

CancellableWait(t) == Blocked(t) /\ wait[t].wait_cancellable

\* Termination: publish the request; only a cancellable wait is interrupted.
SignalTask(t) ==
  /\ ~KillPending(t)
  /\ kill_ticket' = [kill_ticket EXCEPT ![t] = TRUE]
  /\ \/ /\ CancellableWait(t)
        /\ queue' = [queue EXCEPT ![wait[t].waiting_on] = Unlink(@, t)]
        /\ wait' = [wait EXCEPT ![t] = Detached(@)]
     \/ ~CancellableWait(t) /\ UNCHANGED <<queue, wait>>
  /\ UNCHANGED <<owner, owned_internal_mutex_count>>

-----------------------------------------------------------------------------
(* Mutex *)

\* Owner accounting: only internal mutexes are counted against their owner.
Counted(t, n) ==
  IF OwnershipClass = "Internal" /\ t # NULL
    THEN [owned_internal_mutex_count EXCEPT ![t] = n] ELSE owned_internal_mutex_count

\* Mutant: the release wakes a waiter without making it the owner.
NoSuccessor(o) == NULL

Successor(o) == IF queue[Inner(o)] = <<>> THEN NULL ELSE Head(queue[Inner(o)])
Behind(s) == IF s = <<>> THEN s ELSE Tail(s)

\* Mutant: a resumed waiter takes the mutex for granted.
OwnerNotTested(t, o) == TRUE

\* Free, or handed to t while it was queued.
MutexAvailable(t, o) == owner[o] \in {NULL, t}

\* The owner test that ends an acquire, MutexOwnerInstallLocked included.
MutexClaim(t, o) ==
  /\ MutexAvailable(t, o)
  /\ owner' = [owner EXCEPT ![o] = t]
  /\ owned_internal_mutex_count' =
       IF owner[o] = NULL THEN Counted(t, owned_internal_mutex_count[t] + 1) ELSE owned_internal_mutex_count

\* The contended branch: enqueue and deschedule in the same lock hold.
MutexPark(t, o, w) ==
  /\ ~MutexAvailable(t, o)
  /\ wait' = [wait EXCEPT ![t] = w]
  /\ queue' = [queue EXCEPT ![Inner(o)] = Append(@, t)]
  /\ UNCHANGED <<kill_ticket, owner, owned_internal_mutex_count>>

\* MutexLock: never interrupted, never timed.
MutexLock(t, o) ==
  \/ MutexClaim(t, o) /\ UNCHANGED <<wait, kill_ticket, queue>>
  \/ MutexPark(t, o, ParkedOn(wait[t], Inner(o), "none"))

\* MutexOwnerDropLocked, WaitQueueWakeOneLocked and the direct hand-off.
HandedOwner(o) == owner' = [owner EXCEPT ![o] = Successor(o)]

HandedCounts(t, o) ==
  owned_internal_mutex_count' =
    IF OwnershipClass # "Internal" THEN owned_internal_mutex_count
    ELSE [u \in Tasks |-> IF u = t THEN owned_internal_mutex_count[u] - 1
                          ELSE IF u = Successor(o) THEN owned_internal_mutex_count[u] + 1
                          ELSE owned_internal_mutex_count[u]]

\* MutexRelinquishOwnerLocked, with what else the caller does to its own
\* wait fields (w) in the same lock hold.
MutexRelinquish(t, o, w) ==
  /\ HandedOwner(o)
  /\ HandedCounts(t, o)
  /\ queue' = [queue EXCEPT ![Inner(o)] = Behind(@)]
  /\ wait' = [u \in Tasks |-> IF u = Successor(o) THEN Woken(wait[u]) ELSE IF u = t THEN w ELSE wait[u]]
  /\ UNCHANGED kill_ticket

MutexUnlock(t, o) == owner[o] = t /\ MutexRelinquish(t, o, wait[t])

-----------------------------------------------------------------------------
(* Condition variable *)

\* CondvarWaitCancellableImpl: hand the mutex off and join the condvar in one lock hold.
CondvarPark(t, o, tick) ==
  /\ owner[o] = t /\ ~KillPending(t)
  /\ HandedOwner(o)
  /\ HandedCounts(t, o)
  /\ queue' = [queue EXCEPT ![Inner(o)] = Behind(@), ![Cv(o)] = Append(@, t)]
  /\ wait' = [u \in Tasks |->
       IF u = Successor(o) THEN Woken(wait[u])
       ELSE IF u = t THEN [ParkedOn(wait[t], Cv(o), tick) EXCEPT !.wake_by_cancel = FALSE, !.wait_cancellable = TRUE]
       ELSE wait[u]]
  /\ UNCHANGED kill_ticket

\* Mutant: a kill published after an explicit wake turns it into a cancellation.
KillWins(t) == IF KillPending(t) THEN "Cancelled" ELSE IF wait[t].wake_by_timeout THEN "TimedOut" ELSE "Woken"

\* ClassifyCancellableWaitResume: which authority took the task off the queue.
ResumeResult(t) ==
  IF wait[t].wake_by_cancel THEN "Cancelled" ELSE IF wait[t].wake_by_timeout THEN "TimedOut" ELSE "Woken"

ClassifyCancellableWaitResume(t) ==
  /\ ~Blocked(t)
  /\ wait' = [wait EXCEPT ![t].wait_cancellable = FALSE, ![t].wake_by_cancel = FALSE, ![t].wake_by_timeout = FALSE]
  /\ UNCHANGED <<kill_ticket, queue, owner, owned_internal_mutex_count>>

\* CondvarSignal: WaitQueueWakeOne.
CondvarSignal(o) ==
  /\ queue' = [queue EXCEPT ![Cv(o)] = Behind(@)]
  /\ wait' = [u \in Tasks |-> IF queue[Cv(o)] # <<>> /\ u = Head(queue[Cv(o)]) THEN Woken(wait[u]) ELSE wait[u]]
  /\ UNCHANGED <<kill_ticket, owner, owned_internal_mutex_count>>

\* CondvarBroadcast: WaitQueueWakeAll, one lock hold.
CondvarBroadcast(o) ==
  /\ queue' = [queue EXCEPT ![Cv(o)] = <<>>]
  /\ wait' = [u \in Tasks |-> IF wait[u].waiting_on = Cv(o) THEN Woken(wait[u]) ELSE wait[u]]
  /\ UNCHANGED <<kill_ticket, owner, owned_internal_mutex_count>>

-----------------------------------------------------------------------------
(* Structural invariants of the wait queues and the mutex *)

(* A blocked task is on the queue its waiting_on names, once, and on no    *)
(* other; a task that is not blocked is on none.  Every detach (explicit   *)
(* wake, timer, kill, hand-off) unlinks both sides.                        *)
QueuesConsistent ==
  /\ \A q \in WaitQueues : \A i, j \in 1..Len(queue[q]) : queue[q][i] = queue[q][j] => i = j
  /\ \A q \in WaitQueues, t \in Tasks :
       (\E i \in 1..Len(queue[q]) : queue[q][i] = t) <=> wait[t].waiting_on = q

(* A mutex with a waiter has an owner, so somebody will hand it on: the    *)
(* owner test and the enqueue of an acquire, and the drop and the hand-off *)
(* of a release, leave no gap in which a waiter is forgotten.              *)
NoForgottenWaiter ==
  \A o \in Objects : owner[o] = NULL => queue[Inner(o)] = <<>>
=============================================================================
