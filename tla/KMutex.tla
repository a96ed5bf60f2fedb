------------------------------- MODULE KMutex -------------------------------
(***************************************************************************)
(* The recursive, abandonable mutex object (kernel/ipc/kmutex.{h,cpp}) on  *)
(* the scheduler's hand-off mutex, with the ledger of owned objects a Task *)
(* carries and the reaper that abandons what a dead Task still owns        *)
(* (kernel/sched/sched.cpp).                                               *)
(*                                                                         *)
(* A task reaches the object through a handle: the lookup gives the call a *)
(* reference (caller), which its last step drops.  Stores to the public    *)
(* fields that no other step reads in between are one step; every          *)
(* g_sched_lock section and every g_kobject_lock section is a step of its  *)
(* own.  Branches that need a structural inconsistency (a refused ledger   *)
(* entry, a still-held object at destroy, a dead owner that does not match)*)
(* have no action; KernelAssertions states that they are never taken.      *)
(***************************************************************************)
EXTENDS SchedSync

CONSTANTS
  MaxRecursion,  \* ~u32{0} in the code: the recursion counter's last value
  Timeouts       \* bound: the timeouts callers pass (zero, finite, infinite)

ASSUME KMutexAssumption ==
  /\ MaxRecursion \in Nat \ {0}
  /\ Timeouts \subseteq {"zero", "deadline", "horizon"}
  /\ OwnershipClass = "AbandonableUserWaitable"
  /\ IsFiniteSet(Tasks)

VARIABLES
  refcount,          \* KObject::refcount
  handles,           \* handles open on the object, one reference each
  recursion, owner_tid, held, abandoned_pending, \* the public fields of KMutex
  node_owner,        \* ownership_node.owner: the Task whose ledger holds the node
  life,              \* "live", "Dead" (zombie) or "reaped"
  pc, call,          \* where each task stands, and the locals of its call
  reaper,            \* the reaper: its Task, detached nodes, current node and place
  depth              \* history: acquisitions each task was granted and has not given back

objVars == <<refcount, handles>>
pubVars == <<recursion, owner_tid, held, abandoned_pending>>
vars == <<schedVars, objVars, pubVars, node_owner, life, pc, call, reaper, depth>>

PCs == {"idle", "acquire", "lock", "publish", "track", "exchange", "unwait",
        "release", "clear", "unlock", "dropholder", "return"}
NoCall == [obj |-> NULL, tick |-> "none", waited |-> FALSE]
ReaperIdle == [batch |-> {}, task |-> NULL, nodes |-> {}, node |-> NULL, at |-> "idle"]

TypeOK ==
  /\ SchedTypeOK
  /\ refcount \in [Objects -> Nat] /\ handles \in [Objects -> {0, 1}]
  /\ recursion \in [Objects -> 0..MaxRecursion]
  /\ owner_tid \in [Objects -> Tasks \cup {NULL}]
  /\ held \in [Objects -> BOOLEAN] /\ abandoned_pending \in [Objects -> BOOLEAN]
  /\ node_owner \in [Objects -> Tasks \cup {NULL}]
  /\ life \in [Tasks -> {"live", "Dead", "reaped"}]
  /\ pc \in [Tasks -> PCs]
  /\ call \in [Tasks -> [obj: Objects \cup {NULL}, tick: {"none", "zero", "deadline", "horizon"}, waited: BOOLEAN]]
  /\ reaper \in [batch: SUBSET Tasks, task: Tasks \cup {NULL}, nodes: SUBSET Objects, node: Objects \cup {NULL},
                 at: {"idle", "pick", "next", "publish", "abandon", "release"}]
  /\ depth \in [Tasks -> [Objects -> 0..MaxRecursion]]

\* KMutexCreate, and the handle its creator was given.
Init ==
  /\ SchedInit
  /\ refcount = [o \in Objects |-> 1] /\ handles = [o \in Objects |-> 1]
  /\ recursion = [o \in Objects |-> 0] /\ owner_tid = [o \in Objects |-> NULL]
  /\ held = [o \in Objects |-> FALSE] /\ abandoned_pending = [o \in Objects |-> FALSE]
  /\ node_owner = [o \in Objects |-> NULL]
  /\ life = [t \in Tasks |-> "live"]
  /\ pc = [t \in Tasks |-> "idle"] /\ call = [t \in Tasks |-> NoCall]
  /\ reaper = ReaperIdle
  /\ depth = [t \in Tasks |-> [o \in Objects |-> 0]]

-----------------------------------------------------------------------------
(* References *)

\* KObjectRelease; at zero KMutexDestroy returns the storage.
KObjectRelease(o) == refcount' = [refcount EXCEPT ![o] = @ - 1]

Goto(t, at) == pc' = [pc EXCEPT ![t] = at]
At(t, at) == pc[t] = at /\ ~Blocked(t)

\* HandleTableLookupRef on an open handle, then the call.
EnterCall(t, o, at, tick) ==
  /\ At(t, "idle") /\ life[t] = "live" /\ handles[o] = 1
  /\ refcount' = [refcount EXCEPT ![o] = @ + 1]
  /\ Goto(t, at)
  /\ call' = [call EXCEPT ![t] = [obj |-> o, tick |-> tick, waited |-> FALSE]]
  /\ UNCHANGED <<schedVars, handles, pubVars, node_owner, life, reaper, depth>>

\* The caller gives its own reference back.
ReturnFromCall(t) ==
  /\ At(t, "return")
  /\ KObjectRelease(call[t].obj)
  /\ Goto(t, "idle") /\ call' = [call EXCEPT ![t] = NoCall]
  /\ UNCHANGED <<schedVars, handles, pubVars, node_owner, life, reaper, depth>>

\* HandleTableRemove.
CloseHandle(o) ==
  /\ handles[o] = 1
  /\ handles' = [handles EXCEPT ![o] = 0]
  /\ KObjectRelease(o)
  /\ UNCHANGED <<schedVars, pubVars, node_owner, life, pc, call, reaper, depth>>

-----------------------------------------------------------------------------
(* KMutexAcquire / KMutexAcquireTimed *)

OwnedByCaller(t, o) == held[o] /\ owner_tid[o] = t

\* Mutant: the counter is not bounded.
NeverSaturated(o) == FALSE

Saturated(o) == recursion[o] = MaxRecursion

\* The owner re-enters; a saturated counter is refused.
AcquireRecursive(t) ==
  LET o == call[t].obj IN
  /\ At(t, "acquire") /\ OwnedByCaller(t, o)
  /\ \/ /\ ~Saturated(o)
        /\ recursion' = [recursion EXCEPT ![o] = @ + 1]
        /\ depth' = [depth EXCEPT ![t][o] = @ + 1]
     \/ Saturated(o) /\ UNCHANGED <<recursion, depth>>
  /\ Goto(t, "return")
  /\ UNCHANGED <<schedVars, objVars, owner_tid, held, abandoned_pending, node_owner, life, call, reaper>>

\* The reference that spans the wait.
AcquirePin(t) ==
  LET o == call[t].obj IN
  /\ At(t, "acquire") /\ ~OwnedByCaller(t, o)
  /\ refcount' = [refcount EXCEPT ![o] = @ + 1]
  /\ Goto(t, "lock")
  /\ UNCHANGED <<schedVars, handles, pubVars, node_owner, life, call, reaper, depth>>

NotCancellable(t) == [wait[t] EXCEPT !.wait_cancellable = FALSE]

\* MutexLockTimedCancellable, kill pending: a hand-off that raced the kill is
\* relinquished; a free mutex not waited for may still be taken.
LockKilled(t) ==
  LET o == call[t].obj IN
  /\ At(t, "lock") /\ KillPending(t)
  /\ \/ /\ owner[o] = t
        /\ MutexRelinquish(t, o, NotCancellable(t))
        /\ Goto(t, "unwait")
     \/ /\ owner[o] = NULL /\ ~call[t].waited
        /\ MutexClaim(t, o)
        /\ wait' = [wait EXCEPT ![t] = NotCancellable(t)]
        /\ UNCHANGED <<kill_ticket, queue>>
        /\ Goto(t, "publish")
     \/ /\ owner[o] # t /\ (call[t].waited \/ owner[o] # NULL)
        /\ wait' = [wait EXCEPT ![t] = NotCancellable(t)]
        /\ UNCHANGED <<kill_ticket, queue, owner, owned_internal_mutex_count>>
        /\ Goto(t, "unwait")
  /\ UNCHANGED <<objVars, pubVars, node_owner, life, call, reaper, depth>>

\* MutexLockTimedCancellable: handed over, expired, free, try-only, or park.
Expired(t) == call[t].waited /\ wait[t].wake_by_timeout

LockTake(t) ==
  LET o == call[t].obj IN
  /\ At(t, "lock") /\ ~KillPending(t)
  /\ owner[o] = t \/ ~Expired(t)
  /\ MutexClaim(t, o)
  /\ wait' = [wait EXCEPT ![t] = NotCancellable(t)]
  /\ Goto(t, "publish")
  /\ UNCHANGED <<kill_ticket, queue, objVars, pubVars, node_owner, life, call, reaper, depth>>

LockTimeout(t) ==
  LET o == call[t].obj IN
  /\ At(t, "lock") /\ ~KillPending(t)
  /\ \/ owner[o] # t /\ Expired(t)
     \/ ~MutexAvailable(t, o) /\ call[t].tick = "zero"
  /\ wait' = [wait EXCEPT ![t] = [NotCancellable(t) EXCEPT !.wake_by_timeout = FALSE]]
  /\ Goto(t, "unwait")
  /\ UNCHANGED <<kill_ticket, queue, owner, owned_internal_mutex_count, objVars, pubVars, node_owner, life, call,
                 reaper, depth>>

LockPark(t) ==
  LET o == call[t].obj IN
  /\ At(t, "lock") /\ ~KillPending(t) /\ ~Expired(t) /\ call[t].tick # "zero"
  /\ MutexPark(t, o, [ParkedOn(wait[t], Inner(o), call[t].tick) EXCEPT !.wait_cancellable = TRUE])
  /\ call' = [call EXCEPT ![t].waited = TRUE]
  /\ UNCHANGED <<objVars, pubVars, node_owner, life, pc, reaper, depth>>

\* Mutant: a failed wait keeps its reference.
FailsAndLeaks(t) ==
  /\ At(t, "unwait")
  /\ Goto(t, "return")
  /\ UNCHANGED <<schedVars, objVars, pubVars, node_owner, life, call, reaper, depth>>

\* Cancelled or TimedOut: drop the wait reference.
AcquireFails(t) ==
  /\ At(t, "unwait")
  /\ KObjectRelease(call[t].obj)
  /\ Goto(t, "return")
  /\ UNCHANGED <<schedVars, handles, pubVars, node_owner, life, call, reaper, depth>>

\* Acquired: the public fields are published under the inner mutex.
AcquirePublish(t) ==
  LET o == call[t].obj IN
  /\ At(t, "publish")
  /\ recursion' = [recursion EXCEPT ![o] = 1]
  /\ owner_tid' = [owner_tid EXCEPT ![o] = t]
  /\ held' = [held EXCEPT ![o] = TRUE]
  /\ Goto(t, "track")
  /\ UNCHANGED <<schedVars, objVars, abandoned_pending, node_owner, life, call, reaper, depth>>

\* SchedTrackCurrentAbandonableOwnership.
AcquireTrack(t) ==
  LET o == call[t].obj IN
  /\ At(t, "track") /\ node_owner[o] = NULL
  /\ node_owner' = [node_owner EXCEPT ![o] = t]
  /\ Goto(t, "exchange")
  /\ UNCHANGED <<schedVars, objVars, pubVars, life, call, reaper, depth>>

\* Mutant: the report reads the flag without consuming it.
StillPending(o) == abandoned_pending[o]

ReportedPending(o) == FALSE

\* The one-shot exchange: Abandoned if an abandonment is pending.
AcquireReport(t) ==
  LET o == call[t].obj IN
  /\ At(t, "exchange")
  /\ abandoned_pending' = [abandoned_pending EXCEPT ![o] = ReportedPending(o)]
  /\ depth' = [depth EXCEPT ![t][o] = 1]
  /\ Goto(t, "return")
  /\ UNCHANGED <<schedVars, objVars, recursion, owner_tid, held, node_owner, life, call, reaper>>

-----------------------------------------------------------------------------
(* KMutexRelease *)

ReleaseRefused(t) ==
  /\ At(t, "release") /\ ~OwnedByCaller(t, call[t].obj)
  /\ Goto(t, "return")
  /\ UNCHANGED <<schedVars, objVars, pubVars, node_owner, life, call, reaper, depth>>

ReleaseRecursive(t) ==
  LET o == call[t].obj IN
  /\ At(t, "release") /\ OwnedByCaller(t, o) /\ recursion[o] > 1
  /\ recursion' = [recursion EXCEPT ![o] = @ - 1]
  /\ depth' = [depth EXCEPT ![t][o] = @ - 1]
  /\ Goto(t, "return")
  /\ UNCHANGED <<schedVars, objVars, owner_tid, held, abandoned_pending, node_owner, life, call, reaper>>

\* SchedUntrackCurrentAbandonableOwnership.
ReleaseUntrack(t) ==
  LET o == call[t].obj IN
  /\ At(t, "release") /\ OwnedByCaller(t, o) /\ recursion[o] = 1 /\ node_owner[o] = t
  /\ node_owner' = [node_owner EXCEPT ![o] = NULL]
  /\ depth' = [depth EXCEPT ![t][o] = 0]
  /\ Goto(t, "clear")
  /\ UNCHANGED <<schedVars, objVars, pubVars, life, call, reaper>>

ReleaseClear(t) ==
  LET o == call[t].obj IN
  /\ At(t, "clear")
  /\ recursion' = [recursion EXCEPT ![o] = 0]
  /\ owner_tid' = [owner_tid EXCEPT ![o] = NULL]
  /\ held' = [held EXCEPT ![o] = FALSE]
  /\ Goto(t, "unlock")
  /\ UNCHANGED <<schedVars, objVars, abandoned_pending, node_owner, life, call, reaper, depth>>

ReleaseUnlock(t) ==
  /\ At(t, "unlock")
  /\ MutexUnlock(t, call[t].obj)
  /\ Goto(t, "dropholder")
  /\ UNCHANGED <<objVars, pubVars, node_owner, life, call, reaper, depth>>

\* The holder reference goes.
ReleaseDrop(t) ==
  /\ At(t, "dropholder")
  /\ KObjectRelease(call[t].obj)
  /\ Goto(t, "return")
  /\ UNCHANGED <<schedVars, handles, pubVars, node_owner, life, call, reaper, depth>>

-----------------------------------------------------------------------------
(* Death of an owner *)

\* SchedExitTerminal, at the cancellation boundary or by a kernel task.
TaskExit(t) ==
  /\ At(t, "idle") /\ life[t] = "live" /\ owned_internal_mutex_count[t] = 0
  /\ life' = [life EXCEPT ![t] = "Dead"]
  /\ depth' = [depth EXCEPT ![t] = [o \in Objects |-> 0]]
  /\ UNCHANGED <<schedVars, objVars, pubVars, node_owner, pc, call, reaper>>

\* Mutant: the reaper never looks at the ledger.
NoNodes(t) == {}

OwnedNodes(t) == {o \in Objects : node_owner[o] = t}

\* Mutant: detached nodes keep naming the dead task.
NodesKept(t) == node_owner

NodesDetached(t) == [o \in Objects |-> IF node_owner[o] = t THEN NULL ELSE node_owner[o]]

\* The reaper takes the whole zombie list; later exits form the next batch.
ReaperDrain ==
  LET g_zombies == {t \in Tasks : life[t] = "Dead"} IN
  /\ reaper.at = "idle" /\ g_zombies # {}
  /\ reaper' = [ReaperIdle EXCEPT !.batch = g_zombies, !.at = "pick"]
  /\ UNCHANGED <<schedVars, objVars, pubVars, node_owner, life, pc, call, depth>>

\* One zombie of the batch: its ledger is detached in one lock hold.
ReaperDetach(t) ==
  /\ reaper.at = "pick" /\ t \in reaper.batch
  /\ reaper' = [batch |-> reaper.batch \ {t}, task |-> t, nodes |-> OwnedNodes(t), node |-> NULL, at |-> "next"]
  /\ node_owner' = NodesDetached(t)
  /\ UNCHANGED <<schedVars, objVars, pubVars, life, pc, call, depth>>

\* RunAbandonableOwnershipCallbacks, one node at a time.
ReaperNext(o) ==
  /\ reaper.at = "next" /\ o \in reaper.nodes
  /\ reaper' = [reaper EXCEPT !.nodes = @ \ {o}, !.node = o, !.at = "publish"]
  /\ UNCHANGED <<schedVars, objVars, pubVars, node_owner, life, pc, call, depth>>

\* KMutexAbandonOwnership: abandoned state is published before the hand-off.
AbandonPublish ==
  LET o == reaper.node IN
  /\ reaper.at = "publish"
  /\ recursion' = [recursion EXCEPT ![o] = 0]
  /\ owner_tid' = [owner_tid EXCEPT ![o] = NULL]
  /\ held' = [held EXCEPT ![o] = FALSE]
  /\ abandoned_pending' = [abandoned_pending EXCEPT ![o] = TRUE]
  /\ reaper' = [reaper EXCEPT !.at = "abandon"]
  /\ UNCHANGED <<schedVars, objVars, node_owner, life, pc, call, depth>>

\* MutexAbandon: whoever owns the inner mutex is dropped and the head takes over.
MutexAbandon ==
  LET o == reaper.node IN
  /\ reaper.at = "abandon" /\ owner[o] # NULL
  /\ MutexRelinquish(owner[o], o, wait[owner[o]])
  /\ reaper' = [reaper EXCEPT !.at = "release"]
  /\ UNCHANGED <<objVars, pubVars, node_owner, life, pc, call, depth>>

AbandonRelease ==
  /\ reaper.at = "release"
  /\ KObjectRelease(reaper.node)
  /\ reaper' = [reaper EXCEPT !.node = NULL, !.at = "next"]
  /\ UNCHANGED <<schedVars, handles, pubVars, node_owner, life, pc, call, depth>>

\* The Task structure is freed.
ReaperFree ==
  /\ reaper.at = "next" /\ reaper.nodes = {}
  /\ life' = [life EXCEPT ![reaper.task] = "reaped"]
  /\ reaper' = [reaper EXCEPT !.task = NULL, !.at = IF reaper.batch = {} THEN "idle" ELSE "pick"]
  /\ UNCHANGED <<schedVars, objVars, pubVars, node_owner, pc, call, depth>>

\* A later task is created in storage the allocator hands out again.
TaskCreate(t) ==
  /\ life[t] = "reaped"
  /\ life' = [life EXCEPT ![t] = "live"]
  /\ kill_ticket' = [kill_ticket EXCEPT ![t] = FALSE]
  /\ wait' = [wait EXCEPT ![t] = NotWaiting]
  /\ UNCHANGED <<queue, owner, owned_internal_mutex_count, objVars, pubVars, node_owner, pc, call, reaper, depth>>

-----------------------------------------------------------------------------
SchedOnly == UNCHANGED <<objVars, pubVars, node_owner, life, pc, call, reaper, depth>>

\* What a task inside a call does next.
Continue(t) ==
  \/ AcquireRecursive(t) \/ AcquirePin(t)
  \/ LockKilled(t) \/ LockTake(t) \/ LockTimeout(t) \/ LockPark(t) \/ AcquireFails(t)
  \/ AcquirePublish(t) \/ AcquireTrack(t) \/ AcquireReport(t)
  \/ ReleaseRefused(t) \/ ReleaseRecursive(t) \/ ReleaseUntrack(t) \/ ReleaseClear(t)
  \/ ReleaseUnlock(t) \/ ReleaseDrop(t)
  \/ ReturnFromCall(t)

KMutexAcquire(t, o) == \E tick \in Timeouts : EnterCall(t, o, "acquire", tick)
KMutexRelease(t, o) == EnterCall(t, o, "release", "none")

Reap ==
  \/ ReaperDrain
  \/ \E t \in Tasks : ReaperDetach(t)
  \/ \E o \in Objects : ReaperNext(o)
  \/ AbandonPublish \/ MutexAbandon \/ AbandonRelease \/ ReaperFree

Next ==
  \/ \E t \in Tasks, o \in Objects : KMutexAcquire(t, o) \/ KMutexRelease(t, o)
  \/ \E t \in Tasks : Continue(t) \/ TaskExit(t) \/ TaskCreate(t)
  \/ \E t \in Tasks : (OnTimerTick(t) /\ SchedOnly) \/ (life[t] = "live" /\ SignalTask(t) /\ SchedOnly)
  \/ \E o \in Objects : CloseHandle(o)
  \/ Reap

Spec == Init /\ [][Next]_vars

(* A call in progress is executed, the timer ticks, the reaper runs.       *)
Fairness ==
  /\ \A t \in Tasks : WF_vars(Continue(t)) /\ WF_vars(OnTimerTick(t) /\ SchedOnly)
  /\ WF_vars(Reap)

FairSpec == Spec /\ Fairness

-----------------------------------------------------------------------------
(* Properties *)

(* What a task was told agrees with the object: a task that KMutexAcquire  *)
(* told it owns the mutex, and that has not released it, is the inner      *)
(* owner and the public owner, at the recursion depth it counts.  Two such *)
(* tasks cannot exist, so this contains mutual exclusion across hand-off,  *)
(* timeout, cancellation and abandonment.                                  *)
OwnershipAgrees ==
  \A t \in Tasks, o \in Objects : depth[t][o] > 0 =>
    owner[o] = t /\ held[o] /\ owner_tid[o] = t /\ recursion[o] = depth[t][o] /\ node_owner[o] = t

(* Every reference is accounted for: one per open handle, one per call in  *)
(* progress, and one that begins with the wait and becomes the holder's,   *)
(* which the release, the failed wait or the reaper gives back.  So the    *)
(* storage of a mutex that is owned or waited for is never returned,       *)
(* although every handle on it may be closed.                              *)
Pinning == {"lock", "unwait", "publish", "track", "clear", "unlock", "dropholder"}
Callers(o) == {t \in Tasks : call[t].obj = o}
Detaining(o) == {n \in {"ledger", "reaper"} :
                   IF n = "ledger" THEN node_owner[o] # NULL ELSE o \in reaper.nodes \cup {reaper.node}}
RefcountExact ==
  \A o \in Objects :
    /\ refcount[o] = handles[o] + Cardinality(Callers(o)) + Cardinality({t \in Callers(o) : pc[t] \in Pinning})
                       + Cardinality(Detaining(o))
    /\ refcount[o] = 0 => owner[o] = NULL /\ queue[Inner(o)] = <<>> /\ ~held[o]

(* The branches that need an inconsistency are never taken: the ledger     *)
(* accepts a new owner, a release finds its ledger entry, an acquire is    *)
(* never of a mutex handed to a task that did not wait, and the reaper     *)
(* finds the dead task as the owner of what its ledger held.               *)
KernelAssertions ==
  /\ \A t \in Tasks : LET o == call[t].obj IN
       /\ pc[t] = "track" => node_owner[o] = NULL
       /\ pc[t] = "release" /\ OwnedByCaller(t, o) => node_owner[o] = t /\ recursion[o] > 0
       /\ pc[t] = "lock" /\ owner[o] = t => call[t].waited
       /\ pc[t] = "unlock" => owner[o] = t
  /\ reaper.at = "abandon" => owner[reaper.node] = reaper.task

(* A freed Task structure is referenced by no mutex and no ledger, so a    *)
(* task created in the same storage inherits nothing.                      *)
DeadTaskForgotten ==
  \A t \in Tasks : life[t] = "reaped" =>
    /\ ~Blocked(t) /\ owned_internal_mutex_count[t] = 0
    /\ \A o \in Objects : owner[o] # t /\ owner_tid[o] # t /\ node_owner[o] # t

(* The mutex of a dead owner is handed on.                                 *)
DeadOwnerLetsGo ==
  \A t \in Tasks, o \in Objects : (life[t] = "Dead" /\ owner[o] = t) ~> owner[o] # t

(* Cancellation and a finite timeout end a wait whatever the owner does:   *)
(* a kill or a deadline that races the hand-off is not forgotten.          *)
WaitsEnd ==
  \A t \in Tasks : (pc[t] = "lock" /\ (KillPending(t) \/ call[t].tick = "deadline")) ~> pc[t] # "lock"

(* What the object promises, one object at a time.                         *)
Promise(o) == INSTANCE AbandonableMutex
  WITH holder <- IF held[o] THEN owner_tid[o] ELSE NULL,
       count <- recursion[o],
       abandoned <- abandoned_pending[o]

(* KMutex implements the abandonable recursive mutex: the interleaving of  *)
(* waiters, killers, the timer and the reaper is invisible behind it.      *)
\* (\A o \in Objects : Promise(o)!Spec, written with the quantifier inside the box.)
ImplementsAbandonableMutex ==
  /\ \A o \in Objects : Promise(o)!Init
  /\ [][\A o \in Objects : Promise(o)!Next \/ UNCHANGED Promise(o)!vars]_pubVars
=============================================================================
