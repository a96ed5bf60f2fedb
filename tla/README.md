# DuetOS: TLA+ models, model checks and proofs

DuetOS is a monolithic x86-64 kernel with native, Win32 and Linux personalities.
This project models the part of it on which the rest of the kernel stands and where
most of its concurrency lives: the kernel objects of `kernel/ipc/`, the handle tables
through which every process reaches them, and the scheduler's sleeping primitives
under them, then the message ports and service channels built on these, and the work
pool. Paths below are relative to the repository root.

1. [Inventory](#1-inventory)
2. [Modules and their correspondence to the code](#2-modules-and-their-correspondence-to-the-code)
3. [Model-checking runs](#3-model-checking-runs)
4. [Fairness](#4-fairness)
5. [Proofs](#5-proofs)
6. [Findings](#6-findings)
7. [What is not modelled](#7-what-is-not-modelled)
8. [Plan](#8-plan)

## 1. Inventory

Modelled today:

| component | state it keeps | operations | what is hard | what makes it correct |
|---|---|---|---|---|
| KObject (`kernel/ipc/kobject.*`) | reference count under `g_kobject_lock`, destroy callback | init, checked acquire, release | saturation, resurrection of a dying object, a destroy that runs twice | the count equals the owners; destroyed once, never used after |
| Handle table (`kernel/ipc/handle_table.*`) | rows (object, rights, generation, pins, reservation nonce), active operations, Open/Draining/Closed | insert, reserve/publish/abort, lookup, duplicate, detach/remove, replace, adopt-replace, drain | pointers copied under one lock and retained under another; close and drain waiting for pins; generations running out; storage reused | stale tokens stay dead, rights only shrink, drains and closes end, nothing leaks |
| Wait queues, mutex, condition variable, cancellation (`kernel/sched/sched.cpp`) | FIFO queues, mutex owner, per-task wait fields, kill ticket | lock (blocking, timed, cancellable), unlock with hand-off, abandon, wait, signal, broadcast, timer expiry, kill | wake-up, deadline and kill racing for the same sleeper | queue and task agree, nobody sleeps behind a free mutex |
| KMutex (`kernel/ipc/kmutex.*`) | recursion, owner, abandonment, ledger node | acquire, release, abandonment by the reaper | an owner that dies; a successor that is killed during hand-off; handles closed under waiters | mutual exclusion, abandonment reported, references exact |
| KSemaphore (`kernel/ipc/ksemaphore.*`) | permit count | acquire, timed acquire, release | overflow at the maximum, one wake-up for several permits | permits conserved, none left beside a waiter |
| KEvent (`kernel/ipc/kevent.*`) | signaled, kind | set, reset, wait, timed wait | the one wake-up of an auto-reset Set given to a waiter that leaves | a Set satisfies at most one wait and is not lost |
| `SYS_WAIT_MULTI` (`kernel/syscall/syscall.cpp`) | locals of the polling loop | poll, claim, yield or sleep | test and claim in two lock holds; no look at the kill ticket | one Set, one waiter; the call returns |
| Message ring and port (`kernel/ipc/message_ring.*`, `kernel/ipc/kmessage_port.*`) | byte ring, one producer reservation, one receive lease; closed | send, try-receive, wait-readable, close | frames copied in and out without a lock while close, kill and other callers run | a FIFO: frames whole, once, in order; nothing reserved or parked for good |
| Request ledger (`kernel/ipc/endpoint_request_ledger.*`) | request slots of an epoch, next id | reserve, commit, cancel, complete, drain | stale ids, the end of the id sequence | a request ends once |
| Object transfer (`kernel/ipc/object_transfer.*`) | rows owning one reference, pins | export, import, revoke, close | an import retains outside the lock; revoke and close answer Busy | the object's count equals its owners, across both tables |
| Channel core (`kernel/ipc/channel_core.*`) | ports, tables and ledgers, operation pins, epoch | acquire, request calls, release, drain | the drain drops its lock while operations are pinned | nothing is detached in use |
| Service endpoint (`kernel/core/service_endpoint.*`) | slot, two endpoint objects, drain driver and its retry flag | create, activate, acquire, release, drive the drain, release by the owner, recycle | the drain is handed between closers, operations and the owner | a closing channel is always somebody's; slots come back or are retired |
| Endpoint system calls (`kernel/syscall/service_endpoint_ingress.cpp`) | reply receipts | send, receive, reply, export, import, revoke, close, cancel process | each call is a dozen lock holds of five components | all of the above together |
| Work pool (`kernel/sched/workpool.*`) | lanes, counters under another lock | submit, try-submit, drain, shutdown, worker loop | an item is visible before it is counted | a drain returns when all work is done, and only then |

How they interact: a system call looks its handle up (`HandleTableLookupRef`), which
pins the row, retains the object and unpins; the operation runs on the retained
reference and takes a further one while it may block; the object's mutex and condition
variable put the task on a scheduler queue; the timer tick and `SignalTask` may take it
off again; the whole call runs with cancellation deferred, so a killed task leaves
through the return path of its call; the reaper abandons the mutexes of dead tasks;
process exit drains the table. Closing the last handle never waits for users of the
object; the references they hold keep its storage.

A service channel is a pair of endpoint objects in two processes' handle tables. A call
on one of them looks the handle up, pins an operation on the channel core, works on the
borrowed port, ledger or transfer table without holding the core's lock, unpins, and
helps with a drain it may have been holding up. A close of either end, the end of either
process and the directory's release of the channel each try to drain it; the first
becomes the driver, the others leave a note for it. The detached resources are given
back, and the slot is recycled when both endpoint objects and the owner have let go.

Surveyed and not modelled (section 7 gives the reasons):

| component | state | hard behaviour | what would make it correct |
|---|---|---|---|
| Mailbox, waitable (`ipc/kmailbox`, `ipc/kwaitable`) | bounded FIFO, predicates | two condition variables, killed waiters | no message beside a sleeping receiver |
| Locks (`sync/`) | rwlock, RCU rings, seqlock, spinlock, lockdep | writer preference, grace periods | exclusion, no stranded reader, no early reclaim |
| Services (`core/service_*` other than the endpoint) | transition phases, generations, exit records | late publications, stops and exit notices of earlier instances | a stale ticket changes nothing |
| Jobs, domains, thread groups (`proc/`) | keyed rows, charges, tickets | termination against a member being published | charges return to zero, keys of retired rows do not resolve |
| Boot slots (`fs/boot_slot`, `fs/installer`, `diag/heartbeat`) | active, pending, tries, last healthy, on disk | a reset between any two writes | an unhealthy slot is left, a healthy one kept |
| Everything else | file systems, memory, network, security policy, loaders, personalities, drivers, shell, applications | mostly sequential, or tied to hardware and formats | not modelled |

`PROJECT.json` lists every component with its sources, and the hazards, each with its line
and the properties that cover it (or why none does).

## 2. Modules and their correspondence to the code

| module | models | used by |
|---|---|---|
| `HandleTable` | `kobject.*`, `handle_table.*` | `MCHandleTable`, `HandleTableProofs` |
| `SchedSync` | the sleeping primitives of `sched.cpp` | `KMutex`, `CondvarObject` |
| `KMutex` | `kmutex.*`, the owned-object ledger and the reaper of `sched.cpp` | `MCKMutex` |
| `AbandonableMutex` | abstract: what KMutex promises | `KMutex` (refinement) |
| `CondvarObject` | the call skeleton of an object with a mutex and a condition variable | `KSemaphore`, `KEvent`, `KMessagePort` |
| `KSemaphore`, `KEvent` | `ksemaphore.*`, `kevent.*` | `MCKSemaphore`, `WaitMulti` |
| `WaitPromise` | abstract: what a semaphore or an event promises its waiters | `KSemaphore`, `KEvent` (refinement) |
| `WaitMulti` | `SYS_WAIT_MULTI` composed with the events it polls | `MCWaitMulti` |
| `MessageRing` | `message_ring.*`: operators on rings | `KMessagePort` |
| `KMessagePort` | `kmessage_port.*` | `MCKMessagePort` |
| `MessageQueue` | abstract: what a port promises | `KMessagePort` (refinement) |
| `EndpointRequestLedger`, `ObjectTransfer` | `endpoint_request_ledger.*`, `object_transfer.*`: operators on ledgers and tables | `ChannelCore` |
| `ChannelCore` | `channel_core.*` | `ServiceEndpoint` |
| `ServiceEndpoint` | `service_endpoint.*`, and what `service_directory.cpp` does with a channel | `ServiceEndpointIngress` |
| `ServiceEndpointIngress` | `service_endpoint_ingress.cpp`: the calls, over all of the above | `MCServiceEndpoint` |
| `WorkPool` | `workpool.*` | run as it is |
| `HandleTableProofs` | lemmas about counting, theorems about `HandleTable`: references and storage; tokens, rights and reservations | |
| `SchedSyncProofs` | lemmas about counting, the queues and the primitives of `SchedSync` | `KMutexProofs`, `CondvarObjectProofs` |
| `KMutexProofs` | theorems about `KMutex` | |
| `CondvarObjectProofs` | lemmas about every call of `CondvarObject` | `KSemaphoreProofs`, `WaitMultiProofs`, `KMessagePortProofs` |
| `KMessagePortProofs` | lemmas about `MessageRing`, theorems about `KMessagePort` | |
| `KSemaphoreProofs`, `WaitMultiProofs` | theorems about `KSemaphore`, and about `KEvent` with its multi-waiters | |
| `ServiceEndpointProofs` | theorems about `ServiceEndpointIngress`, with all the modules under it | |

One rule fixes the grain of every module: a critical section is one action, because the
code's spinlocks (`table.lock`, `g_kobject_lock`, `g_sched_lock`) make it atomic, and
everything between two critical sections is an interleaving point. A call that is refused
before it changes anything is a stuttering step and has no action.

**HandleTable.** `slots[<<t, i>>]` is a `HandleSlot`, `tab[t]` the header of a
`HandleTable`, `refcount` and `life` an object's count and storage. `pc[th]`, `reg[th]`
and `held[th]` are where a thread stands, the locals of the call and the reference it
owns; `victims[th]` is the array a drain fills; `ticket[th]` a `HandleTableReservation`.
A token is a slot and a generation, and callers pass every such pair, stale and forged
ones included. A thread at `"using"` owns a reference, whether it created the object, looked
it up, detached it or was handed it by an adopt-replace; any such owner may release it, or
insert, publish or adopt-replace it with rights of its choice, as the opens of named objects,
the import of a transferred object and the descriptor duplications of `process.cpp` do. So
rights belong to a *grant*, not to an object. `lineage` (in a row and in the locals that carry
a copy of it) and `spent` are history: the rights of the grant from which a handle descends, cut
down by every duplication and replacement on the way, and the tokens that have ceased to
resolve. No guard reads them. `RequestableRights` bounds the sets of rights that callers ask
for and `Reservers` the threads that make reservations; the proofs take any. A lookup, for instance, is
`HandleTableLookupRef` (pin, under `table.lock`), `KObjectAcquire` (under
`g_kobject_lock`), `Unpin` (under `table.lock`); a close is `HandleTableDetach` (mark
Closing), `FinishDetach` (when the pins are gone), `KObjectRelease`, `DestroyCallback`.
`TableReuse` is the process structure freed after its drain and allocated again: only the
reservation nonce tells the old tickets from the new ones.

**SchedSync.** `wait[t]` holds the wait fields of a `Task`; `queue` the wait queues;
`owner` each mutex's owner. `MutexRelinquish` is the hand-off: owner, queue and the
successor's wait fields change in one step. `OnTimerTick` and `SignalTask` unlink a
sleeper; `ClassifyCancellableWaitResume` decides what a woken task is told. Run queues,
CPUs and priorities are absent: a task that is not blocked may take its next step at
any time.

**KMutex.** One action per lock hold of `KMutexAcquire*` and `KMutexRelease`, the
reaper's loop (`ReaperDrain` to `ReaperFree`), handle close, task exit and reuse of Task
storage. Branches reached only from an inconsistent structure have no action;
`KernelAssertions` states that they are not reached. `depth` is history: what each task
was told it owns.

**CondvarObject, KSemaphore, KEvent.** A call goes through lock, test or body, perhaps
park and resume, unlock and return; the object supplies what is tested and what the body
does. Deadlines are absolute, as in the code: a wait that is woken and overtaken keeps
the first one. `manual_reset` is a variable so that one run covers both kinds of event.

**WaitMulti.** Each pass of the loop locks each event, peeks (`PeekBody`), and when
satisfied locks the winners again and clears them (`ClearBody`). The tasks in
`MultiTasks` make this call too; outside it they call the event directly like the others.
Semaphore and
thread handles, which the code polls and never claims, are left out.

**MessageRing, KMessagePort.** The ring is a record and each hold of its lock an operator
on it. Storage is counted in units of a record header, so that wrap-around inside a frame
and a full ring are there; a unit being copied is *torn*, and a frame is named by the
reservation that copied it in. A send is `SendCheck` (under the port's mutex),
`SendPrepare` (reserve; the mutex is not held), `SendCopy`, `SendPublish` (mutex again,
closed or not); a receive is `ReceiveLease`, `ReceiveCopy`, `ReceiveCommit`. Waiting for
readability is `CondvarObject`'s wait. Reservation, lease, copy and sequence numbers run
out at `kU64Max`, which ends the model's life of a port.

**EndpointRequestLedger, ObjectTransfer, ChannelCore.** The ledger has no lock and the
table's critical sections are short: both are operators on records. `core` holds the state
and flags of a `ChannelCore`; an operation slot is named by the thread whose pin it is.
`DrainBegin`, `DrainClose`, `DrainEnd` are `DrainCore`'s first lock hold, its unlocked
closing of ports and tables and its second hold. The two directions of a channel share
only the core, so one is modelled: requests go from the client to the server, and of the
other port only the closing matters.

**ServiceEndpoint.** `slot` is a `ServiceEndpointOwnerSlot`; `handle[r]` says where the
pair's reference to the endpoint object of role `r` is (not yet published, queued for an
accept, in a process's handle table); `refcount[r]` counts that reference and those of the
calls. `DriveDrain` is `DriveEnter` (the owner's lock: become the driver, or leave
`drain_retry_requested`), the core's drain, `DriveCleanup` and `DriveSettle` (go round
again, or let go). `Releasing` stands for the directory's `release_driver_active`.

**ServiceEndpointIngress.** One action per lock hold of each system call, with
`pc` and `call` as place and locals. `receipt` is the table of reply receipts, `source`
and `destination` the client's handle to the exported object and the slot of the server's
table that an import fills, `object` the object's reference count. `fate` is history: how
often each request has ended. `PinOperation` to `HelpDrain` bracket every call.

**WorkPool.** A step is a hold of a lane's lock or of the pool's inner lock.
`TryPushToLane` (lane) and `CountPush` (inner) are two steps, as are `TryPopFromLane` and
`AccountPop`. `owed` is history: what was queued, its submit complete, or running when a
drain began.

## 3. Model-checking runs

| run | instance | shows |
|---|---|---|
| `handle_one` | 2 threads, 1 table of 2 usable slots, 2 objects, generations 1..2, counters saturating at 2, nonces 1..2, one right | type correctness, exact counts, no dangling pointer, destroy once, the KASSERTs, stale tokens stay dead, reservations exact, a Closed table is drained |
| `handle_live` | 2 threads, 1 table of 2 usable slots, 1 object, generations 1..2, counters saturating at 2, one thread that makes one reservation (`Reservers`), callers that ask for one right, for two, or for what the source has; fair | rights never grow along a lineage, although the source is narrowed in place, closed or adopt-replaced meanwhile; closes, adopt-replaces and drains end; the last release frees |
| `kmutex_three` | 3 tasks, 1 mutex, timed waits | queues agree with tasks, no forgotten waiter, ownership agrees with what tasks were told, references exact, kernel assertions, a freed Task is forgotten |
| `kmutex_promise` | 2 tasks, recursion to its limit, zero/finite/infinite timeouts, fair | KMutex implements `AbandonableMutex`; a dead owner lets go; killed and timed waits end |
| `semaphore_three` | 3 tasks, at most 2 permits, releases of 2, word of 2 bits, timed waits | KSemaphore implements `WaitPromise`; no permit beside a parked waiter |
| `event_three` | 3 tasks, 1 event of either kind | no lost wake-up, lock discipline, exact references, KEvent implements `WaitPromise` |
| `multi_live` | 2 tasks that set, reset and wait with a deadline, one of which also multi-waits with the same event listed twice; kills; fair | waits end although the waiter is woken and overtaken again and again, and timed multi-waits end |
| `multi_claim`, `multi_kill` | one multi-waiter, one other task | the first two findings of section 6 |
| `port_three` | 1 port, 2 tasks (`Workers`) that send, receive and close, a third that waits and is killed (`Mortals`); ring of 4 units, frames of 1 and 2 units, numbers 1..2 | the ring never reports CorruptState, no reservation or lease is orphaned, nobody is parked beside a frame or on a closed port; KMessagePort implements `MessageQueue` |
| `endpoint_two` | 2 threads, 1 slot with 2 generations, 1 transfer row, ledger of 1 slot and 2 ids, 1 receipt row with 2 generations; the threads send, receive and reply, or export, import and revoke (`Mixes`); both ends are closed and drained at any time | the core stays canonical, no abandoned drain, nothing in use is detached, each request ends once, the exported object's count is exact |
| `workpool_drain` | 2 workers, 2 callers, 1 submit each (`MaxSubmits`), lanes of 1 | the third finding of section 6 |

Why the bounds are enough for what is asked: every counter is given a limit it reaches
(generations, nonces, reference count, permits, recursion), so the refusal branches run.
Two threads are enough for the pairwise races of the handle table, since each action
touches one row and one object and a third thread repeats one of the two roles; the
proofs of section 5 remove that bound for the safety properties they cover. In `handle_live`
two generations let a replace and an adopt-replace happen to a live handle, and two sets of
rights let the replace take a right away between a duplicate's snapshot and its insert. In
`multi_live` overtaking needs a waiter and one other task that sets the event and then takes
the signal itself, by a wait or by a multi-wait; the two tasks can be either, so the cycle in
which a waiter is woken and finds the event clear is there (the mutant of `WaitsEnd`, which arms
the deadline anew at each wake, is refuted by it). Three tasks
are needed for the queues: an owner, a waiter that is being handed the mutex or the
wake-up, and a second waiter who must not be forgotten when the first one leaves. The ring
of 4 units holds one large frame or two small ones and wraps in the middle of a frame; two
numbers let a second send and a second receive meet the aborted first ones. On a channel
the hazards are between an operation and a drain, or between two drivers; two threads can
be any of these, and since a thread that has left is free to come back in another role, a
drain still passes through three hands. Two generations make a stale thread meet a
recycled slot, and the retirement after the second is reached. The requests and the
object transfers of a channel share only the core, so one behaviour has either
the one or the other (`Mixes`). Symmetry
is used only in runs without liveness properties, over threads, tasks and objects that
no constant tells apart.

Deadlock is checked except in the handle-table and endpoint runs, where the system really
stops once generations and nonces are used up and tables or slots are closed, and in the
work-pool run, which ends with the pool.

`TypeOK` of `KSemaphore`, `KMessagePort` and `WaitMulti` is stated there and holds in these
instances (TLC checks them by adding the name to the cfg), but is not among the properties
of a run, which are kept for what relates the parts to each other.

Every property of a passing run is also run against a mutated definition (`PROJECT.json`,
`mutants`) that TLC finds violating it; the mutated forms are the operators commented
`Mutant` in the modules.

## 4. Fairness

Weak fairness is assumed for three things and nothing else.

- *A call in progress takes its next step when it can.* Kernel code on a preemptive
  scheduler is run again; a call spins (`PauseWhileClosing`) or blocks only where the
  model has it wait. Beginning a call is never fair.
- *The timer ticks.* `OnTimerTick` runs on every timer interrupt.
- *The reaper runs.* It is a kernel task woken when a task becomes a zombie.

Kills, handle closes, task creation, Set, Release and Reset are not fair: no liveness
property depends on somebody else's goodwill. So an untimed wait need not end, and no
property says that it does.

## 5. Proofs

The theorems hold for every value of the constants that the named assumptions allow; the
runs of section 3 check the same formulas on one small instance each.

| module | theorem | states |
|---|---|---|
| `HandleTableProofs` | `Inductive` | `Spec => []IInv` |
| | `TypeCorrect` | `Spec => []TypeOK` |
| | `RefcountCorrect` | `Spec => []RefcountExact` |
| | `DanglingFree` | `Spec => []NoUseAfterFree` |
| | `DestroyedOnce` | `Spec => []DestroyOnce` |
| | `AssertionsHold` | `Spec => []KernelAssertions` |
| | `AuthorityInductive` | `Spec => []AInv` |
| | `StaleTokens` | `Spec => []StaleTokenNeverResolves` |
| | `RightsNeverGrow` | `Spec => []NoRightsAmplification` |
| | `ClosedIsDrained` | `Spec => []ClosedMeansDrained` |
| | `ReservationsExact` | `Spec => ReservationExact`, an action property |
| `KMutexProofs` | `MutexInductive` | `Spec => []MInv` |
| | `MutexTypes` | `Spec => []TypeOK` |
| | `MutexQueuesLinked` | `Spec => []QueuesConsistent` |
| | `MutexWaitersRemembered` | `Spec => []NoForgottenWaiter` |
| | `MutexOwnership` | `Spec => []OwnershipAgrees` |
| | `MutexAssertions` | `Spec => []KernelAssertions` |
| | `MutexForgetsTheDead` | `Spec => []DeadTaskForgotten` |
| | `MutexReferences` | `Spec => []RefcountExact` |
| | `MutexImplements` | `Spec => ImplementsAbandonableMutex`, a refinement |
| `KSemaphoreProofs` | `SemaphoreInductive` | `Spec => []SInv` |
| | `SemaphoreTypes` | `Spec => []TypeOK` |
| | `SemaphoreStrandsNoPermit` | `Spec => []NoStrandedPermit` |
| | `SemaphoreReferences` | `Spec => [](ReferencesExact /\ MutexDiscipline)` |
| | `SemaphoreImplements` | `Spec => ImplementsSemaphore`, a refinement |
| `WaitMultiProofs` | `EventInductive` | `Spec => []EInv` |
| | `EventLosesNoWakeup` | `Spec => []NoLostWakeup` |
| | `EventMutexDiscipline` | `Spec => []MutexDiscipline` |
| | `EventReferences` | `Spec => []ReferencesExact` |
| | `EventImplements` | `MultiTasks = {} /\ Spec => ImplementsEvent`, a refinement |
| `KMessagePortProofs` | `PortInductive` | `Spec => []PInv` |
| | `PortRingNeverCorrupt` | `Spec => []RingNeverCorrupt` |
| | `PortNoOrphanLease` | `Spec => []NoOrphanLease` |
| | `PortMissesNoReadable` | `Spec => []NoMissedReadable` |
| | `PortReferences` | `Spec => [](ReferencesExact /\ MutexDiscipline)` |
| | `PortImplementsQueue` | `Spec => ImplementsQueue`, a refinement |
| `ServiceEndpointProofs` | `EndpointInductive` | `Spec => []EInv` |
| | `EndpointTypes` | `Spec => []TypeOK` |
| | `EndpointCore` | `Spec => []CoreNeverCorrupt` |
| | `EndpointDrain` | `Spec => []NoAbandonedDrain` |
| | `EndpointInUse` | `Spec => []NothingInUseDetached` |
| | `EndpointRequests` | `Spec => []RequestEndsOnce` |
| | `EndpointObject` | `Spec => []ObjectReferencesExact` |

What the theorems add to the runs. The handle-table runs have one table, so duplicates
between tables are covered only by the proofs. The mutex runs have one mutex: that a task
may hold several, that its ledger then has several nodes and that the reaper detaches and
abandons them one by one is covered by the proofs. The event run has no timed waits and no
multi-waiters, the run with both has two tasks; the theorems allow any mixture, and any
arrays of handles. The port run has one port with a small ring and a number space that ends
early; the theorems have any capacity of at least two units, any set of frame sizes and any
`kU64Max`. The endpoint run has two threads, a slot that is retired after its second channel,
two request ids, one receipt row and one transfer row, and calls requests or transfers as
`Mixes` says; the theorems have any number of each, any capacities and any mix, so that
several closers, pinned operations and late replies of earlier channels meet in one drain. The refinements hold for every object at once and any number of tasks, where the
runs have three tasks and one object.

### Assumptions

The proofs use the ASSUMEs of the modules they are about and nothing else, and TLC
evaluates all of these on the runs: limits that are positive (`ConstantsAssumption`,
`MaxRecursion`, `MaxCount` at most the largest word), finite sets where something is counted
(threads, tables, objects; tasks; the rows of a transfer table and of the receipt table), a null pointer that is none of the things it is compared
with, a ring of at least two units, and the ownership class the object passes to its inner
mutex. `Objects` of the mutex, semaphore, event and port need not be finite.

### Handle table, first invariant

None of the five properties about references and storage is inductive. That a lookup's unretained
pointer is safe depends on its pin, that the pin is counted depends on every other lookup of
the row, and that a drain may release the row depends on the table's operation count covering
all of them. The invariant is

    IInv == TypeOK /\ LocalsOK /\ TableInv /\ DrainOK /\ CountsExact /\ LifeOK
    TableInv == PinsExact /\ OpsExact /\ RowsOK /\ PinnedRows /\ ClosingRows

- `LocalsOK`: the locals a call needs at its place are set (its row, its pointer, the
  reference it owns).
- `PinsExact`, `OpsExact`: a row's pins and a table's active operations equal the number
  of threads that are at a place between pin and unpin, or between begin and end. Exact
  rather than bounded, because the last one out must find the counter at one.
- `RowsOK`: what each slot state says about the row's other fields.
- `PinnedRows`, `ClosingRows`: a row in use by a thread still holds that thread's
  object, and a Closing row has one closer.
- `DrainOK`: at each stage of a drain, what is already empty, and that there is one drainer.
- `CountsExact`: reference counts, as numbers of owning places.
- `LifeOK`: an object is alive while its count is positive or its destroyer has not run.

The counting argument rests on two lemmas about cardinalities of sets selected by a predicate
(`CountNat`, `CountUpdate`: changing a function at one point moves a count by what changed
there). `SchedSyncProofs` has the same two for the modules above the scheduler, whose
variables have other names. Frame lemmas
say what a step leaves alone; one lemma per action then shows that it keeps `IInv`.

### Handle table, authority

    AInv == QuietLocals /\ RightsCarried /\ NoRightsAmplification
            /\ Drained /\ SpentPassed /\ TicketsMatch

is proved on top of `IInv`, which may be assumed on both sides of every step. Instead of one
lemma per action and conjunct, every action is shown to move each row along a life cycle
(`RowStep`), and the conjuncts are kept by that life cycle. `RightsCarried` says that the
rights in the locals of a duplicate, an insert or an adopt-replace are already within the
lineage that goes with them and within the object's type before the row is written: the pin
copies rights and lineage of the row together, and the narrowing check of the duplicate
compares with that copy, so what happens to the source afterwards does not matter.
`SpentPassed` is the strengthening of
`StaleTokenNeverResolves`: a row's generation has passed the token's, or it is the same and
the row will not be opened again in it. `TicketsMatch` says that nonces are issued once, so a
ticket whose nonce a reserved row carries is for that row.

### Scheduler and mutex

`SchedSyncProofs` has the operators on queues (what appending, removing the head and removing
a member does to the set of members and to their being there once) and one lemma for each
primitive of `SchedSync`, to the effect that it keeps

    SchedInv == SchedTypeOK /\ QueuesConsistent /\ NoForgottenWaiter

`KMutexProofs` gives each task a *role* for each mutex: in one of the windows of an acquire or
a release, holding it, dead with the mutex still in its ledger, in the reaper's list, being
abandoned, or none. `Fits` says for each role what the inner mutex's owner, the published
owner and depth, the ledger entry and the history are; `RolesFit` that this holds for every
task and mutex. An action takes one task from one role to the next for one mutex and leaves
all other roles alone; a hand-off is the exception, and the successor's role is the same
before and after (it is still at the lock, now as the owner). `UnownedIsFree` connects the
mutex nobody owns with its public fields, `ReaperOK` says what the reaper has taken over and
`ReferencesOK` states the counts. For the refinement, only six actions are visible
(`MutexImplements`): publications and recursive acquires are acquires, clears and recursive
releases are releases, the exchange of the abandonment flag is where it is reported, and the
reaper's publication is the abandonment.

### Semaphore and events

`CondvarObjectProofs` is about the common call skeleton and does not know the object:

    CallInv(ops, args, pcs) == CallTypeOK(ops, args, pcs) /\ SchedInv /\ TasksFit /\ ReferencesOK

`TaskFits` fixes, for each place of a call, what the task owns and on which queue it may be.
One lemma for each action of `CondvarObject` shows that it keeps `CallInv`, whatever the
object's test and body do; a second set (`EnterSeen` to `EnvironmentSeen`) says what of the
call is visible to the promise. `OutcomesFit` ties a wait's outcome to its place.

For the semaphore the object-specific part is `PermitsTaken`: a permit and a parked waiter
exclude each other. It is inductive because a release wakes everybody, and a waiter parks in
the lock hold in which it saw no permit.

For an event it is `SignalsHeeded`: beside a parked waiter an event is signaled only if it is
auto-reset and some other waiter, woken and not cancelled, is on its way to test it. The hard
step is that this waiter leaves without consuming the signal: it times out only after a test,
and a test would have found the signal, and a wake-up that met a kill is not counted as being
on the way. `MultisFit` says that a multi-wait's locals stay inside its handle array.

`EventImplements` assumes that there are no multi-waiters because the claim of a multi-wait
(`ClearBody`) is not a step of `WaitPromise`: it clears the signal without looking, which is
the first finding of section 6. Everything else in `WaitMultiProofs` holds for any
`MultiTasks`.

### Message port

The ring's operations are pure, so they are proved first, one lemma per hold of the ring's
lock. `RingOK` says that there is a *walk*: a function giving the distance from the head at
which each record begins, whose steps are the sizes in the record headers and whose end is
`used`. Reserving and copying touch only cells beyond the end of the walk, a publication
extends it by one step (`Extended`), a commit drops the first and shifts the rest
(`Shortened`), both around the end of the storage. `StateIsValid` and `HeadIsReadable` follow.
That the walk determines what `Queued` lists needs an induction along the records
(`OffsetsWalked`, by the least record at which two candidates would differ); then
`Queued` is appended to by a publication, loses its head by a commit and is not changed by
anything else.

    PInv == CallInv(PortOps, FrameSizes, PortPCs) /\ types of ring, closed and io
            /\ (\A t : TaskIo(t)) /\ (\A o : PortOK(o)) /\ ReadersWoken
    PortOK(o) == PortRing(ring[o]) /\ ProducerOK(o) /\ ReceiverOK(o)

`TaskIo` says at which places of a call a reservation, a lease, copied bytes and success may
be. `ProducerOK` ties the ring's reservation to exactly one send, whose place says whether
its copy is running; `PortRing` adds that a reservation whose copy has ended holds that
send's frame, beyond the end of the walk. `ReceiverOK` ties the lease to exactly one receive
and says that what it has copied equals the frame at the head: nothing that runs in the copy
window (reservations, copies, publications, a close) moves the head, because only the holder
of the lease commits. `ReadersWoken` is `NoMissedReadable` by task rather than by queue; it
is inductive because a publication and the close wake everybody and a waiter parks in the
lock hold in which it saw an empty, open port.

For the refinement the visible steps are the publication (`Send`), the commit on an open port
(`Receive`, delivering the head by `ReceiverOK`), the close and the return of a call that
succeeded. A reservation given up and a lease given back leave `Queued` as it was.

### Service endpoint

    EInv == StateTypes /\ CallsInv /\ SlotInv /\ CoreInv /\ DriverInv /\ OwnerInv
            /\ ReferenceInv /\ RequestInv /\ HolderInv /\ ReceiptInv /\ ObjectInv

None of the six properties is inductive, and they are not independent: that a drain detaches
nothing in use rests on the pins, that a pin finds its slot rests on the references, that a
sent reply completes rests on who has the request's id, and that rests on the receipts of
channels that are gone. Hence one invariant, with one part for each thing that is counted or
handed over:

- `CallsInv`: the locals at each place; only a call that is driving, or destroying, has
  somewhere to go on to, and only the driver at its cleanup has detached requests.
- `SlotInv`, `CoreInv`: what each state of the slot says about the core and the ledger. A slot
  without a channel has nothing in it; a Draining one without a driver and without a charge
  left over has a core that is not drained yet. The threads in `core.pins` are exactly
  those at a pinned place.
- `DriverInv`: `drain_driver_active` is exactly the thread at a driving place, and what that
  thread knows at each place. The heart is `DrainSeen`: a drain without a driver has a thread
  that *will look* (pinned, about to help, or about to drive). A driver whose first hold found
  pins keeps this fact through its window: either one of the pinned threads is still on its
  way to look, or it has looked meanwhile, met the driver and left `drain_retry_requested`.
- `OwnerInv`: one thread releases the owner's hold, and the owner is live until it is done.
- `ReferenceInv`: an endpoint object's count is the number of threads that hold a reference
  (`HoldsReference`, by place and continuation) and its handle; a positive count keeps the
  slot's `endpoint_reference_live`, and the count's last owner is alone in `destroy`.
- `RequestInv`, `HolderInv`: a live request is in the ledger or in the driver's hands, and its
  id is in exactly one place: queued, with one sender or receiver before its commitment; with
  one receiver, one Live receipt or one replier after it. This is what makes a second
  completion impossible, and a sent reply's completion certain.
- `ReceiptInv`: a receipt's key is of a channel that was built, so that what an earlier channel
  left behind never names the next one; a token that a reply has claimed names its row, or
  the row was cleared and has not been claimed by anybody else in that generation.
- `ObjectInv`: a row's pins and the table's operations are the imports between pin and unpin,
  a pinned row still holds its reference in the generation that was pinned, and `object` is
  the number of holding rows, carriers and handles.

Every thread moves alone, so a step is checked against each part only where it changes what
its thread holds: `InnerKeeps` (steps between the pin and its release leave slot, drain, owner
and references alone), `OutsideStep` (steps of calls outside leave requests, receipts and the
object alone), `DataKept` and `HandsKept` are those frames; `DrivesOn`, `DriverCall` and
`DriverFacts` carry the drain. One lemma per action (`BorrowKeeps` to `ActivateKeeps`) and
`EInvNext` puts them together. `RecycleKeeps` is the step on which everything meets: when the
last one out clears the slot, every part must say that nobody is left in it (`Deserted`), and
`CreatePairKeeps` its counterpart, where the next channel starts in the same slot. All parts of
`EInv` were checked with TLC on the run's instance before they were proved.

### Only model-checked

- Every liveness property (`handle_live`, `kmutex_promise`, `multi_live`), which is outside
  what the prover supports.
- The three violations of section 6.

## 6. Findings

- **One Set, two waiters** (`multi_claim`). `SYS_WAIT_MULTI` tests an auto-reset event
  with `KEventIsSignaled` and clears it in a later lock hold with `KEventClearAutoReset`,
  without looking whether the signal is still there. A waiter that consumes the signal in
  between is satisfied by the same Set; `kernel/ipc/kevent.h` says that only one waiter
  consumes a single Set.
- **A killed multi-waiter goes on** (`multi_kill`). An infinite `SYS_WAIT_MULTI` yields
  and polls without looking at the kill ticket, while its system call defers
  cancellation, so the task lives on as long as its handles stay unsignaled;
  `kernel/sched/sched.h` says that for running and ready targets a kill activates the
  next time `Schedule()` runs.

- **A drain that does not wait** (`workpool_drain`). `TryPushToLane` shows an item to the
  workers under the lane's lock and counts it afterwards under the inner lock. A worker
  awake for a counted item may pop an uncounted one: `count_total` is then zero while the
  counted item is still queued, and `WorkPoolDrain` returns although the item was queued
  before it was called. `kernel/sched/workpool.h` says that Drain blocks until the queue
  is empty, and `workpool.cpp` that `count_total` is the sum of the lanes' counts. The
  same step with `count_total` at zero wraps the counter, and a worker that finishes its
  item in that moment does not broadcast `drained`, so the wake-up promised to "multiple
  callers" can also be missed.

## 7. What is not modelled

- Run queues, CPU placement, priorities, NT suspension: they only restrict which enabled
  step comes next, and the models allow every order.
- The spinlock, and weak memory behind it: a lock hold is an atomic step. Code without
  a lock (the sequence lock, unlocked samples such as `KSemaphoreCount`) is a matter of
  memory ordering that interleaving does not represent.
- `HandleRightsForProcess` and other pure policy tables; read-only queries of the table.
- Of the port: `Inspect`, the validation of a frame before it is sent, and the close that
  destruction repeats on a port that nobody can reach.
- Of the channel: the second direction (a client's receive of replies), oneway messages,
  frames with an invalid envelope, types, rights and metadata of exported objects, the
  failure of the request-cleanup callback, generations of operation slots (a pin is its
  thread's), `ChannelCoreReset`, which nothing under `kernel/` calls, and the rows of the
  directory: of its calls, what they do to a channel. A received request with an invalid
  envelope is abandoned by the code and rejected by none; since such frames are left out, the
  model's receive that cannot go on always rejects.
- Two orders on a channel. The closes of the two ports and of the tables in `DrainCore`
  (`channel_core.cpp`, between its two lock holds) are the one step `DrainClose`: the tables
  are closed only if no operation was in flight at the first hold, and a Draining core admits
  none afterwards, so nobody can look between the closes; while an operation is in flight only
  the ports are closed, of which one is modelled. And
  the directory may drain a channel between enqueueing it for an accept and publishing the
  initiator's handle, where the model's `ReleaseOwner` waits for the publication, and
  `PublishAcceptor` does not follow the start of a release. The publication touches only the
  handle, which the drain does not read, so the two commute and no state of core or slot is
  lost.
- Of the work pool: a creation that fails half way, the cap of the number of lanes at
  `kMaxCpus`, and the lanes' `not_full` signal, on which nobody waits.
- Refusals that change nothing, besides those of the rule in section 2: the retain refused at
  the entry of a mutex, event or semaphore call, which returns Failed; of the ingress, a
  receipt refused for the per-process limit or an exhausted cursor, and of an import a
  saturated retain and an operation counter at its limit. Each leaves the state as it was, so
  the caller sees what it sees when the modelled refusals apply.
- Mailboxes, waitables and reader/writer locks: further users of the mutex and condition
  variable of `SchedSync`, with the same wait loops as the objects modelled here.
- RCU: `rcu.h` describes a grace period in which every CPU passes a quiescent state and
  `rcu.cpp` ends it when any CPU ticks, saying that the rule is to be generalised. Readers
  take no lock, so what they may see is a memory-ordering question.
- The service lifecycle, jobs and resource domains: records under one lock each, keyed by
  generations as handle rows and transfer rows are; they need no new kind of model, but
  none has been written.
- Boot slots: what survives a reset is decided by the file system under the state file.
- Allocation failure inside a call: every create and insert path may fail before it
  changes anything, which is a stuttering step.
- File systems, memory management, network, loaders, personalities, drivers, shell and
  applications: sequential code dominated by formats and hardware; see the notes in
  `PROJECT.json`.

## 8. Plan

The modules above are complete for what section 7 does not exclude, and every invariant,
action property and refinement that a passing run checks is a theorem; liveness stays with
TLC. What could follow, in order of worth:

1. The other direction of a channel and the client's receipt of replies, as a second ledger,
   table and queue of `ChannelCore`.
2. An abstract specification of a channel (requests that end once, references that arrive)
   which `ServiceEndpointIngress` implements; `EInv` has the facts its proof needs.
3. The components of section 7 that have hazards of their own without a property: service
   transitions, the exit reap ledger and the boot slots.
