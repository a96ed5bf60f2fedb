------------------------------ MODULE WorkPool ------------------------------
(***************************************************************************)
(* The kernel work pool (kernel/sched/workpool.{h,cpp}): a lane of items   *)
(* per worker, each under its own lock, and the counts, under the pool's   *)
(* inner lock, by which workers sleep, submitters wait for room and drains *)
(* wait for an idle pool.                                                  *)
(*                                                                         *)
(* A step is one hold of a lane's lock or of the inner lock.  A condition  *)
(* variable is the FIFO of the tasks parked on it; a woken task takes the  *)
(* inner lock again and repeats its test.  A pool that could not be built  *)
(* is not modelled.                                                        *)
(***************************************************************************)
EXTENDS Naturals, Sequences, FiniteSets

CONSTANTS
  worker_count,     \* workers and lanes are numbered from 0
  queue_capacity,
  Callers,          \* the tasks that use the pool
  MaxSubmits,       \* a bound: how often each of them submits
  kU64Modulus       \* count_total is unsigned and wraps (the bound is above all the submits)

VARIABLES
  lane,              \* WorkPoolLane: the queued items, oldest first
  count_total, active, workers_alive, shutdown, next_submit_lane,
  parked,            \* the condition variables of the pool
  pc, local,         \* where each task stands, and its locals
  finished           \* the items that have run (a history variable)

counts == <<count_total, active, workers_alive, shutdown>>
vars == <<lane, counts, next_submit_lane, parked, pc, local, finished>>

Workers == 0..(worker_count - 1)
Lanes == Workers
per_lane == (queue_capacity + worker_count - 1) \div worker_count
Items == Callers \X (1..MaxSubmits)
Condvars == {"not_empty", "space_avail", "drained", "exited"}

\* item: what is submitted or run; i: lanes tried; start: the first of them;
\* owed: the items that a drain found queued or running; submitted: a caller's count.
NoLocal == [item |-> <<>>, i |-> 0, start |-> 0, blocking |-> FALSE, owed |-> {}, submitted |-> 0]

Init ==
  /\ lane = [l \in Lanes |-> <<>>]
  /\ count_total = 0 /\ active = 0 /\ workers_alive = worker_count /\ shutdown = FALSE
  /\ next_submit_lane = 0
  /\ parked = [c \in Condvars |-> <<>>]
  /\ pc = [t \in Workers \cup Callers |-> IF t \in Workers THEN "sleep" ELSE "idle"]
  /\ local = [t \in Workers \cup Callers |-> NoLocal]
  /\ finished = {}

Queued(l) == {lane[l][k] : k \in 1..Len(lane[l])}
Parked(t) == \E c \in Condvars : \E k \in 1..Len(parked[c]) : parked[c][k] = t
At(t, at) == pc[t] = at /\ ~Parked(t)
Goto(t, at) == pc' = [pc EXCEPT ![t] = at]
Set(t, l) == local' = [local EXCEPT ![t] = l]

Wait(t, c) == parked' = [parked EXCEPT ![c] = Append(@, t)]
Signal(c) == parked' = [parked EXCEPT ![c] = IF @ = <<>> THEN @ ELSE Tail(@)]
Broadcast(c) == parked' = [parked EXCEPT ![c] = <<>>]

Idle == count_total = 0 /\ active = 0

-----------------------------------------------------------------------------
(* WorkerMain *)

\* Wait for work; with none and a shutdown, the worker ends.
WorkerSleep(w) ==
  /\ w \in Workers /\ At(w, "sleep")
  /\ \/ count_total = 0 /\ ~shutdown /\ Wait(w, "not_empty") /\ UNCHANGED <<counts, pc, local>>
     \/ /\ count_total = 0 /\ shutdown
        /\ workers_alive' = workers_alive - 1 /\ Goto(w, "exited")
        /\ IF workers_alive = 1 THEN Broadcast("exited") ELSE UNCHANGED parked
        /\ UNCHANGED <<count_total, active, shutdown, local>>
     \/ count_total # 0 /\ Goto(w, "scan") /\ Set(w, NoLocal) /\ UNCHANGED <<counts, parked>>
  /\ UNCHANGED <<lane, next_submit_lane, finished>>

\* TryPopFromLane on one lane after another, the worker's own first.
TryPopFromLane(w) ==
  LET l == (w + local[w].i) % worker_count IN
  /\ w \in Workers /\ At(w, "scan")
  /\ IF lane[l] # <<>>
     THEN /\ lane' = [lane EXCEPT ![l] = Tail(@)]
          /\ Set(w, [NoLocal EXCEPT !.item = Head(lane[l])]) /\ Goto(w, "account")
     ELSE /\ UNCHANGED lane
          /\ Set(w, [local[w] EXCEPT !.i = @ + 1]) /\ Goto(w, IF local[w].i + 1 = worker_count THEN "sleep" ELSE "scan")
  /\ UNCHANGED <<counts, next_submit_lane, parked, finished>>

AccountPop(w) ==
  /\ w \in Workers /\ At(w, "account")
  /\ count_total' = (count_total + kU64Modulus - 1) % kU64Modulus
  /\ active' = active + 1
  /\ Signal("space_avail") /\ Goto(w, "run")
  /\ UNCHANGED <<lane, workers_alive, shutdown, next_submit_lane, local, finished>>

\* The callback, under no lock.
RunItem(w) ==
  /\ w \in Workers /\ At(w, "run")
  /\ finished' = finished \cup {local[w].item}
  /\ Goto(w, "account_end") /\ UNCHANGED <<lane, counts, next_submit_lane, parked, local>>

AccountEnd(w) ==
  /\ w \in Workers /\ At(w, "account_end")
  /\ active' = active - 1
  /\ IF count_total = 0 /\ active = 1 THEN Broadcast("drained") ELSE UNCHANGED parked
  /\ Goto(w, "sleep") /\ Set(w, NoLocal)
  /\ UNCHANGED <<lane, count_total, workers_alive, shutdown, next_submit_lane, finished>>

-----------------------------------------------------------------------------
(* WorkPoolSubmit and WorkPoolTrySubmit *)

\* The next lane in turn is the first to be tried.
TakeTurn(c, l) ==
  /\ next_submit_lane' = (next_submit_lane + 1) % worker_count
  /\ Set(c, [l EXCEPT !.i = 0, !.start = next_submit_lane]) /\ Goto(c, "push")

Submit(c, blocking) ==
  /\ c \in Callers /\ At(c, "idle") /\ ~shutdown /\ local[c].submitted < MaxSubmits
  /\ TakeTurn(c, [local[c] EXCEPT !.item = <<c, local[c].submitted + 1>>, !.blocking = blocking, !.submitted = @ + 1])
  /\ UNCHANGED <<lane, counts, parked, finished>>

\* TryPushToLane under the lane's lock; past the last lane, a Submit waits for room.
TryPushToLane(c) ==
  LET l == (local[c].start + local[c].i) % worker_count IN
  /\ c \in Callers /\ At(c, "push")
  /\ IF Len(lane[l]) < per_lane
     THEN lane' = [lane EXCEPT ![l] = Append(@, local[c].item)] /\ Goto(c, "count") /\ UNCHANGED local
     ELSE /\ UNCHANGED lane
          /\ Set(c, [local[c] EXCEPT !.i = @ + 1])
          /\ Goto(c, IF local[c].i + 1 < worker_count THEN "push" ELSE IF local[c].blocking THEN "room" ELSE "idle")
  /\ UNCHANGED <<counts, next_submit_lane, parked, finished>>

\* ... and then under the inner lock.
CountPush(c) ==
  /\ c \in Callers /\ At(c, "count")
  /\ count_total' = (count_total + 1) % kU64Modulus
  /\ Signal("not_empty") /\ Goto(c, "idle")
  /\ UNCHANGED <<lane, active, workers_alive, shutdown, next_submit_lane, local, finished>>

WaitForRoom(c) ==
  /\ c \in Callers /\ At(c, "room")
  /\ IF count_total >= worker_count * per_lane /\ ~shutdown
     THEN Wait(c, "space_avail") /\ UNCHANGED <<next_submit_lane, pc, local>>
     ELSE TakeTurn(c, local[c]) /\ UNCHANGED parked
  /\ UNCHANGED <<lane, counts, finished>>

-----------------------------------------------------------------------------
(* WorkPoolDrain and WorkPoolShutdown *)

Running == {local[w].item : w \in {v \in Workers : pc[v] \in {"account", "run"}}}

\* What a drain that begins now has to wait for: items that were counted, not those of a submit under way.
Owed == (UNION {Queued(l) : l \in Lanes} \cup Running) \ {local[c].item : c \in {d \in Callers : pc[d] = "count"}}

WorkPoolDrain(c) ==
  /\ c \in Callers /\ At(c, "idle") /\ ~shutdown
  /\ Set(c, [local[c] EXCEPT !.owed = Owed]) /\ Goto(c, "drain")
  /\ UNCHANGED <<lane, counts, next_submit_lane, parked, finished>>

\* A shutdown, when every producer has stopped.
WorkPoolShutdown(c) ==
  /\ c \in Callers /\ At(c, "idle") /\ ~shutdown
  /\ \A d \in Callers \ {c} : pc[d] \in {"idle", "stopped"}
  /\ pc' = [d \in Workers \cup Callers |->
              IF d = c THEN "shutdown" ELSE IF d \in Callers THEN "stopped" ELSE pc[d]]
  /\ Set(c, [local[c] EXCEPT !.owed = Owed])
  /\ UNCHANGED <<lane, counts, next_submit_lane, parked, finished>>

\* Their loop until the pool is idle; the shutdown then tells the workers to exit.
AwaitIdle(c) ==
  /\ c \in Callers /\ (At(c, "drain") \/ At(c, "shutdown"))
  /\ IF ~Idle THEN Wait(c, "drained") /\ UNCHANGED <<shutdown, pc>>
     ELSE IF pc[c] = "drain" THEN Goto(c, "drained") /\ UNCHANGED <<shutdown, parked>>
     ELSE shutdown' = TRUE /\ Broadcast("not_empty") /\ Goto(c, "join")
  /\ UNCHANGED <<lane, count_total, active, workers_alive, next_submit_lane, local, finished>>

DrainReturns(c) ==
  /\ c \in Callers /\ At(c, "drained")
  /\ Set(c, [local[c] EXCEPT !.owed = {}]) /\ Goto(c, "idle")
  /\ UNCHANGED <<lane, counts, next_submit_lane, parked, finished>>

\* Wait for the last worker, then DestroyLanes.
JoinWorkers(c) ==
  /\ c \in Callers /\ At(c, "join")
  /\ IF workers_alive > 0 THEN Wait(c, "exited") /\ UNCHANGED <<lane, pc>>
     ELSE lane' = [l \in Lanes |-> <<>>] /\ Goto(c, "stopped") /\ UNCHANGED parked
  /\ UNCHANGED <<counts, next_submit_lane, local, finished>>

Next ==
  \/ \E w \in Workers : WorkerSleep(w) \/ TryPopFromLane(w) \/ AccountPop(w) \/ RunItem(w) \/ AccountEnd(w)
  \/ \E c \in Callers :
       \/ \E blocking \in BOOLEAN : Submit(c, blocking)
       \/ TryPushToLane(c) \/ CountPush(c) \/ WaitForRoom(c)
       \/ WorkPoolDrain(c) \/ WorkPoolShutdown(c) \/ AwaitIdle(c) \/ DrainReturns(c) \/ JoinWorkers(c)

Spec == Init /\ [][Next]_vars

-----------------------------------------------------------------------------
(* Properties *)

\* workpool.h says of WorkPoolDrain: "Block until the queue is empty AND
\* every worker has finished the item it was running at the moment Drain
\* was called."  So when a drain returns, the items that were queued or
\* running at its call, their submissions complete, have run.  They need
\* not have: TryPushToLane shows an item to the workers before it counts
\* it, a worker that pops the uncounted item takes another item's count
\* away, and count_total is zero with that other item still queued.
DrainWaitsForQueued ==
  \A c \in Callers : pc[c] = "drained" => local[c].owed \subseteq finished
=============================================================================
