---------------------------- MODULE KMutexProofs ----------------------------
(***************************************************************************)
(* Proofs about KMutex, for any number of tasks and objects: the inductive *)
(* invariant MInv, what it implies, and that KMutex implements             *)
(* AbandonableMutex.                                                       *)
(*                                                                         *)
(* The heart is the role a task plays for an object: inside an acquire or  *)
(* a release, holding it, dead with it still in its ledger, or being       *)
(* reaped.  Each role fixes what the object's fields are (Fits), and every *)
(* action takes one task from one role to the next.                        *)
(***************************************************************************)
EXTENDS KMutex, SchedSyncProofs

(* Places in a call that decide the role by themselves.                    *)
Passing == {"lock", "unwait", "publish", "track", "exchange", "clear", "unlock", "dropholder"}

Role(t, o) ==
  IF call[t].obj = o /\ pc[t] \in Passing THEN pc[t]
  ELSE IF depth[t][o] > 0 THEN "hold"
  ELSE IF life[t] = "Dead" /\ node_owner[o] = t THEN "orphan"
  ELSE IF reaper.task = t /\ o \in reaper.nodes THEN "detached"
  ELSE IF reaper.task = t /\ reaper.node = o /\ reaper.at = "publish" THEN "reap"
  ELSE IF reaper.task = t /\ reaper.node = o /\ reaper.at = "abandon" THEN "letgo"
  ELSE "none"

\* The public fields and the ledger entry of a mutex nobody was told he owns.
Free(o) == ~held[o] /\ owner_tid[o] = NULL /\ recursion[o] = 0 /\ node_owner[o] = NULL

\* Published as t's, with the ledger entry n.
Published(t, o, n) == held[o] /\ owner_tid[o] = t /\ recursion[o] > 0 /\ node_owner[o] = n

Fits(r, t, o) ==
  /\ r # "hold" => depth[t][o] = 0
  /\ r \in {"none", "unwait", "dropholder"} => owner[o] # t
  /\ r = "lock" /\ owner[o] = t => call[t].waited /\ ~Blocked(t) /\ Free(o)
  /\ r \notin {"none", "unwait", "dropholder", "lock"} => owner[o] = t
  /\ r \in {"publish", "unlock", "letgo"} => Free(o)
  /\ r \in {"track", "clear", "detached", "reap"} => Published(t, o, NULL)
  /\ r \in {"exchange", "hold", "orphan"} => Published(t, o, t)
  /\ r \in {"track", "exchange", "clear"} => recursion[o] = 1
  /\ r = "hold" => recursion[o] = depth[t][o]
  /\ r \in {"hold", "clear", "orphan", "detached", "reap"} => ~abandoned_pending[o]

RolesFit == \A t \in Tasks, o \in Objects : Fits(Role(t, o), t, o)
UnownedIsFree == \A o \in Objects : owner[o] = NULL => Free(o)

\* Where a task may be blocked, and what a task that is not alive left behind.
TaskOK(t) ==
  /\ Blocked(t) => pc[t] = "lock" /\ wait[t].waiting_on = Inner(call[t].obj) /\ call[t].waited
  /\ pc[t] = "idle" <=> call[t].obj = NULL
  /\ life[t] # "live" => pc[t] = "idle" /\ \A o \in Objects : depth[t][o] = 0
  /\ owned_internal_mutex_count[t] = 0

TasksOK == \A t \in Tasks : TaskOK(t)

\* The reaper's batch, the Task it works on and the nodes it detached from it.
ReaperOK ==
  /\ \A t \in reaper.batch : life[t] = "Dead"
  /\ reaper.at \in {"idle", "pick"} <=> reaper.task = NULL
  /\ reaper.at \in {"idle", "pick"} => reaper.nodes = {}
  /\ reaper.at \in {"publish", "abandon", "release"} <=> reaper.node # NULL
  /\ reaper.task # NULL => life[reaper.task] = "Dead" /\ reaper.task \notin reaper.batch
  /\ reaper.node \notin reaper.nodes
  /\ reaper.task # NULL => \A o \in Objects : node_owner[o] # reaper.task

(* The references, as counts.                                              *)
CallOn == [t \in Tasks |-> call[t].obj]
PinOn == [t \in Tasks |-> IF pc[t] \in Pinning THEN call[t].obj ELSE NULL]
InLedger(o) == IF node_owner[o] # NULL THEN 1 ELSE 0
InReaper(o) == IF o \in reaper.nodes \cup {reaper.node} THEN 1 ELSE 0
ReferencesOK ==
  \A o \in Objects :
    refcount[o] = handles[o] + Count(CallOn, Tasks, o) + Count(PinOn, Tasks, o) + InLedger(o) + InReaper(o)

MInv ==
  /\ TypeOK /\ SchedInv
  /\ TasksOK /\ ReaperOK /\ RolesFit /\ UnownedIsFree
  /\ ReferencesOK

-----------------------------------------------------------------------------
(* One step of a task in a call *)

SameFace(o) ==
  /\ owner'[o] = owner[o] /\ held'[o] = held[o] /\ owner_tid'[o] = owner_tid[o]
  /\ recursion'[o] = recursion[o] /\ node_owner'[o] = node_owner[o]
  /\ abandoned_pending'[o] = abandoned_pending[o]

(* A step of t's call on o: it touches nobody else's call and no other     *)
(* object, and of the others' waits at most ends one.                      *)
Advance(t, o) ==
  /\ \A u \in Tasks \ {t} : pc'[u] = pc[u] /\ call'[u] = call[u] /\ depth'[u] = depth[u]
                            /\ wait'[u].waiting_on \in {wait[u].waiting_on, NULL}
  /\ \A p \in Objects \ {o} : depth'[t][p] = depth[t][p] /\ SameFace(p)
  /\ call[t].obj \in {o, NULL} /\ call'[t].obj \in {o, NULL}
  /\ life[t] = "live" /\ UNCHANGED <<life, reaper, owned_internal_mutex_count>>
  /\ node_owner'[o] = node_owner[o] \/ {node_owner'[o], node_owner[o]} \subseteq {t, NULL}

(* What the step may do to the object's ownership: nothing, t takes or     *)
(* keeps it, or t hands it to a waiter or to nobody.                       *)
Turn(t, o) ==
  \/ SameFace(o)
  \/ owner[o] \in {t, NULL} /\ owner'[o] = t
  \/ /\ owner[o] = t /\ owner'[o] # t /\ Free(o)'
     /\ \A u \in Tasks : owner'[o] = u =>
          pc[u] = "lock" /\ call[u].obj = o /\ call[u].waited /\ wait'[u].waiting_on = NULL

\* A role does not change if nothing that decides it does.
LEMMA RoleSame ==
  ASSUME NEW u, NEW p,
         \/ pc'[u] = pc[u] /\ call'[u].obj = call[u].obj
         \/ ~(call[u].obj = p /\ pc[u] \in Passing) /\ ~(call'[u].obj = p /\ pc'[u] \in Passing),
         depth'[u][p] = depth[u][p], life'[u] = life[u], node_owner'[p] = u <=> node_owner[p] = u,
         reaper' = reaper
  PROVE  Role(u, p)' = Role(u, p)
BY DEF Role

\* An object none of whose fields moved still fits a role that did not move.
LEMMA KeptFits ==
  ASSUME NEW u, NEW p, Fits(Role(u, p), u, p), SameFace(p), Role(u, p)' = Role(u, p),
         depth'[u][p] = depth[u][p], Role(u, p) = "lock" => call'[u].waited = call[u].waited /\ (~Blocked(u) => ~Blocked(u)')
  PROVE  Fits(Role(u, p), u, p)'
BY DEF Fits, SameFace, Free, Published

\* A task that owns the object neither before nor after a step still fits.
LEMMA BystanderFits ==
  ASSUME NEW u, NEW p, Fits(Role(u, p), u, p), Role(u, p)' = Role(u, p), depth'[u][p] = depth[u][p],
         owner[p] # u, owner'[p] # u
  PROVE  Fits(Role(u, p), u, p)'
BY DEF Fits

\* The roles other than the one t plays for o stay and fit.
LEMMA OthersFit ==
  ASSUME MInv, NEW t \in Tasks, NEW o \in Objects, Advance(t, o), Turn(t, o),
         NEW u \in Tasks, NEW p \in Objects, u # t \/ p # o
  PROVE  Fits(Role(u, p), u, p)'
<1>0. Fits(Role(u, p), u, p)
  BY DEF MInv, RolesFit
<1>1. NULL \notin Tasks /\ NULL \notin Objects
  BY SchedAssumption
<1>2. Role(u, p)' = Role(u, p) /\ depth'[u][p] = depth[u][p]
  <2>1. depth'[u][p] = depth[u][p] /\ life'[u] = life[u] /\ reaper' = reaper
    BY DEF Advance
  <2>2. node_owner'[p] = u <=> node_owner[p] = u
    BY <1>1 DEF Advance, SameFace
  <2>3. \/ pc'[u] = pc[u] /\ call'[u].obj = call[u].obj
        \/ ~(call[u].obj = p /\ pc[u] \in Passing) /\ ~(call'[u].obj = p /\ pc'[u] \in Passing)
    BY <1>1 DEF Advance
  <2> QED BY <2>1, <2>2, <2>3, RoleSame
<1>3. CASE u = t
  <2>1. Role(u, p) # "lock"
    BY <1>1, <1>3 DEF Advance, Role, Passing
  <2>2. SameFace(p)
    BY <1>3 DEF Advance
  <2> QED BY <1>0, <1>2, <2>1, <2>2, KeptFits
<1>4. CASE u # t
  <2>1. call'[u].waited = call[u].waited /\ (~Blocked(u) => ~Blocked(u)')
    BY <1>4 DEF Advance, Blocked
  <2>2. CASE SameFace(p)
    BY <1>0, <1>2, <2>1, <2>2, KeptFits
  <2>3. CASE p = o /\ owner[o] \in {t, NULL} /\ owner'[o] = t
    BY <1>0, <1>1, <1>2, <1>4, <2>3, BystanderFits
  <2>4. CASE p = o /\ owner[o] = t /\ owner'[o] # u
    BY <1>0, <1>2, <1>4, <2>4, BystanderFits
  <2>5. CASE /\ p = o /\ owner[o] = t /\ owner'[o] = u /\ Free(o)'
             /\ pc[u] = "lock" /\ call[u].obj = o /\ call[u].waited /\ wait'[u].waiting_on = NULL
    <3>1. Role(u, p) = "lock"
      BY <2>5 DEF Role, Passing
    <3> QED BY <1>0, <1>2, <2>1, <2>5, <3>1 DEF Fits, Blocked
  <2> QED BY <2>2, <2>3, <2>4, <2>5 DEF Turn, Advance
<1> QED BY <1>3, <1>4

(* The references to o of a task at a place of a call on obj.              *)
Weight(obj, at, o) == IF obj = o THEN IF at \in Pinning THEN 2 ELSE 1 ELSE 0

(* The step's effect on the references of o is balanced.                   *)
Balanced(t, o) ==
  /\ handles' \in [Objects -> {0, 1}] /\ refcount' \in [Objects -> Int]
  /\ \A p \in Objects \ {o} : refcount'[p] = refcount[p] /\ handles'[p] = handles[p]
  /\ refcount'[o] + handles[o] + Weight(call[t].obj, pc[t], o) + InLedger(o)
       = refcount[o] + handles'[o] + Weight(call'[t].obj, pc'[t], o) + InLedger(o)'

\* The sums of ReferencesOK are sums of natural numbers.
LEMMA ReferenceSums ==
  ASSUME NEW o \in Objects, NEW f, NEW g
  PROVE  /\ Count(f, Tasks, o) \in Nat /\ Count(g, Tasks, o) \in Nat
         /\ InLedger(o) \in {0, 1} /\ InReaper(o) \in {0, 1}
BY CountNat, KMutexAssumption DEF InLedger, InReaper

\* A balanced step keeps the reference count exact, so it never goes below zero.
LEMMA ReferencesKept ==
  ASSUME MInv, NEW t \in Tasks, NEW o \in Objects, Advance(t, o), Balanced(t, o)
  PROVE  ReferencesOK' /\ refcount' \in [Objects -> Nat]
<1>0. handles \in [Objects -> {0, 1}] /\ refcount \in [Objects -> Nat] /\ IsFiniteSet(Tasks)
  BY KMutexAssumption DEF MInv, TypeOK
<1>1. OneChange(CallOn, CallOn', Tasks, t) /\ OneChange(PinOn, PinOn', Tasks, t)
  BY <1>0 DEF OneChange, CallOn, PinOn, Advance
<1>2. CallOn[t] \in {o, NULL} /\ CallOn'[t] \in {o, NULL} /\ PinOn[t] \in {o, NULL} /\ PinOn'[t] \in {o, NULL}
  BY DEF CallOn, PinOn, Advance
<1> SUFFICES ASSUME NEW p \in Objects
             PROVE  refcount'[p] \in Nat /\
                    refcount'[p] = handles'[p] + Count(CallOn', Tasks, p) + Count(PinOn', Tasks, p)
                                     + InLedger(p)' + InReaper(p)'
  <2>1. \A p \in Objects :
          /\ refcount'[p] \in Nat
          /\ refcount'[p] = handles'[p] + Count(CallOn', Tasks, p) + Count(PinOn', Tasks, p)
                                     + InLedger(p)' + InReaper(p)'
    OBVIOUS
  <2>2. refcount' \in [Objects -> Nat]
    BY <2>1 DEF Balanced
  <2>3. ReferencesOK' <=> \A p \in Objects :
           refcount'[p] = handles'[p] + Count(CallOn', Tasks, p) + Count(PinOn', Tasks, p)
                                     + InLedger(p)' + InReaper(p)'
    BY DEF ReferencesOK, Count
  <2> QED BY <2>1, <2>2, <2>3
<1>3. refcount[p] = handles[p] + Count(CallOn, Tasks, p) + Count(PinOn, Tasks, p) + InLedger(p) + InReaper(p)
  BY DEF MInv, ReferencesOK
<1>4. /\ Count(CallOn, Tasks, p) \in Nat /\ Count(PinOn, Tasks, p) \in Nat
      /\ Count(CallOn', Tasks, p) \in Nat /\ Count(PinOn', Tasks, p) \in Nat
  BY ReferenceSums
<1>5. InLedger(p) \in {0, 1} /\ InReaper(p) \in {0, 1} /\ InLedger(p)' \in {0, 1} /\ InReaper(p)' = InReaper(p)
  BY DEF InLedger, InReaper, Advance
<1>6. Count(CallOn', Tasks, p) + One(CallOn[t], p) = Count(CallOn, Tasks, p) + One(CallOn'[t], p)
  BY <1>1, CountUpdate
<1>7. Count(PinOn', Tasks, p) + One(PinOn[t], p) = Count(PinOn, Tasks, p) + One(PinOn'[t], p)
  BY <1>1, CountUpdate
<1>8. /\ One(CallOn[t], p) \in {0, 1} /\ One(PinOn[t], p) \in {0, 1}
      /\ One(CallOn'[t], p) \in {0, 1} /\ One(PinOn'[t], p) \in {0, 1}
  BY DEF One
<1>9. refcount'[p] \in Int /\ refcount[p] \in Nat /\ handles[p] \in {0, 1} /\ handles'[p] \in {0, 1}
  BY <1>0 DEF Balanced
<1>10. CASE p # o
  <2>1. /\ One(CallOn[t], p) = 0 /\ One(PinOn[t], p) = 0
        /\ One(CallOn'[t], p) = 0 /\ One(PinOn'[t], p) = 0
    BY <1>2, <1>10, SchedAssumption DEF One
  <2>2. refcount'[p] = refcount[p] /\ handles'[p] = handles[p] /\ InLedger(p)' = InLedger(p)
    BY <1>10 DEF Balanced, Advance, SameFace, InLedger
  <2> QED BY <1>3, <1>4, <1>5, <1>6, <1>7, <1>9, <2>1, <2>2
<1>11. CASE p = o
  <2>1. refcount'[p] + handles[p] + Weight(call[t].obj, pc[t], p) + InLedger(p)
          = refcount[p] + handles'[p] + Weight(call'[t].obj, pc'[t], p) + InLedger(p)'
    BY <1>11 DEF Balanced
  <2>2. refcount'[p] = handles'[p] + Count(CallOn', Tasks, p) + Count(PinOn', Tasks, p) + InLedger(p)' + InReaper(p)
    <3>1. /\ handles[p] \in Int /\ handles'[p] \in Int /\ refcount[p] \in Int /\ refcount'[p] \in Int
          /\ InLedger(p) \in Int /\ InLedger(p)' \in Int /\ InReaper(p) \in Int
      BY <1>5, <1>9
    <3>2. /\ One(CallOn[t], p) \in Int /\ One(PinOn[t], p) \in Int
          /\ One(CallOn'[t], p) \in Int /\ One(PinOn'[t], p) \in Int
      BY <1>8
    <3> DEFINE a == Count(CallOn, Tasks, p)
               b == Count(PinOn, Tasks, p)
               c == Count(CallOn', Tasks, p)
               d == Count(PinOn', Tasks, p)
    <3>3. a \in Int /\ b \in Int /\ c \in Int /\ d \in Int
      BY <1>4
    <3>4. refcount[p] = handles[p] + a + b + InLedger(p) + InReaper(p)
      BY <1>3
    <3>5. c = a + One(CallOn'[t], p) - One(CallOn[t], p)
      BY <1>6, <3>2, <3>3
    <3>6. d = b + One(PinOn'[t], p) - One(PinOn[t], p)
      BY <1>7, <3>2, <3>3
    <3> HIDE DEF a, b, c, d
    <3> DEFINE L == One(CallOn[t], p) + One(PinOn[t], p) + InLedger(p)
               R == One(CallOn'[t], p) + One(PinOn'[t], p) + InLedger(p)'
               m == a + b + InLedger(p)
               n == c + d + InLedger(p)'
    <3>7. L \in Int /\ R \in Int /\ m \in Int /\ n \in Int
      BY <3>1, <3>2, <3>3
    <3>8. n = m + R - L
      BY <3>1, <3>2, <3>3, <3>5, <3>6
    <3>9. refcount'[p] + handles[p] + L = refcount[p] + handles'[p] + R
      <4>1. Weight(call[t].obj, pc[t], p) = One(CallOn[t], p) + One(PinOn[t], p)
        BY SchedAssumption DEF Weight, One, CallOn, PinOn
      <4>2. Weight(call'[t].obj, pc'[t], p) = One(CallOn'[t], p) + One(PinOn'[t], p)
        BY SchedAssumption DEF Weight, One, CallOn, PinOn
      <4> QED BY <2>1, <3>1, <3>2, <4>1, <4>2
    <3>10. refcount[p] = handles[p] + m + InReaper(p)
      BY <3>1, <3>3, <3>4
    <3> HIDE DEF L, R, m, n
    <3>11. refcount'[p] = handles'[p] + n + InReaper(p)
      <4> DEFINE h == handles[p]
                 k == handles'[p]
                 r == refcount[p]
                 s == refcount'[p]
                 q == InReaper(p)
      <4>1. h \in Int /\ k \in Int /\ r \in Int /\ s \in Int /\ q \in Int
        BY <3>1
      <4>2. s + h + L = r + k + R /\ r = h + m + q
        BY <3>9, <3>10
      <4> HIDE DEF h, k, r, s, q
      <4>3. s + L = m + q + k + R
        BY <3>7, <4>1, <4>2
      <4>4. s = k + n + q
        BY <3>7, <3>8, <4>1, <4>3
      <4> QED BY <4>4 DEF k, s, q
    <3>12. handles'[p] + n + InReaper(p) = handles'[p] + c + d + InLedger(p)' + InReaper(p)
      <4> DEFINE h == handles'[p]
                 l == InLedger(p)'
                 r == InReaper(p)
      <4>1. h \in Int /\ l \in Int /\ r \in Int /\ n = c + d + l
        BY <3>1 DEF n
      <4> HIDE DEF h, l, r
      <4>2. h + n + r = h + c + d + l + r
        BY <3>3, <4>1
      <4> QED BY <4>2 DEF h, l, r
    <3> QED BY <3>11, <3>12 DEF c, d
  <2> QED BY <1>4, <1>5, <1>9, <2>2
<1> QED BY <1>10, <1>11

\* The whole invariant after a step of t's call, from what the step does to t and o.
LEMMA AdvanceKeeps ==
  ASSUME MInv, NEW t \in Tasks, NEW o \in Objects, Advance(t, o), Turn(t, o), Balanced(t, o),
         refcount' \in [Objects -> Nat] => TypeOK', SchedInv', TaskOK(t)',
         Fits(Role(t, o), t, o)', owner'[o] = NULL => Free(o)'
  PROVE  MInv'
<1>1. ReferencesOK' /\ refcount' \in [Objects -> Nat]
  BY ReferencesKept
<1>2. RolesFit'
  BY OthersFit DEF RolesFit
<1>3. UnownedIsFree'
  BY DEF MInv, UnownedIsFree, Advance, SameFace, Free
<1>4. TasksOK'
  <2> SUFFICES ASSUME NEW u \in Tasks, u # t PROVE TaskOK(u)'
    BY DEF TasksOK
  <2>1. TaskOK(u)
    BY DEF MInv, TasksOK
  <2> QED BY <2>1 DEF TaskOK, Advance, Blocked
<1>5. ReaperOK'
  <2>1. reaper' = reaper /\ life' = life /\ ReaperOK
    BY DEF MInv, Advance
  <2>2. ASSUME reaper.task # NULL, NEW p \in Objects PROVE node_owner'[p] # reaper.task
    <3>1. node_owner[p] # reaper.task /\ reaper.task # t
      BY <2>1, <2>2 DEF ReaperOK, Advance
    <3> QED BY <2>2, <3>1 DEF Advance, SameFace
  <2> QED BY <2>1, <2>2 DEF ReaperOK
<1> QED BY <1>1, <1>2, <1>3, <1>4, <1>5 DEF MInv

-----------------------------------------------------------------------------
(* The actions of a call *)

\* What a task in a call may rely on.
LEMMA InCall ==
  ASSUME MInv, NEW t \in Tasks, pc[t] # "idle"
  PROVE  /\ call[t].obj \in Objects /\ life[t] = "live" /\ Fits(Role(t, call[t].obj), t, call[t].obj)
         /\ owned_internal_mutex_count[t] = 0
<1>1. call[t].obj \in Objects \cup {NULL} /\ TaskOK(t)
  BY DEF MInv, TypeOK, TasksOK
<1> QED BY <1>1 DEF MInv, RolesFit, TaskOK

\* Nothing of the scheduler moves.
LEMMA SchedStill ==
  ASSUME MInv, UNCHANGED schedVars
  PROVE  /\ SchedInv' /\ SchedTypeOK' /\ UNCHANGED <<wait, owner, owned_internal_mutex_count>>
         /\ \A u \in Tasks : Blocked(u)' <=> Blocked(u)
<1>1. wait \in [Tasks -> WaitRecords] /\ kill_ticket \in [Tasks -> BOOLEAN]
  BY DEF MInv, SchedInv, SchedTypeOK
<1>2. SchedInv'
  BY <1>1, OwnFieldsKept DEF MInv, schedVars
<1> QED BY <1>2 DEF schedVars, Blocked, SchedInv

(* A step that moves t's program counter to at and its locals to c, and    *)
(* the count of o by d, and nothing else.                                  *)
PcMove(t, o, at, c, d) ==
  /\ UNCHANGED <<schedVars, handles, pubVars, node_owner, life, reaper, depth>>
  /\ pc' = [pc EXCEPT ![t] = at] /\ call' = [call EXCEPT ![t] = c]
  /\ refcount' = [refcount EXCEPT ![o] = refcount[o] + d]

CallRecords == [obj: Objects \cup {NULL}, tick: {"none", "zero", "deadline", "horizon"}, waited: BOOLEAN]

\* Such a step keeps the invariant if the place it leads to fits.
LEMMA PcMoveKeeps ==
  ASSUME MInv, NEW t \in Tasks, NEW o \in Objects, NEW at \in PCs, NEW c \in CallRecords,
         NEW d \in Int, d + Weight(call[t].obj, pc[t], o) = Weight(c.obj, at, o), PcMove(t, o, at, c, d),
         ~Blocked(t), life[t] = "live", call[t].obj \in {o, NULL}, c.obj \in {o, NULL},
         at = "idle" <=> c.obj = NULL, Fits(Role(t, o), t, o)'
  PROVE  MInv'
<1>0. /\ pc \in [Tasks -> PCs] /\ call \in [Tasks -> CallRecords] /\ refcount \in [Objects -> Nat]
      /\ handles \in [Objects -> {0, 1}]
  BY DEF MInv, TypeOK, CallRecords
<1>1. /\ SchedInv' /\ SchedTypeOK' /\ UNCHANGED <<wait, owner, owned_internal_mutex_count>>
      /\ \A u \in Tasks : Blocked(u)' <=> Blocked(u)
  BY SchedStill DEF PcMove
<1>2. pc'[t] = at /\ call'[t] = c /\ \A u \in Tasks \ {t} : pc'[u] = pc[u] /\ call'[u] = call[u]
  BY <1>0 DEF PcMove
<1>3. \A p \in Objects : SameFace(p)
  BY <1>1 DEF SameFace, PcMove, pubVars
<1>4. Advance(t, o)
  BY <1>1, <1>2, <1>3 DEF Advance, PcMove, SameFace
<1>5. Turn(t, o)
  BY <1>3 DEF Turn
<1>6. Balanced(t, o)
  <2>1. refcount' \in [Objects -> Int] /\ \A p \in Objects \ {o} : refcount'[p] = refcount[p]
    BY <1>0 DEF PcMove
  <2>2. handles' = handles /\ InLedger(o)' = InLedger(o) /\ InLedger(o) \in Int /\ handles[o] \in Int /\ refcount[o] \in Int
    BY <1>0 DEF PcMove, InLedger
  <2>3. refcount'[o] = refcount[o] + d
    BY <1>0 DEF PcMove
  <2>4. Weight(call[t].obj, pc[t], o) \in Int
    BY DEF Weight
  <2>5. refcount'[o] + Weight(call[t].obj, pc[t], o) = refcount[o] + Weight(call'[t].obj, pc'[t], o)
    BY <1>2, <2>2, <2>3, <2>4
  <2>6. Weight(call'[t].obj, pc'[t], o) \in Int
    BY DEF Weight
  <2>7. refcount'[o] + handles[o] + Weight(call[t].obj, pc[t], o) + InLedger(o)
          = refcount[o] + handles'[o] + Weight(call'[t].obj, pc'[t], o) + InLedger(o)'
    BY <2>2, <2>3, <2>4, <2>5, <2>6
  <2> QED BY <1>0, <2>1, <2>2, <2>7 DEF Balanced
<1>7. ASSUME refcount' \in [Objects -> Nat] PROVE TypeOK'
  <2>1. pc' \in [Tasks -> PCs] /\ call' \in [Tasks -> CallRecords]
    BY <1>0 DEF PcMove
  <2> QED BY <1>1, <1>7, <2>1 DEF MInv, TypeOK, PcMove, pubVars, CallRecords
<1>8. TaskOK(t)'
  <2>1. TaskOK(t)
    BY DEF MInv, TasksOK
  <2>2. life' = life
    BY DEF PcMove
  <2> QED BY <1>1, <1>2, <2>1, <2>2 DEF TaskOK
<1>9. owner'[o] = NULL => Free(o)'
  BY <1>3 DEF MInv, UnownedIsFree, SameFace, Free
<1> QED BY <1>1, <1>4, <1>5, <1>6, <1>7, <1>8, <1>9, AdvanceKeeps

\* A call is entered.
LEMMA EnterCallKeeps ==
  ASSUME MInv, NEW t \in Tasks, NEW o \in Objects, NEW at \in {"acquire", "release"},
         NEW tick \in Timeouts \cup {"none"}, EnterCall(t, o, at, tick)
  PROVE  MInv'
<1> DEFINE c == [obj |-> o, tick |-> tick, waited |-> FALSE]
<1>0. /\ pc \in [Tasks -> PCs] /\ call \in [Tasks -> CallRecords] /\ refcount \in [Objects -> Nat]
  BY DEF MInv, TypeOK, CallRecords
<1>1. c \in CallRecords /\ c.obj = o /\ at \in PCs
  BY KMutexAssumption DEF CallRecords, PCs
<1>2. call[t].obj = NULL /\ o # NULL
  BY SchedAssumption DEF EnterCall, At, MInv, TasksOK, TaskOK
<1> HIDE DEF c
<1>3. call' = [call EXCEPT ![t] = c] /\ pc' = [pc EXCEPT ![t] = at]
  BY DEF EnterCall, Goto, c
<1>4. PcMove(t, o, at, c, 1)
  BY <1>3 DEF PcMove, EnterCall
<1>6. 1 + Weight(call[t].obj, pc[t], o) = Weight(c.obj, at, o)
  BY <1>1, <1>2 DEF Weight, Pinning
<1>5. Fits(Role(t, o), t, o)'
  <2>1. Fits(Role(t, o), t, o)
    BY DEF MInv, RolesFit
  <2>2. Role(t, o)' = Role(t, o) /\ Role(t, o) # "lock"
    BY <1>0, <1>1, <1>2, <1>3 DEF Role, Passing, EnterCall
  <2>3. SameFace(o) /\ depth' = depth
    BY DEF SameFace, EnterCall, schedVars, pubVars
  <2> QED BY <2>1, <2>2, <2>3, KeptFits
<1> QED BY <1>1, <1>2, <1>4, <1>5, <1>6, PcMoveKeeps, 1 \in Int DEF EnterCall, At

\* The role of a live task that is at no deciding place of a call on o.
LEMMA LiveRole ==
  ASSUME MInv, NEW t \in Tasks, NEW o \in Objects, life[t] = "live", ~(call[t].obj = o /\ pc[t] \in Passing)
  PROVE  /\ Role(t, o) = IF depth[t][o] > 0 THEN "hold" ELSE "none"
         /\ depth[t][o] \in Nat
<1>1. reaper.task # t
  BY SchedAssumption DEF MInv, ReaperOK
<1>2. depth[t][o] \in Nat
  BY KMutexAssumption DEF MInv, TypeOK
<1> QED BY <1>1, <1>2 DEF Role

\* A step of pc alone, as PcMove.
LEMMA PcOnly ==
  ASSUME MInv, NEW t \in Tasks, NEW o \in Objects, NEW at \in PCs \ {"idle"}, NEW d \in Int,
         At(t, pc[t]), pc[t] # "idle", o = call[t].obj,
         d + Weight(o, pc[t], o) = Weight(o, at, o),
         refcount' = [refcount EXCEPT ![o] = refcount[o] + d], Goto(t, at),
         UNCHANGED <<schedVars, handles, pubVars, node_owner, life, call, reaper, depth>>,
         Fits(Role(t, o), t, o)'
  PROVE  MInv'
<1>0. call \in [Tasks -> CallRecords]
  BY DEF MInv, TypeOK, CallRecords
<1>1. call' = [call EXCEPT ![t] = call[t]] /\ call[t] \in CallRecords
  BY <1>0
<1>2. PcMove(t, o, at, call[t], d)
  BY <1>1 DEF PcMove, Goto
<1>3. life[t] = "live" /\ o # NULL
  BY InCall, SchedAssumption
<1>4. ~Blocked(t)
  BY DEF At
<1> QED BY <1>1, <1>2, <1>3, <1>4, PcMoveKeeps

\* Where a call that leaves its deciding place stands with the object.
LEMMA FallThrough ==
  ASSUME MInv, NEW t \in Tasks, NEW o \in Objects, life[t] = "live",
         UNCHANGED <<schedVars, pubVars, node_owner, life, reaper, depth>>,
         ~(call'[t].obj = o /\ pc'[t] \in Passing),
         call[t].obj = o /\ pc[t] \in Passing => pc[t] \in {"unwait", "dropholder"}
  PROVE  Fits(Role(t, o), t, o)'
<1>0. Fits(Role(t, o), t, o)
  BY DEF MInv, RolesFit
<1>1. reaper.task # t
  BY SchedAssumption DEF MInv, ReaperOK
<1>2. SameFace(o)
  BY DEF SameFace, schedVars, pubVars
<1>3. depth[t][o] \in Nat
  BY KMutexAssumption DEF MInv, TypeOK
<1>4. Role(t, o)' = IF depth[t][o] > 0 THEN "hold" ELSE "none"
  BY <1>1 DEF Role
<1>5. CASE call[t].obj = o /\ pc[t] \in Passing
  <2>1. depth[t][o] = 0 /\ owner[o] # t
    BY <1>0, <1>5 DEF Role, Fits
  <2> QED BY <1>2, <1>4, <2>1 DEF Fits, SameFace
<1>6. CASE ~(call[t].obj = o /\ pc[t] \in Passing)
  <2>1. Role(t, o)' = Role(t, o) /\ Role(t, o) # "lock"
    BY <1>4, <1>6, LiveRole
  <2> QED BY <1>0, <1>2, <2>1, KeptFits
<1> QED BY <1>5, <1>6

\* The place t goes to.
LEMMA GotoAt ==
  ASSUME MInv, NEW t \in Tasks, NEW at, Goto(t, at)
  PROVE  pc'[t] = at /\ \A u \in Tasks \ {t} : pc'[u] = pc[u]
BY DEF MInv, TypeOK, Goto

\* A reference is taken for the wait.
LEMMA AcquirePinKeeps ==
  ASSUME MInv, NEW t \in Tasks, AcquirePin(t)
  PROVE  MInv'
<1> DEFINE o == call[t].obj
<1>1. pc[t] = "acquire" /\ ~Blocked(t) /\ o \in Objects /\ life[t] = "live" /\ pc'[t] = "lock"
  BY InCall, GotoAt DEF AcquirePin, At
<1>2. Role(t, o) = IF depth[t][o] > 0 THEN "hold" ELSE "none"
  BY <1>1, LiveRole DEF Passing
<1>3. Fits(Role(t, o), t, o) /\ ~(held[o] /\ owner_tid[o] = t)
  BY <1>1, InCall DEF AcquirePin, OwnedByCaller
<1>4. depth[t][o] = 0 /\ owner[o] # t
  BY <1>2, <1>3 DEF Fits, Published
<1>5. call' = call /\ owner' = owner /\ depth' = depth
  BY DEF AcquirePin, schedVars
<1>6. Role(t, o)' = "lock"
  BY <1>1, <1>5 DEF Role, Passing
<1>7. Fits(Role(t, o), t, o)'
  BY <1>4, <1>5, <1>6 DEF Fits
<1>8. 1 + Weight(o, pc[t], o) = Weight(o, "lock", o)
  BY <1>1 DEF Weight, Pinning
<1> QED BY <1>1, <1>7, <1>8, PcOnly, 1 \in Int DEF AcquirePin, At, PCs

\* A failed wait gives its reference back.
LEMMA AcquireFailsKeeps ==
  ASSUME MInv, NEW t \in Tasks, AcquireFails(t)
  PROVE  MInv'
<1> DEFINE o == call[t].obj
<1>1. pc[t] = "unwait" /\ ~Blocked(t) /\ o \in Objects /\ life[t] = "live" /\ pc'[t] = "return"
  BY InCall, GotoAt DEF AcquireFails, At
<1>2. Fits(Role(t, o), t, o)'
  BY <1>1, FallThrough DEF AcquireFails, Passing
<1>3. -1 + Weight(o, pc[t], o) = Weight(o, "return", o)
  BY <1>1 DEF Weight, Pinning
<1>4. refcount' = [refcount EXCEPT ![o] = refcount[o] + (-1)]
  BY <1>1 DEF AcquireFails, KObjectRelease, MInv, TypeOK
<1> QED BY <1>1, <1>2, <1>3, <1>4, PcOnly, -1 \in Int DEF AcquireFails, At, PCs

\* A release gives the holder's reference back.
LEMMA ReleaseDropKeeps ==
  ASSUME MInv, NEW t \in Tasks, ReleaseDrop(t)
  PROVE  MInv'
<1> DEFINE o == call[t].obj
<1>1. pc[t] = "dropholder" /\ ~Blocked(t) /\ o \in Objects /\ life[t] = "live" /\ pc'[t] = "return"
  BY InCall, GotoAt DEF ReleaseDrop, At
<1>2. Fits(Role(t, o), t, o)'
  BY <1>1, FallThrough DEF ReleaseDrop, Passing
<1>3. -1 + Weight(o, pc[t], o) = Weight(o, "return", o)
  BY <1>1 DEF Weight, Pinning
<1>4. refcount' = [refcount EXCEPT ![o] = refcount[o] + (-1)]
  BY <1>1 DEF ReleaseDrop, KObjectRelease, MInv, TypeOK
<1> QED BY <1>1, <1>2, <1>3, <1>4, PcOnly, -1 \in Int DEF ReleaseDrop, At, PCs

\* A release by a task that does not own the object is refused.
LEMMA ReleaseRefusedKeeps ==
  ASSUME MInv, NEW t \in Tasks, ReleaseRefused(t)
  PROVE  MInv'
<1> DEFINE o == call[t].obj
<1>1. pc[t] = "release" /\ ~Blocked(t) /\ o \in Objects /\ life[t] = "live" /\ pc'[t] = "return"
  BY InCall, GotoAt DEF ReleaseRefused, At
<1>2. Fits(Role(t, o), t, o)'
  BY <1>1, FallThrough DEF ReleaseRefused, Passing
<1>3. 0 + Weight(o, pc[t], o) = Weight(o, "return", o)
  BY <1>1 DEF Weight, Pinning
<1>4. refcount' = [refcount EXCEPT ![o] = refcount[o] + 0]
  BY <1>1 DEF ReleaseRefused, objVars, MInv, TypeOK
<1> QED BY <1>1, <1>2, <1>3, <1>4, PcOnly, 0 \in Int DEF ReleaseRefused, At, PCs, objVars

\* The caller gives its own reference back.
LEMMA ReturnKeeps ==
  ASSUME MInv, NEW t \in Tasks, ReturnFromCall(t)
  PROVE  MInv'
<1>0. call[t].obj \in Objects
  BY InCall DEF ReturnFromCall, At
<1> SUFFICES ASSUME NEW o \in Objects, o = call[t].obj PROVE MInv'
  BY <1>0
<1>1. pc[t] = "return" /\ ~Blocked(t) /\ o \in Objects /\ life[t] = "live" /\ pc'[t] = "idle"
  BY InCall, GotoAt DEF ReturnFromCall, At
<1>2. Fits(Role(t, o), t, o)'
  BY <1>1, FallThrough DEF ReturnFromCall, Passing
<1>3. -1 + Weight(o, pc[t], o) = Weight(NoCall.obj, "idle", o)
  BY <1>1, SchedAssumption DEF Weight, Pinning, NoCall
<1>4. refcount' = [refcount EXCEPT ![o] = refcount[o] + (-1)]
  BY <1>1 DEF ReturnFromCall, KObjectRelease, MInv, TypeOK
<1>5. NoCall \in CallRecords /\ NoCall.obj = NULL
  BY DEF NoCall, CallRecords
<1>6. PcMove(t, o, "idle", NoCall, -1)
  BY <1>4 DEF ReturnFromCall, PcMove, Goto
<1>7. "idle" \in PCs /\ -1 \in Int
  BY DEF PCs
<1> QED BY <1>1, <1>2, <1>3, <1>5, <1>6, <1>7, PcMoveKeeps

\* The public owner and the ledger name nobody but the owner of the inner mutex.
LEMMA OwnerNamed ==
  ASSUME MInv, NEW o \in Objects
  PROVE  /\ owner_tid[o] \in {owner[o], NULL} /\ node_owner[o] \in {owner[o], NULL}
         /\ held[o] => owner_tid[o] # NULL
<1>0. owner[o] \in Tasks \cup {NULL} /\ NULL \notin Tasks
  BY SchedAssumption DEF MInv, TypeOK, SchedTypeOK
<1>1. CASE owner[o] = NULL
  BY <1>1 DEF MInv, UnownedIsFree, Free
<1>2. CASE owner[o] # NULL
  <2>1. PICK t \in Tasks : t = owner[o]
    BY <1>0, <1>2
  <2>2. Fits(Role(t, o), t, o)
    BY DEF MInv, RolesFit
  <2>3. Role(t, o) \in Passing \cup {"none", "hold", "orphan", "detached", "reap", "letgo"}
    BY DEF Role
  <2> QED BY <1>0, <2>1, <2>2, <2>3 DEF Fits, Free, Published, Passing
<1> QED BY <1>1, <1>2

\* A task the public fields name as owner, at no deciding place of a call, holds the object.
LEMMA CallerHolds ==
  ASSUME MInv, NEW t \in Tasks, NEW o \in Objects, life[t] = "live", OwnedByCaller(t, o),
         ~(call[t].obj = o /\ pc[t] \in Passing)
  PROVE  /\ Role(t, o) = "hold" /\ owner[o] = t /\ node_owner[o] = t /\ ~abandoned_pending[o]
         /\ recursion[o] = depth[t][o] /\ recursion[o] \in 1..MaxRecursion
<1>1. owner[o] = t
  BY OwnerNamed, SchedAssumption DEF OwnedByCaller
<1>2. Fits(Role(t, o), t, o)
  BY DEF MInv, RolesFit
<1>3. Role(t, o) = "hold"
  BY <1>1, <1>2, LiveRole DEF Fits
<1>4. recursion[o] \in 0..MaxRecursion
  BY DEF MInv, TypeOK
<1> QED BY <1>1, <1>2, <1>3, <1>4 DEF Fits, Published

(* The owner moves the fields of o from one deciding place to the next.    *)
OwnerMove(t, o, at) ==
  /\ UNCHANGED <<schedVars, objVars, life, call, reaper>> /\ Goto(t, at)
  /\ recursion' \in [Objects -> 0..MaxRecursion] /\ owner_tid' \in [Objects -> Tasks \cup {NULL}]
  /\ held' \in [Objects -> BOOLEAN] /\ abandoned_pending' \in [Objects -> BOOLEAN]
  /\ node_owner' \in [Objects -> Tasks \cup {NULL}] /\ depth' \in [Tasks -> [Objects -> 0..MaxRecursion]]
  /\ \A p \in Objects \ {o} :
       /\ recursion'[p] = recursion[p] /\ owner_tid'[p] = owner_tid[p] /\ held'[p] = held[p]
       /\ abandoned_pending'[p] = abandoned_pending[p] /\ node_owner'[p] = node_owner[p]
       /\ depth'[t][p] = depth[t][p]
  /\ \A u \in Tasks \ {t} : depth'[u] = depth[u]
  /\ node_owner'[o] \in {t, NULL}
  /\ Weight(o, pc[t], o) + InLedger(o) = Weight(o, at, o) + InLedger(o)'

\* Such a step keeps the invariant if the fields fit the new place.
LEMMA OwnerMoveKeeps ==
  ASSUME MInv, NEW t \in Tasks, NEW o \in Objects, NEW at \in PCs \ {"idle"}, OwnerMove(t, o, at),
         o = call[t].obj, ~Blocked(t), owner[o] = t, Fits(Role(t, o), t, o)'
  PROVE  MInv'
<1>0. pc \in [Tasks -> PCs] /\ refcount \in [Objects -> Nat] /\ handles \in [Objects -> {0, 1}]
  BY DEF MInv, TypeOK
<1>1. /\ SchedInv' /\ SchedTypeOK' /\ UNCHANGED <<wait, owner, owned_internal_mutex_count>>
      /\ \A u \in Tasks : Blocked(u)' <=> Blocked(u)
  BY SchedStill DEF OwnerMove
<1>2. pc'[t] = at /\ pc' \in [Tasks -> PCs] /\ \A u \in Tasks \ {t} : pc'[u] = pc[u]
  BY <1>0 DEF OwnerMove, Goto
<1>3. \A p \in Objects \ {o} : SameFace(p) /\ depth'[t][p] = depth[t][p]
  BY <1>1 DEF SameFace, OwnerMove
<1>4. node_owner[o] \in {t, NULL} /\ o # NULL
  BY OwnerNamed, SchedAssumption
<1>5. TaskOK(t) /\ call' = call /\ life' = life /\ reaper' = reaper
  BY DEF MInv, TasksOK, OwnerMove
<1>6. life[t] = "live"
  BY <1>4, <1>5 DEF TaskOK
<1>7. Advance(t, o)
  BY <1>1, <1>2, <1>3, <1>4, <1>5, <1>6 DEF Advance, OwnerMove
<1>8. Turn(t, o)
  BY <1>1 DEF Turn
<1>9. Balanced(t, o)
  <2>1. UNCHANGED <<refcount, handles>> /\ refcount' \in [Objects -> Int]
    BY <1>0 DEF OwnerMove, objVars
  <2>2. Weight(call[t].obj, pc[t], o) + InLedger(o) = Weight(call'[t].obj, pc'[t], o) + InLedger(o)'
    BY <1>2, <1>5 DEF OwnerMove
  <2>3. /\ Weight(call[t].obj, pc[t], o) \in Int /\ Weight(call'[t].obj, pc'[t], o) \in Int
        /\ InLedger(o) \in Int /\ InLedger(o)' \in Int /\ refcount[o] \in Int /\ handles[o] \in Int
    BY <1>0 DEF Weight, InLedger
  <2>4. refcount'[o] + handles[o] + Weight(call[t].obj, pc[t], o) + InLedger(o)
          = refcount[o] + handles'[o] + Weight(call'[t].obj, pc'[t], o) + InLedger(o)'
    BY <2>1, <2>2, <2>3
  <2> QED BY <1>0, <2>1, <2>4 DEF Balanced
<1>10. TypeOK'
  BY <1>1, <1>2 DEF MInv, TypeOK, OwnerMove, objVars
<1>11. TaskOK(t)'
  BY <1>1, <1>2, <1>4, <1>5, <1>6 DEF TaskOK
<1>12. owner'[o] # NULL
  BY <1>1, SchedAssumption
<1> QED BY <1>1, <1>7, <1>8, <1>9, <1>10, <1>11, <1>12, AdvanceKeeps

\* The role after a step that ends at no deciding place.
LEMMA LiveRoleNext ==
  ASSUME MInv, NEW t \in Tasks, NEW o \in Objects, life[t] = "live", life' = life, reaper' = reaper,
         pc'[t] \notin Passing
  PROVE  Role(t, o)' = IF depth'[t][o] > 0 THEN "hold" ELSE "none"
<1>1. reaper.task # t
  BY SchedAssumption DEF MInv, ReaperOK
<1> QED BY <1>1 DEF Role

\* The owner re-enters.
LEMMA AcquireRecursiveKeeps ==
  ASSUME MInv, NEW t \in Tasks, AcquireRecursive(t)
  PROVE  MInv'
<1>0. call[t].obj \in Objects /\ life[t] = "live"
  BY InCall DEF AcquireRecursive, At
<1> SUFFICES ASSUME NEW o \in Objects, o = call[t].obj PROVE MInv'
  BY <1>0
<1>1. pc[t] = "acquire" /\ ~Blocked(t) /\ pc'[t] = "return" /\ call' = call /\ OwnedByCaller(t, o)
  BY GotoAt DEF AcquireRecursive, At
<1>2. /\ Role(t, o) = "hold" /\ owner[o] = t /\ node_owner[o] = t /\ ~abandoned_pending[o]
      /\ recursion[o] = depth[t][o] /\ recursion[o] \in 1..MaxRecursion
  BY <1>0, <1>1, CallerHolds DEF Passing
<1>3. recursion \in [Objects -> 0..MaxRecursion] /\ depth \in [Tasks -> [Objects -> 0..MaxRecursion]] /\ MaxRecursion \in Nat
  BY KMutexAssumption DEF MInv, TypeOK
<1>4. /\ recursion' \in [Objects -> 0..MaxRecursion] /\ depth' \in [Tasks -> [Objects -> 0..MaxRecursion]]
      /\ \A p \in Objects \ {o} : recursion'[p] = recursion[p] /\ depth'[t][p] = depth[t][p]
      /\ \A u \in Tasks \ {t} : depth'[u] = depth[u]
      /\ recursion'[o] = depth'[t][o] /\ depth'[t][o] > 0
  <2>1. CASE /\ recursion[o] # MaxRecursion
             /\ recursion' = [recursion EXCEPT ![o] = recursion[o] + 1]
             /\ depth' = [depth EXCEPT ![t][o] = depth[t][o] + 1]
    <3>1. recursion[o] + 1 \in 0..MaxRecursion /\ depth[t][o] + 1 \in 0..MaxRecursion /\ depth[t][o] + 1 > 0
      <4>1. recursion[o] \in Nat /\ recursion[o] <= MaxRecursion /\ MaxRecursion \in Nat
        BY <1>2, <1>3
      <4>2. recursion[o] # MaxRecursion
        BY <2>1
      <4>3. recursion[o] + 1 \in 0..MaxRecursion /\ recursion[o] + 1 > 0
        BY <4>1, <4>2
      <4> QED BY <1>2, <4>3
    <3> QED BY <1>2, <1>3, <2>1, <3>1
  <2>2. CASE UNCHANGED <<recursion, depth>>
    BY <1>2, <1>3, <2>2
  <2> QED BY <2>1, <2>2 DEF AcquireRecursive, Saturated
<1>5. UNCHANGED <<owner, owner_tid, held, abandoned_pending, node_owner, life, reaper>>
  BY DEF AcquireRecursive, schedVars
<1>6. Role(t, o)' = "hold"
  BY <1>0, <1>1, <1>4, <1>5, LiveRoleNext DEF Passing
<1>7. Fits(Role(t, o), t, o)'
  BY <1>1, <1>2, <1>4, <1>5, <1>6 DEF Fits, Published, OwnedByCaller
<1>8. OwnerMove(t, o, "return")
  <2>1. Weight(o, pc[t], o) + InLedger(o) = Weight(o, "return", o) + InLedger(o)'
    BY <1>1, <1>5 DEF Weight, Pinning, InLedger
  <2> QED BY <1>2, <1>4, <1>5, <2>1 DEF OwnerMove, AcquireRecursive, MInv, TypeOK
<1> QED BY <1>1, <1>2, <1>7, <1>8, OwnerMoveKeeps DEF PCs

\* The types of what the owner's steps change.
LEMMA FieldTypes ==
  ASSUME MInv
  PROVE  /\ recursion \in [Objects -> 0..MaxRecursion] /\ owner_tid \in [Objects -> Tasks \cup {NULL}]
         /\ held \in [Objects -> BOOLEAN] /\ abandoned_pending \in [Objects -> BOOLEAN]
         /\ node_owner \in [Objects -> Tasks \cup {NULL}] /\ depth \in [Tasks -> [Objects -> 0..MaxRecursion]]
         /\ MaxRecursion \in Nat /\ 0 \in 0..MaxRecursion /\ 1 \in 0..MaxRecursion
BY KMutexAssumption DEF MInv, TypeOK

\* The new owner publishes itself.
LEMMA AcquirePublishKeeps ==
  ASSUME MInv, NEW t \in Tasks, AcquirePublish(t)
  PROVE  MInv'
<1>0. call[t].obj \in Objects
  BY InCall DEF AcquirePublish, At
<1> SUFFICES ASSUME NEW o \in Objects, o = call[t].obj PROVE MInv'
  BY <1>0
<1>1. pc[t] = "publish" /\ ~Blocked(t) /\ pc'[t] = "track" /\ call' = call
  BY GotoAt DEF AcquirePublish, At
<1>2. Role(t, o) = "publish" /\ Role(t, o)' = "track"
  BY <1>1 DEF Role, Passing
<1>3. owner[o] = t /\ node_owner[o] = NULL /\ depth[t][o] = 0
  BY <1>1, <1>2, InCall DEF Fits, Free
<1>4. /\ recursion' = [recursion EXCEPT ![o] = 1] /\ owner_tid' = [owner_tid EXCEPT ![o] = t]
      /\ held' = [held EXCEPT ![o] = TRUE] /\ UNCHANGED <<owner, node_owner, abandoned_pending, depth>>
  BY DEF AcquirePublish, schedVars
<1>5. recursion'[o] = 1 /\ owner_tid'[o] = t /\ held'[o]
  BY <1>4, FieldTypes
<1>6. Fits(Role(t, o), t, o)'
  BY <1>2, <1>3, <1>4, <1>5 DEF Fits, Published
<1>7. Weight(o, pc[t], o) + InLedger(o) = Weight(o, "track", o) + InLedger(o)'
  BY <1>1, <1>4 DEF Weight, Pinning, InLedger
<1>8. OwnerMove(t, o, "track")
  <2>1. /\ recursion' \in [Objects -> 0..MaxRecursion] /\ owner_tid' \in [Objects -> Tasks \cup {NULL}]
        /\ held' \in [Objects -> BOOLEAN]
        /\ \A p \in Objects \ {o} : recursion'[p] = recursion[p] /\ owner_tid'[p] = owner_tid[p] /\ held'[p] = held[p]
    BY <1>4, FieldTypes
  <2>2. /\ UNCHANGED <<schedVars, objVars, abandoned_pending, node_owner, life, call, reaper, depth>>
        /\ Goto(t, "track")
    BY DEF AcquirePublish
  <2> QED BY <1>3, <1>7, <2>1, <2>2, FieldTypes DEF OwnerMove
<1> QED BY <1>1, <1>3, <1>6, <1>8, OwnerMoveKeeps DEF PCs

\* The new owner enters the object in its ledger: the pin becomes the ledger's reference.
LEMMA AcquireTrackKeeps ==
  ASSUME MInv, NEW t \in Tasks, AcquireTrack(t)
  PROVE  MInv'
<1>0. call[t].obj \in Objects
  BY InCall DEF AcquireTrack, At
<1> SUFFICES ASSUME NEW o \in Objects, o = call[t].obj PROVE MInv'
  BY <1>0
<1>1. pc[t] = "track" /\ ~Blocked(t) /\ pc'[t] = "exchange" /\ call' = call
  BY GotoAt DEF AcquireTrack, At
<1>2. Role(t, o) = "track" /\ Role(t, o)' = "exchange"
  BY <1>1 DEF Role, Passing
<1>3. owner[o] = t /\ Published(t, o, NULL) /\ recursion[o] = 1 /\ depth[t][o] = 0
  BY <1>1, <1>2, InCall DEF Fits
<1>4. /\ node_owner' = [node_owner EXCEPT ![o] = t]
      /\ UNCHANGED <<owner, recursion, owner_tid, held, abandoned_pending, depth>>
  BY DEF AcquireTrack, schedVars, pubVars
<1>5. node_owner'[o] = t /\ t # NULL
  BY <1>4, FieldTypes, SchedAssumption
<1>6. Fits(Role(t, o), t, o)'
  BY <1>2, <1>3, <1>4, <1>5 DEF Fits, Published
<1>7. Weight(o, pc[t], o) + InLedger(o) = Weight(o, "exchange", o) + InLedger(o)'
  BY <1>1, <1>3, <1>5 DEF Weight, Pinning, InLedger, Published
<1>8. OwnerMove(t, o, "exchange")
  BY <1>4, <1>5, <1>7, FieldTypes DEF OwnerMove, AcquireTrack
<1> QED BY <1>1, <1>3, <1>6, <1>8, OwnerMoveKeeps DEF PCs

\* The new owner is told, and told of an abandonment.
LEMMA AcquireReportKeeps ==
  ASSUME MInv, NEW t \in Tasks, AcquireReport(t)
  PROVE  MInv'
<1>0. call[t].obj \in Objects /\ life[t] = "live"
  BY InCall DEF AcquireReport, At
<1> SUFFICES ASSUME NEW o \in Objects, o = call[t].obj PROVE MInv'
  BY <1>0
<1>1. pc[t] = "exchange" /\ ~Blocked(t) /\ pc'[t] = "return" /\ call' = call
  BY GotoAt DEF AcquireReport, At
<1>2. Role(t, o) = "exchange"
  BY <1>1 DEF Role, Passing
<1>3. owner[o] = t /\ Published(t, o, t) /\ recursion[o] = 1
  BY <1>1, <1>2, InCall DEF Fits
<1>4. /\ abandoned_pending' = [abandoned_pending EXCEPT ![o] = FALSE] /\ depth' = [depth EXCEPT ![t][o] = 1]
      /\ UNCHANGED <<owner, recursion, owner_tid, held, node_owner, life, reaper>>
  BY DEF AcquireReport, schedVars, ReportedPending
<1>5. abandoned_pending'[o] = FALSE /\ depth'[t][o] = 1
  BY <1>4, FieldTypes
<1>6. Role(t, o)' = "hold"
  BY <1>0, <1>1, <1>4, <1>5, LiveRoleNext DEF Passing
<1>7. Fits(Role(t, o), t, o)'
  BY <1>3, <1>4, <1>5, <1>6 DEF Fits, Published
<1>8. Weight(o, pc[t], o) + InLedger(o) = Weight(o, "return", o) + InLedger(o)'
  BY <1>1, <1>4 DEF Weight, Pinning, InLedger
<1>9. OwnerMove(t, o, "return")
  <2>1. /\ depth' \in [Tasks -> [Objects -> 0..MaxRecursion]] /\ abandoned_pending' \in [Objects -> BOOLEAN]
        /\ \A p \in Objects \ {o} : depth'[t][p] = depth[t][p] /\ abandoned_pending'[p] = abandoned_pending[p]
        /\ \A u \in Tasks \ {t} : depth'[u] = depth[u]
    BY <1>4, FieldTypes
  <2> QED BY <1>3, <1>4, <1>8, <2>1, FieldTypes DEF OwnerMove, AcquireReport, Published
<1> QED BY <1>1, <1>3, <1>7, <1>9, OwnerMoveKeeps DEF PCs

\* The owner leaves one level.
LEMMA ReleaseRecursiveKeeps ==
  ASSUME MInv, NEW t \in Tasks, ReleaseRecursive(t)
  PROVE  MInv'
<1>0. call[t].obj \in Objects /\ life[t] = "live"
  BY InCall DEF ReleaseRecursive, At
<1> SUFFICES ASSUME NEW o \in Objects, o = call[t].obj PROVE MInv'
  BY <1>0
<1>1. pc[t] = "release" /\ ~Blocked(t) /\ pc'[t] = "return" /\ call' = call /\ OwnedByCaller(t, o) /\ recursion[o] > 1
  BY GotoAt DEF ReleaseRecursive, At
<1>2. /\ Role(t, o) = "hold" /\ owner[o] = t /\ node_owner[o] = t /\ ~abandoned_pending[o]
      /\ recursion[o] = depth[t][o] /\ recursion[o] \in 1..MaxRecursion
  BY <1>0, <1>1, CallerHolds DEF Passing
<1>3. /\ recursion' = [recursion EXCEPT ![o] = recursion[o] - 1]
      /\ depth' = [depth EXCEPT ![t][o] = depth[t][o] - 1]
      /\ UNCHANGED <<owner, owner_tid, held, abandoned_pending, node_owner, life, reaper>>
  BY DEF ReleaseRecursive, schedVars
<1>4. recursion[o] - 1 \in 0..MaxRecursion /\ recursion[o] - 1 > 0 /\ depth[t][o] - 1 \in 0..MaxRecursion
  <2>1. recursion[o] \in Nat /\ recursion[o] <= MaxRecursion /\ MaxRecursion \in Nat /\ recursion[o] > 1
    BY <1>1, <1>2, FieldTypes
  <2>2. recursion[o] - 1 \in 0..MaxRecursion /\ recursion[o] - 1 > 0
    BY <2>1
  <2> QED BY <1>2, <2>2
<1>5. /\ recursion' \in [Objects -> 0..MaxRecursion] /\ depth' \in [Tasks -> [Objects -> 0..MaxRecursion]]
      /\ \A p \in Objects \ {o} : recursion'[p] = recursion[p] /\ depth'[t][p] = depth[t][p]
      /\ \A u \in Tasks \ {t} : depth'[u] = depth[u]
      /\ recursion'[o] = depth'[t][o] /\ depth'[t][o] > 0
  BY <1>2, <1>3, <1>4, FieldTypes
<1>6. Role(t, o)' = "hold"
  BY <1>0, <1>1, <1>3, <1>5, LiveRoleNext DEF Passing
<1>7. Fits(Role(t, o), t, o)'
  BY <1>1, <1>2, <1>3, <1>5, <1>6 DEF Fits, Published, OwnedByCaller
<1>8. Weight(o, pc[t], o) + InLedger(o) = Weight(o, "return", o) + InLedger(o)'
  BY <1>1, <1>3 DEF Weight, Pinning, InLedger
<1>9. OwnerMove(t, o, "return")
  BY <1>2, <1>3, <1>5, <1>8, FieldTypes DEF OwnerMove, ReleaseRecursive
<1> QED BY <1>1, <1>2, <1>7, <1>9, OwnerMoveKeeps DEF PCs

\* The last release takes the object out of the ledger.
LEMMA ReleaseUntrackKeeps ==
  ASSUME MInv, NEW t \in Tasks, ReleaseUntrack(t)
  PROVE  MInv'
<1>0. call[t].obj \in Objects /\ life[t] = "live"
  BY InCall DEF ReleaseUntrack, At
<1> SUFFICES ASSUME NEW o \in Objects, o = call[t].obj PROVE MInv'
  BY <1>0
<1>1. pc[t] = "release" /\ ~Blocked(t) /\ pc'[t] = "clear" /\ call' = call /\ OwnedByCaller(t, o) /\ recursion[o] = 1
  BY GotoAt DEF ReleaseUntrack, At
<1>2. Role(t, o) = "hold" /\ owner[o] = t /\ node_owner[o] = t /\ ~abandoned_pending[o] /\ t # NULL
  BY <1>0, <1>1, CallerHolds, SchedAssumption DEF Passing
<1>3. /\ node_owner' = [node_owner EXCEPT ![o] = NULL] /\ depth' = [depth EXCEPT ![t][o] = 0]
      /\ UNCHANGED <<owner, recursion, owner_tid, held, abandoned_pending>>
  BY DEF ReleaseUntrack, schedVars, pubVars
<1>4. /\ node_owner' \in [Objects -> Tasks \cup {NULL}] /\ depth' \in [Tasks -> [Objects -> 0..MaxRecursion]]
      /\ \A p \in Objects \ {o} : node_owner'[p] = node_owner[p] /\ depth'[t][p] = depth[t][p]
      /\ \A u \in Tasks \ {t} : depth'[u] = depth[u]
      /\ node_owner'[o] = NULL /\ depth'[t][o] = 0
  BY <1>3, FieldTypes
<1>5. Role(t, o)' = "clear"
  BY <1>1 DEF Role, Passing
<1>6. Fits(Role(t, o), t, o)'
  BY <1>1, <1>2, <1>3, <1>4, <1>5 DEF Fits, Published, OwnedByCaller
<1>7. Weight(o, pc[t], o) + InLedger(o) = Weight(o, "clear", o) + InLedger(o)'
  BY <1>1, <1>2, <1>4 DEF Weight, Pinning, InLedger
<1>8. OwnerMove(t, o, "clear")
  BY <1>3, <1>4, <1>7, FieldTypes DEF OwnerMove, ReleaseUntrack
<1> QED BY <1>1, <1>2, <1>6, <1>8, OwnerMoveKeeps DEF PCs

\* The public fields are cleared before the inner mutex is given up.
LEMMA ReleaseClearKeeps ==
  ASSUME MInv, NEW t \in Tasks, ReleaseClear(t)
  PROVE  MInv'
<1>0. call[t].obj \in Objects
  BY InCall DEF ReleaseClear, At
<1> SUFFICES ASSUME NEW o \in Objects, o = call[t].obj PROVE MInv'
  BY <1>0
<1>1. pc[t] = "clear" /\ ~Blocked(t) /\ pc'[t] = "unlock" /\ call' = call
  BY GotoAt DEF ReleaseClear, At
<1>2. Role(t, o) = "clear" /\ Role(t, o)' = "unlock"
  BY <1>1 DEF Role, Passing
<1>3. owner[o] = t /\ node_owner[o] = NULL /\ depth[t][o] = 0
  BY <1>1, <1>2, InCall DEF Fits, Published
<1>4. /\ recursion' = [recursion EXCEPT ![o] = 0] /\ owner_tid' = [owner_tid EXCEPT ![o] = NULL]
      /\ held' = [held EXCEPT ![o] = FALSE] /\ UNCHANGED <<owner, node_owner, abandoned_pending, depth>>
  BY DEF ReleaseClear, schedVars
<1>5. recursion'[o] = 0 /\ owner_tid'[o] = NULL /\ ~held'[o]
  BY <1>4, FieldTypes
<1>6. Fits(Role(t, o), t, o)'
  BY <1>2, <1>3, <1>4, <1>5 DEF Fits, Free
<1>7. Weight(o, pc[t], o) + InLedger(o) = Weight(o, "unlock", o) + InLedger(o)'
  BY <1>1, <1>4 DEF Weight, Pinning, InLedger
<1>8. OwnerMove(t, o, "unlock")
  <2>1. /\ recursion' \in [Objects -> 0..MaxRecursion] /\ owner_tid' \in [Objects -> Tasks \cup {NULL}]
        /\ held' \in [Objects -> BOOLEAN]
        /\ \A p \in Objects \ {o} : recursion'[p] = recursion[p] /\ owner_tid'[p] = owner_tid[p] /\ held'[p] = held[p]
    BY <1>4, FieldTypes
  <2>2. /\ UNCHANGED <<schedVars, objVars, abandoned_pending, node_owner, life, call, reaper, depth>>
        /\ Goto(t, "unlock")
    BY DEF ReleaseClear
  <2> QED BY <1>3, <1>7, <2>1, <2>2, FieldTypes DEF OwnerMove
<1> QED BY <1>1, <1>3, <1>6, <1>8, OwnerMoveKeeps DEF PCs

(* A step of t's call on o in the scheduler: the object's own fields and   *)
(* its references stay.                                                    *)
SchedMove(t, o, at, c) ==
  /\ UNCHANGED <<objVars, pubVars, node_owner, life, reaper, depth, owned_internal_mutex_count>>
  /\ pc' = [pc EXCEPT ![t] = at] /\ call' = [call EXCEPT ![t] = c]
  /\ \A u \in Tasks \ {t} : wait'[u].waiting_on \in {wait[u].waiting_on, NULL}
  /\ wait'[t].waiting_on = NULL \/ (at = "lock" /\ c.waited /\ wait'[t].waiting_on = Inner(o))
  /\ \A p \in Objects \ {o} : owner'[p] = owner[p]

\* Such a step keeps the invariant if the owner it leaves fits.
LEMMA SchedMoveKeeps ==
  ASSUME MInv, NEW t \in Tasks, NEW o \in Objects, NEW at \in Pinning, NEW c \in CallRecords,
         SchedMove(t, o, at, c), o = call[t].obj, c.obj = o, pc[t] \in Pinning,
         SchedInv', Turn(t, o), Fits(Role(t, o), t, o)', owner'[o] = NULL => Free(o)'
  PROVE  MInv'
<1>0. /\ pc \in [Tasks -> PCs] /\ call \in [Tasks -> CallRecords] /\ refcount \in [Objects -> Nat]
      /\ handles \in [Objects -> {0, 1}] /\ at \in PCs /\ at # "idle" /\ o # NULL
  BY SchedAssumption DEF MInv, TypeOK, CallRecords, PCs, Pinning
<1>1. pc'[t] = at /\ call'[t] = c /\ \A u \in Tasks \ {t} : pc'[u] = pc[u] /\ call'[u] = call[u]
  BY <1>0 DEF SchedMove
<1>2. pc' \in [Tasks -> PCs] /\ call' \in [Tasks -> CallRecords]
  BY <1>0 DEF SchedMove
<1>3. \A p \in Objects \ {o} : SameFace(p)
  BY DEF SchedMove, SameFace, pubVars
<1>4. TaskOK(t) /\ life[t] = "live"
  BY InCall DEF Pinning, MInv, TasksOK
<1>5. Advance(t, o)
  BY <1>1, <1>3, <1>4 DEF Advance, SchedMove
<1>6. Balanced(t, o)
  <2>1. UNCHANGED <<refcount, handles>> /\ refcount' \in [Objects -> Int]
    BY <1>0 DEF SchedMove, objVars
  <2>2. Weight(call[t].obj, pc[t], o) = 2 /\ Weight(call'[t].obj, pc'[t], o) = 2
    BY <1>1 DEF Weight
  <2>3. InLedger(o) \in Int /\ InLedger(o)' = InLedger(o) /\ refcount[o] \in Int /\ handles[o] \in Int
    BY <1>0 DEF SchedMove, InLedger
  <2>4. refcount'[o] + handles[o] + Weight(call[t].obj, pc[t], o) + InLedger(o)
          = refcount[o] + handles'[o] + Weight(call'[t].obj, pc'[t], o) + InLedger(o)'
    BY <2>1, <2>2, <2>3
  <2> QED BY <1>0, <2>1, <2>4 DEF Balanced
<1>7. TypeOK'
  <2>1. SchedTypeOK'
    BY DEF SchedInv
  <2> QED BY <1>2, <2>1 DEF MInv, TypeOK, SchedMove, objVars, pubVars, CallRecords
<1>8. TaskOK(t)'
  <2>1. Blocked(t)' => pc'[t] = "lock" /\ wait'[t].waiting_on = Inner(call'[t].obj) /\ call'[t].waited
    BY <1>1 DEF SchedMove, Blocked
  <2>2. life' = life /\ owned_internal_mutex_count' = owned_internal_mutex_count
    BY DEF SchedMove
  <2> QED BY <1>0, <1>1, <1>4, <2>1, <2>2 DEF TaskOK
<1> QED BY <1>5, <1>6, <1>7, <1>8, AdvanceKeeps

\* The new owner of a mutex that is given up waited for it, and is woken in the same step.
LEMMA HandedFacts ==
  ASSUME MInv, NEW t \in Tasks, NEW o \in Objects, NEW w \in WaitRecords, MutexRelinquish(t, o, w),
         ~Blocked(t), w.waiting_on = NULL
  PROVE  /\ SchedInv' /\ owner'[o] # t /\ UNCHANGED owned_internal_mutex_count
         /\ \A p \in Objects \ {o} : owner'[p] = owner[p]
         /\ \A u \in Tasks : wait'[u].waiting_on \in {wait[u].waiting_on, NULL}
         /\ wait'[t].waiting_on = NULL
         /\ \A u \in Tasks : owner'[o] = u =>
              pc[u] = "lock" /\ call[u].obj = o /\ call[u].waited /\ wait'[u].waiting_on = NULL
<1>0. OwnershipClass # "Internal" /\ SchedInv /\ owner \in [Objects -> Tasks \cup {NULL}]
  BY KMutexAssumption DEF MInv, SchedInv, SchedTypeOK
<1>1. /\ SchedInv' /\ owner' = [owner EXCEPT ![o] = Successor(o)] /\ Successor(o) # t
      /\ \A u \in Tasks : wait'[u].waiting_on = IF u = Successor(o) THEN NULL ELSE wait[u].waiting_on
  BY <1>0, RelinquishKept
<1>2. owner'[o] = Successor(o) /\ \A p \in Objects \ {o} : owner'[p] = owner[p]
  BY <1>0, <1>1
<1>3. UNCHANGED owned_internal_mutex_count
  BY <1>0 DEF MutexRelinquish, HandedCounts
<1>4. ASSUME NEW u \in Tasks, owner'[o] = u
      PROVE  pc[u] = "lock" /\ call[u].obj = o /\ call[u].waited /\ wait'[u].waiting_on = NULL
  <2>1. wait[u].waiting_on = Inner(o) /\ Blocked(u)
    BY <1>0, <1>2, <1>4, SuccessorFacts, SchedAssumption
  <2>2. TaskOK(u) /\ call[u].obj \in Objects \cup {NULL}
    BY DEF MInv, TasksOK, TypeOK
  <2>3. pc[u] = "lock" /\ call[u].obj \in Objects /\ Inner(call[u].obj) = Inner(o) /\ call[u].waited
    BY <2>1, <2>2 DEF TaskOK
  <2> QED BY <1>1, <1>2, <1>4, <2>3, QueueNames
<1> QED BY <1>1, <1>2, <1>3, <1>4 DEF Blocked

\* What a task about to lock knows: the locals of its call, its wait record and its role.
LEMMA AtLock ==
  ASSUME MInv, NEW t \in Tasks, At(t, "lock")
  PROVE  /\ call[t].obj \in Objects /\ call[t] \in CallRecords /\ wait[t] \in WaitRecords
         /\ wait[t].waiting_on = NULL /\ pc[t] \in Pinning /\ Role(t, call[t].obj) = "lock"
         /\ depth[t][call[t].obj] = 0
         /\ owner[call[t].obj] \in {NULL, t} => Free(call[t].obj)
         /\ NotCancellable(t) \in WaitRecords /\ NotCancellable(t).waiting_on = NULL
<1>1. pc[t] = "lock" /\ ~Blocked(t)
  BY DEF At
<1>2. call[t].obj \in Objects /\ Fits(Role(t, call[t].obj), t, call[t].obj)
  BY <1>1, InCall
<1>3. Role(t, call[t].obj) = "lock"
  BY <1>1 DEF Role, Passing
<1>4. wait[t] \in WaitRecords /\ call[t] \in CallRecords /\ wait[t].waiting_on = NULL
  BY <1>1 DEF MInv, TypeOK, SchedTypeOK, CallRecords, Blocked
<1>5. NotCancellable(t) \in WaitRecords /\ NotCancellable(t).waiting_on = NULL
  BY <1>4, CancellableUpdate DEF NotCancellable
<1>6. owner[call[t].obj] \in {NULL, t} => Free(call[t].obj)
  BY <1>2, <1>3 DEF Fits, MInv, UnownedIsFree
<1> QED BY <1>1, <1>2, <1>3, <1>4, <1>5, <1>6 DEF Fits, Pinning

\* The inner mutex is taken: free, or handed over, with the public fields clear.
LEMMA LockClaimKeeps ==
  ASSUME MInv, NEW t \in Tasks, NEW o \in Objects, o = call[t].obj, At(t, "lock"), MutexClaim(t, o),
         wait' = [wait EXCEPT ![t] = NotCancellable(t)], Goto(t, "publish"),
         UNCHANGED <<kill_ticket, queue, objVars, pubVars, node_owner, life, call, reaper, depth>>
  PROVE  MInv'
<1>1. /\ call[t] \in CallRecords /\ wait[t].waiting_on = NULL /\ pc[t] \in Pinning
      /\ depth[t][o] = 0 /\ (owner[o] \in {NULL, t} => Free(o))
      /\ NotCancellable(t) \in WaitRecords /\ NotCancellable(t).waiting_on = NULL
  BY AtLock
<1>2. /\ wait \in [Tasks -> WaitRecords] /\ call \in [Tasks -> CallRecords] /\ SchedInv
      /\ owner \in [Objects -> Tasks \cup {NULL}] /\ OwnershipClass # "Internal"
  BY KMutexAssumption DEF MInv, TypeOK, SchedTypeOK, CallRecords
<1>3. wait' \in [Tasks -> WaitRecords] /\ \A u \in Tasks : wait'[u].waiting_on = wait[u].waiting_on
  BY <1>1, <1>2
<1>4. SchedInv' /\ owner' = [owner EXCEPT ![o] = t] /\ owner[o] \in {NULL, t}
  BY <1>2, <1>3, ClaimKept
<1>5. owner'[o] = t /\ \A p \in Objects \ {o} : owner'[p] = owner[p]
  BY <1>2, <1>4
<1>6. Free(o)'
  BY <1>1, <1>4 DEF Free, pubVars
<1>7. UNCHANGED owned_internal_mutex_count
  BY <1>2 DEF MutexClaim, Counted
<1>8. call' = [call EXCEPT ![t] = call[t]]
  BY <1>2
<1>9. SchedMove(t, o, "publish", call[t])
  BY <1>1, <1>3, <1>5, <1>7, <1>8 DEF SchedMove, Goto
<1>10. Role(t, o)' = "publish"
  BY GotoAt DEF Role, Passing
<1>11. Fits(Role(t, o), t, o)'
  BY <1>1, <1>5, <1>6, <1>10 DEF Fits
<1>12. Turn(t, o)
  BY <1>4, <1>5 DEF Turn
<1> QED BY <1>1, <1>4, <1>6, <1>9, <1>11, <1>12, SchedMoveKeeps DEF Pinning

\* A wait that ends without the mutex.
LEMMA LockAbortKeeps ==
  ASSUME MInv, NEW t \in Tasks, NEW o \in Objects, NEW w \in WaitRecords, o = call[t].obj, At(t, "lock"), owner[o] # t,
         wait' = [wait EXCEPT ![t] = w], w.waiting_on = NULL, Goto(t, "unwait"),
         UNCHANGED <<kill_ticket, queue, owner, owned_internal_mutex_count>>,
         UNCHANGED <<objVars, pubVars, node_owner, life, call, reaper, depth>>
  PROVE  MInv'
<1>1. /\ call[t] \in CallRecords /\ wait[t].waiting_on = NULL /\ pc[t] \in Pinning /\ depth[t][o] = 0
  BY AtLock
<1>2. wait \in [Tasks -> WaitRecords] /\ call \in [Tasks -> CallRecords] /\ SchedInv /\ kill_ticket \in [Tasks -> BOOLEAN]
  BY DEF MInv, TypeOK, SchedTypeOK, CallRecords
<1>3. wait' \in [Tasks -> WaitRecords] /\ \A u \in Tasks : wait'[u].waiting_on = wait[u].waiting_on
  BY <1>1, <1>2
<1>4. SchedInv'
  BY <1>2, <1>3, OwnFieldsKept
<1>5. SameFace(o) /\ Turn(t, o)
  BY DEF SameFace, pubVars, Turn
<1>6. call' = [call EXCEPT ![t] = call[t]]
  BY <1>2
<1>7. SchedMove(t, o, "unwait", call[t])
  BY <1>1, <1>3, <1>6 DEF SchedMove, Goto
<1>8. Role(t, o)' = "unwait"
  BY GotoAt DEF Role, Passing
<1>9. Fits(Role(t, o), t, o)'
  BY <1>1, <1>5, <1>8 DEF Fits, SameFace
<1>10. owner'[o] = NULL => Free(o)'
  BY DEF MInv, UnownedIsFree, Free, pubVars
<1> QED BY <1>1, <1>4, <1>5, <1>7, <1>9, <1>10, SchedMoveKeeps DEF Pinning

\* A mutex without public owner is given to the next waiter.
LEMMA GiveUpKeeps ==
  ASSUME MInv, NEW t \in Tasks, NEW o \in Objects, NEW w \in WaitRecords, NEW at \in {"unwait", "dropholder"},
         o = call[t].obj, pc[t] \in Pinning, ~Blocked(t), owner[o] = t, Free(o), depth[t][o] = 0,
         MutexRelinquish(t, o, w), w.waiting_on = NULL, Goto(t, at),
         UNCHANGED <<objVars, pubVars, node_owner, life, call, reaper, depth>>
  PROVE  MInv'
<1>1. /\ SchedInv' /\ owner'[o] # t /\ UNCHANGED owned_internal_mutex_count
      /\ \A p \in Objects \ {o} : owner'[p] = owner[p]
      /\ \A u \in Tasks : wait'[u].waiting_on \in {wait[u].waiting_on, NULL}
      /\ wait'[t].waiting_on = NULL
      /\ \A u \in Tasks : owner'[o] = u =>
              pc[u] = "lock" /\ call[u].obj = o /\ call[u].waited /\ wait'[u].waiting_on = NULL
  BY HandedFacts
<1>2. call \in [Tasks -> CallRecords]
  BY DEF MInv, TypeOK, CallRecords
<1>3. call[t] \in CallRecords /\ call' = [call EXCEPT ![t] = call[t]]
  BY <1>2
<1>4. Free(o)'
  BY DEF Free, pubVars
<1>5. Turn(t, o)
  BY <1>1, <1>4 DEF Turn
<1>6. SchedMove(t, o, at, call[t])
  BY <1>1, <1>3 DEF SchedMove, Goto
<1>7. Role(t, o)' = at
  BY GotoAt DEF Role, Passing
<1>8. Fits(Role(t, o), t, o)'
  BY <1>1, <1>7 DEF Fits
<1> QED BY <1>1, <1>3, <1>4, <1>5, <1>6, <1>8, SchedMoveKeeps DEF Pinning

\* A killed task gives back what was handed to it, takes a free mutex it need not wait for, or leaves.
LEMMA LockKilledKeeps ==
  ASSUME MInv, NEW t \in Tasks, LockKilled(t)
  PROVE  MInv'
<1>0. At(t, "lock") /\ UNCHANGED <<objVars, pubVars, node_owner, life, call, reaper, depth>>
  BY DEF LockKilled
<1> DEFINE o == call[t].obj
<1>1. /\ o \in Objects /\ pc[t] \in Pinning /\ depth[t][o] = 0 /\ (owner[o] \in {NULL, t} => Free(o))
      /\ NotCancellable(t) \in WaitRecords /\ NotCancellable(t).waiting_on = NULL
  BY <1>0, AtLock
<1>2. CASE owner[o] = t /\ MutexRelinquish(t, o, NotCancellable(t)) /\ Goto(t, "unwait")
  BY <1>0, <1>1, <1>2, GiveUpKeeps DEF At
<1>3. CASE /\ MutexClaim(t, o) /\ wait' = [wait EXCEPT ![t] = NotCancellable(t)]
           /\ UNCHANGED <<kill_ticket, queue>> /\ Goto(t, "publish")
  BY <1>0, <1>1, <1>3, LockClaimKeeps
<1>4. CASE /\ owner[o] # t /\ wait' = [wait EXCEPT ![t] = NotCancellable(t)] /\ Goto(t, "unwait")
           /\ UNCHANGED <<kill_ticket, queue, owner, owned_internal_mutex_count>>
  BY <1>0, <1>1, <1>4, LockAbortKeeps
<1> QED BY <1>2, <1>3, <1>4 DEF LockKilled

\* The mutex was handed over or is free.
LEMMA LockTakeKeeps ==
  ASSUME MInv, NEW t \in Tasks, LockTake(t)
  PROVE  MInv'
<1>1. At(t, "lock") /\ call[t].obj \in Objects
  BY AtLock DEF LockTake
<1> QED BY <1>1, LockClaimKeeps DEF LockTake

\* The wait expired, or the caller would not wait.
LEMMA LockTimeoutKeeps ==
  ASSUME MInv, NEW t \in Tasks, LockTimeout(t)
  PROVE  MInv'
<1> DEFINE o == call[t].obj
           w == [NotCancellable(t) EXCEPT !.wake_by_timeout = FALSE]
<1>1. At(t, "lock") /\ o \in Objects /\ NotCancellable(t) \in WaitRecords /\ NotCancellable(t).waiting_on = NULL
  BY AtLock DEF LockTimeout
<1>2. owner[o] # t
  BY DEF LockTimeout, MutexAvailable
<1>3. w \in WaitRecords /\ w.waiting_on = NULL
  BY <1>1 DEF WaitRecords
<1>4. /\ wait' = [wait EXCEPT ![t] = w] /\ Goto(t, "unwait")
      /\ UNCHANGED <<kill_ticket, queue, owner, owned_internal_mutex_count>>
      /\ UNCHANGED <<objVars, pubVars, node_owner, life, call, reaper, depth>>
  BY DEF LockTimeout
<1> HIDE DEF w
<1> QED BY <1>1, <1>2, <1>3, <1>4, LockAbortKeeps

\* The task queues behind the owner.
LEMMA LockParkKeeps ==
  ASSUME MInv, NEW t \in Tasks, LockPark(t)
  PROVE  MInv'
<1>0. At(t, "lock")
  BY DEF LockPark
<1>1. call[t].obj \in Objects
  BY <1>0, AtLock
<1> SUFFICES ASSUME NEW o \in Objects, o = call[t].obj PROVE MInv'
  BY <1>1
<1> DEFINE w == [ParkedOn(wait[t], Inner(o), call[t].tick) EXCEPT !.wait_cancellable = TRUE]
           c == [call[t] EXCEPT !.waited = TRUE]
<1>2. call[t] \in CallRecords /\ wait[t] \in WaitRecords /\ pc[t] \in Pinning /\ depth[t][o] = 0 /\ pc[t] = "lock"
  BY <1>0, AtLock DEF At
<1>3. c \in CallRecords /\ c.obj = o /\ c.waited = TRUE
  BY <1>2 DEF CallRecords
<1>4. call[t].tick \in WakeTicks
  BY <1>2 DEF LockPark, CallRecords, WakeTicks
<1>5. w \in WaitRecords /\ w.waiting_on = Inner(o)
  <2> DEFINE v == ParkedOn(wait[t], Inner(o), call[t].tick)
  <2>1. v \in WaitRecords /\ v.waiting_on = Inner(o)
    BY <1>2, <1>4, ParkUpdates, QueueNames
  <2> HIDE DEF v
  <2>2. /\ [v EXCEPT !.wait_cancellable = TRUE] \in WaitRecords
        /\ [v EXCEPT !.wait_cancellable = TRUE].waiting_on = Inner(o)
    BY <2>1, CancellableUpdate
  <2> QED BY <2>2 DEF v
<1>6. /\ MutexPark(t, o, w) /\ call' = [call EXCEPT ![t] = c]
      /\ UNCHANGED <<objVars, pubVars, node_owner, life, pc, reaper, depth>>
  BY DEF LockPark
<1>7. owner[o] # t /\ UNCHANGED owned_internal_mutex_count
  BY <1>6 DEF MutexPark, MutexAvailable
<1> HIDE DEF w, c
<1>8. SchedInv' /\ UNCHANGED owner /\ wait'[t] = w /\ \A u \in Tasks \ {t} : wait'[u] = wait[u]
  BY <1>0, <1>5, <1>6, ParkKept DEF MInv, At
<1>9. pc \in [Tasks -> PCs] /\ call \in [Tasks -> CallRecords]
  BY DEF MInv, TypeOK, CallRecords
<1>10. pc' = [pc EXCEPT ![t] = "lock"]
  BY <1>2, <1>6, <1>9
<1>11. SchedMove(t, o, "lock", c)
  BY <1>3, <1>5, <1>6, <1>7, <1>8, <1>10 DEF SchedMove
<1>12. SameFace(o) /\ Turn(t, o)
  BY <1>6, <1>8 DEF SameFace, pubVars, Turn
<1>13. pc'[t] = "lock" /\ call'[t] = c
  BY <1>6, <1>9, <1>10
<1>14. Role(t, o)' = "lock"
  BY <1>3, <1>13 DEF Role, Passing
<1>15. Fits(Role(t, o), t, o)'
  BY <1>2, <1>6, <1>7, <1>8, <1>14 DEF Fits
<1>16. owner'[o] = NULL => Free(o)'
  BY <1>12 DEF MInv, UnownedIsFree, Free, SameFace
<1>17. "lock" \in Pinning
  BY DEF Pinning
<1> QED BY <1>2, <1>3, <1>8, <1>11, <1>12, <1>15, <1>16, <1>17, SchedMoveKeeps

\* The release hands the inner mutex on.
LEMMA ReleaseUnlockKeeps ==
  ASSUME MInv, NEW t \in Tasks, ReleaseUnlock(t)
  PROVE  MInv'
<1> DEFINE o == call[t].obj
<1>1. pc[t] = "unlock" /\ ~Blocked(t) /\ o \in Objects /\ Fits(Role(t, o), t, o)
  BY InCall DEF ReleaseUnlock, At
<1>2. Role(t, o) = "unlock"
  BY <1>1 DEF Role, Passing
<1>3. owner[o] = t /\ Free(o) /\ depth[t][o] = 0 /\ pc[t] \in Pinning
  BY <1>1, <1>2 DEF Fits, Pinning
<1>4. wait[t] \in WaitRecords /\ wait[t].waiting_on = NULL
  BY <1>1 DEF MInv, TypeOK, SchedTypeOK, Blocked
<1>5. MutexRelinquish(t, o, wait[t])
  BY DEF ReleaseUnlock, MutexUnlock
<1> QED BY <1>1, <1>3, <1>4, <1>5, GiveUpKeeps DEF ReleaseUnlock

\* Every step of a task in a call keeps the invariant.
LEMMA ContinueKeeps ==
  ASSUME MInv, NEW t \in Tasks, Continue(t)
  PROVE  MInv'
BY AcquireRecursiveKeeps, AcquirePinKeeps, LockKilledKeeps, LockTakeKeeps, LockTimeoutKeeps, LockParkKeeps,
   AcquireFailsKeeps, AcquirePublishKeeps, AcquireTrackKeeps, AcquireReportKeeps, ReleaseRefusedKeeps,
   ReleaseRecursiveKeeps, ReleaseUntrackKeeps, ReleaseClearKeeps, ReleaseUnlockKeeps, ReleaseDropKeeps, ReturnKeeps
   DEF Continue

-----------------------------------------------------------------------------
(* The rest of the system *)

\* The references when no call moves: what handle, ledger and reaper hold changes with the count.
LEMMA NoCallMoves ==
  ASSUME MInv, UNCHANGED <<pc, call>>, refcount' \in [Objects -> Int], handles' \in [Objects -> {0, 1}],
         \A o \in Objects : refcount'[o] + handles[o] + InLedger(o) + InReaper(o)
                              = refcount[o] + handles'[o] + InLedger(o)' + InReaper(o)'
  PROVE  ReferencesOK' /\ refcount' \in [Objects -> Nat]
<1>1. CallOn' = CallOn /\ PinOn' = PinOn
  BY DEF CallOn, PinOn
<1>2. ASSUME NEW o \in Objects
      PROVE  /\ refcount'[o] \in Nat
             /\ refcount'[o] = handles'[o] + Count(CallOn, Tasks, o) + Count(PinOn, Tasks, o) + InLedger(o)' + InReaper(o)'
  <2> DEFINE k == Count(CallOn, Tasks, o) + Count(PinOn, Tasks, o)
  <2>1. Count(CallOn, Tasks, o) \in Nat /\ Count(PinOn, Tasks, o) \in Nat
    BY ReferenceSums
  <2>2. k \in Nat
    BY <2>1
  <2>3. /\ InLedger(o) \in {0, 1} /\ InReaper(o) \in {0, 1} /\ InLedger(o)' \in {0, 1} /\ InReaper(o)' \in {0, 1}
    BY DEF InLedger, InReaper
  <2>4. refcount[o] \in Nat /\ handles[o] \in {0, 1} /\ handles'[o] \in {0, 1} /\ refcount'[o] \in Int
    BY DEF MInv, TypeOK
  <2>5. refcount[o] = handles[o] + Count(CallOn, Tasks, o) + Count(PinOn, Tasks, o) + InLedger(o) + InReaper(o)
    BY DEF MInv, ReferencesOK
  <2>6. refcount[o] = handles[o] + k + InLedger(o) + InReaper(o)
    BY <2>1, <2>3, <2>4, <2>5
  <2> HIDE DEF k
  <2>7. refcount'[o] = handles'[o] + k + InLedger(o)' + InReaper(o)'
    <3>1. refcount'[o] + handles[o] + InLedger(o) + InReaper(o) = refcount[o] + handles'[o] + InLedger(o)' + InReaper(o)'
      OBVIOUS
    <3>2. /\ InLedger(o) \in Int /\ InReaper(o) \in Int /\ InLedger(o)' \in Int /\ InReaper(o)' \in Int
          /\ handles[o] \in Int /\ handles'[o] \in Int
      BY <2>3, <2>4
    <3> QED BY <2>2, <2>4, <2>6, <3>1, <3>2
  <2>8. refcount'[o] \in Nat
    BY <2>2, <2>3, <2>4, <2>7
  <2>9. refcount'[o] = handles'[o] + Count(CallOn, Tasks, o) + Count(PinOn, Tasks, o) + InLedger(o)' + InReaper(o)'
    BY <2>1, <2>3, <2>4, <2>7 DEF k
  <2> QED BY <2>8, <2>9
<1>3. refcount' \in [Objects -> Nat]
  BY <1>2
<1>4. ReferencesOK' <=> \A o \in Objects :
        refcount'[o] = handles'[o] + Count(CallOn', Tasks, o) + Count(PinOn', Tasks, o) + InLedger(o)' + InReaper(o)'
  BY DEF ReferencesOK, Count
<1> QED BY <1>1, <1>2, <1>3, <1>4

\* Nothing that is counted moves.
LEMMA NoReferenceMoves ==
  ASSUME MInv, UNCHANGED <<pc, call, refcount, handles>>,
         \A o \in Objects : InLedger(o)' + InReaper(o)' = InLedger(o) + InReaper(o)
  PROVE  ReferencesOK'
<1>1. refcount \in [Objects -> Nat] /\ handles \in [Objects -> {0, 1}]
  BY DEF MInv, TypeOK
<1>2. ASSUME NEW o \in Objects
      PROVE  refcount'[o] + handles[o] + InLedger(o) + InReaper(o) = refcount[o] + handles'[o] + InLedger(o)' + InReaper(o)'
  <2>1. /\ InLedger(o) \in Int /\ InReaper(o) \in Int /\ InLedger(o)' \in Int /\ InReaper(o)' \in Int
        /\ handles[o] \in Int /\ refcount[o] \in Int
    BY <1>1 DEF InLedger, InReaper
  <2>2. InLedger(o)' + InReaper(o)' = InLedger(o) + InReaper(o)
    OBVIOUS
  <2> QED BY <2>1, <2>2
<1> QED BY <1>1, <1>2, NoCallMoves

\* Waits that end keep every task in order.
LEMMA WaitsMayEnd ==
  ASSUME MInv, UNCHANGED <<pc, call, depth, owned_internal_mutex_count>>,
         \A u \in Tasks : wait'[u].waiting_on \in {wait[u].waiting_on, NULL},
         \A u \in Tasks : life'[u] # "live" => life[u] # "live"
  PROVE  TasksOK'
<1> SUFFICES ASSUME NEW u \in Tasks PROVE TaskOK(u)'
  BY DEF TasksOK
<1>1. TaskOK(u)
  BY DEF MInv, TasksOK
<1> QED BY <1>1 DEF TaskOK, Blocked

\* The timer or a kill ends a wait.
LEMMA WakeKeeps ==
  ASSUME MInv, SchedOnly, SchedInv', UNCHANGED <<owner, owned_internal_mutex_count>>,
         \A u \in Tasks : wait'[u].waiting_on \in {wait[u].waiting_on, NULL}
  PROVE  MInv'
<1>0. UNCHANGED <<refcount, handles, pubVars, node_owner, life, pc, call, reaper, depth>>
  BY DEF SchedOnly, objVars
<1>1. TypeOK'
  <2>1. SchedTypeOK'
    BY DEF SchedInv
  <2> QED BY <1>0, <2>1 DEF MInv, TypeOK, pubVars
<1>2. TasksOK'
  BY <1>0, WaitsMayEnd
<1>3. ReaperOK'
  BY <1>0 DEF MInv, ReaperOK
<1>4. RolesFit'
  <2> SUFFICES ASSUME NEW u \in Tasks, NEW p \in Objects PROVE Fits(Role(u, p), u, p)'
    BY DEF RolesFit
  <2>1. Fits(Role(u, p), u, p)
    BY DEF MInv, RolesFit
  <2>2. Role(u, p)' = Role(u, p)
    BY <1>0 DEF Role
  <2>3. SameFace(p)
    BY <1>0 DEF SameFace, pubVars
  <2>4. ~Blocked(u) => ~Blocked(u)'
    BY DEF Blocked
  <2> QED BY <1>0, <2>1, <2>2, <2>3, <2>4, KeptFits
<1>5. UnownedIsFree'
  BY <1>0 DEF MInv, UnownedIsFree, Free, pubVars
<1>6. ReferencesOK'
  BY <1>0, NoReferenceMoves DEF InLedger, InReaper
<1> QED BY <1>1, <1>2, <1>3, <1>4, <1>5, <1>6 DEF MInv

\* The timer tick and the kill.
LEMMA TimerAndKillKeep ==
  ASSUME MInv, NEW t \in Tasks, OnTimerTick(t) \/ SignalTask(t), SchedOnly
  PROVE  MInv'
<1>1. CASE OnTimerTick(t)
  <2>1. SchedInv' /\ UNCHANGED owner /\ wait'[t].waiting_on = NULL /\ \A u \in Tasks \ {t} : wait'[u] = wait[u]
    BY <1>1, TimerKept DEF MInv
  <2>2. UNCHANGED owned_internal_mutex_count
    BY <1>1 DEF OnTimerTick
  <2> QED BY <2>1, <2>2, WakeKeeps
<1>2. CASE SignalTask(t)
  <2>1. /\ SchedInv' /\ UNCHANGED owner /\ (wait'[t].waiting_on = NULL \/ UNCHANGED wait)
        /\ \A u \in Tasks \ {t} : wait'[u] = wait[u]
    BY <1>2, KillKept DEF MInv
  <2>2. UNCHANGED owned_internal_mutex_count
    BY <1>2 DEF SignalTask
  <2> QED BY <2>1, <2>2, WakeKeeps
<1> QED BY <1>1, <1>2

\* A handle is closed.
LEMMA CloseHandleKeeps ==
  ASSUME MInv, NEW o \in Objects, CloseHandle(o)
  PROVE  MInv'
<1>0. refcount \in [Objects -> Nat] /\ handles \in [Objects -> {0, 1}]
  BY DEF MInv, TypeOK
<1>1. /\ UNCHANGED <<schedVars, pubVars, node_owner, life, pc, call, reaper, depth>> /\ handles[o] = 1
      /\ handles' = [handles EXCEPT ![o] = 0] /\ refcount' = [refcount EXCEPT ![o] = refcount[o] - 1]
  BY DEF CloseHandle, KObjectRelease
<1>2. /\ SchedInv' /\ SchedTypeOK' /\ UNCHANGED <<wait, owner, owned_internal_mutex_count>>
      /\ \A u \in Tasks : Blocked(u)' <=> Blocked(u)
  BY <1>1, SchedStill
<1>3. refcount' \in [Objects -> Int] /\ handles' \in [Objects -> {0, 1}]
  BY <1>0, <1>1
<1>4. ASSUME NEW p \in Objects
      PROVE  refcount'[p] + handles[p] + InLedger(p) + InReaper(p) = refcount[p] + handles'[p] + InLedger(p)' + InReaper(p)'
  <2>1. InLedger(p)' = InLedger(p) /\ InReaper(p)' = InReaper(p) /\ InLedger(p) \in Int /\ InReaper(p) \in Int
    BY <1>1 DEF InLedger, InReaper
  <2>2. refcount[p] \in Int /\ refcount'[p] \in Int /\ handles[p] \in Int /\ handles'[p] \in Int
    BY <1>0, <1>3
  <2>3. refcount'[p] + handles[p] = refcount[p] + handles'[p]
    BY <1>0, <1>1, <2>2
  <2> QED BY <2>1, <2>2, <2>3
<1>5. ReferencesOK' /\ refcount' \in [Objects -> Nat]
  BY <1>1, <1>3, <1>4, NoCallMoves
<1>6. TypeOK'
  BY <1>1, <1>2, <1>3, <1>5 DEF MInv, TypeOK, pubVars
<1>7. TasksOK'
  BY <1>1, <1>2, WaitsMayEnd
<1>8. ReaperOK'
  BY <1>1 DEF MInv, ReaperOK
<1>9. RolesFit'
  <2> SUFFICES ASSUME NEW u \in Tasks, NEW p \in Objects PROVE Fits(Role(u, p), u, p)'
    BY DEF RolesFit
  <2>1. Fits(Role(u, p), u, p)
    BY DEF MInv, RolesFit
  <2>2. Role(u, p)' = Role(u, p)
    BY <1>1 DEF Role
  <2>3. SameFace(p)
    BY <1>1, <1>2 DEF SameFace, pubVars
  <2> QED BY <1>1, <1>2, <2>1, <2>2, <2>3, KeptFits
<1>10. UnownedIsFree'
  BY <1>1, <1>2 DEF MInv, UnownedIsFree, Free, pubVars
<1> QED BY <1>2, <1>5, <1>6, <1>7, <1>8, <1>9, <1>10 DEF MInv

\* A live task exits with what it holds still in its ledger.
LEMMA TaskExitKeeps ==
  ASSUME MInv, NEW t \in Tasks, TaskExit(t)
  PROVE  MInv'
<1>0. life \in [Tasks -> {"live", "Dead", "reaped"}] /\ depth \in [Tasks -> [Objects -> 0..MaxRecursion]]
  BY DEF MInv, TypeOK
<1>1. /\ UNCHANGED <<schedVars, refcount, handles, pubVars, node_owner, pc, call, reaper>>
      /\ pc[t] = "idle" /\ ~Blocked(t) /\ life[t] = "live"
      /\ life' = [life EXCEPT ![t] = "Dead"] /\ depth' = [depth EXCEPT ![t] = [o \in Objects |-> 0]]
  BY DEF TaskExit, At, objVars
<1>2. /\ SchedInv' /\ SchedTypeOK' /\ UNCHANGED <<wait, owner, owned_internal_mutex_count>>
      /\ \A u \in Tasks : Blocked(u)' <=> Blocked(u)
  BY <1>1, SchedStill
<1>3. life'[t] = "Dead" /\ \A u \in Tasks \ {t} : life'[u] = life[u] /\ depth'[u] = depth[u]
  BY <1>0, <1>1
<1>4. \A o \in Objects : depth'[t][o] = 0
  BY <1>0, <1>1
<1>5. TypeOK'
  <2>1. life' \in [Tasks -> {"live", "Dead", "reaped"}] /\ depth' \in [Tasks -> [Objects -> 0..MaxRecursion]]
    BY <1>0, <1>1, FieldTypes
  <2> QED BY <1>1, <1>2, <2>1 DEF MInv, TypeOK, pubVars
<1>6. TasksOK'
  <2> SUFFICES ASSUME NEW u \in Tasks PROVE TaskOK(u)'
    BY DEF TasksOK
  <2>1. TaskOK(u)
    BY DEF MInv, TasksOK
  <2> QED BY <1>1, <1>2, <1>3, <1>4, <2>1 DEF TaskOK
<1>7. ReaperOK'
  <2>1. reaper.batch \in SUBSET Tasks /\ reaper.task \in Tasks \cup {NULL}
    BY DEF MInv, TypeOK
  <2> QED BY <1>1, <1>3, <2>1 DEF MInv, ReaperOK
<1>8. RolesFit'
  <2> SUFFICES ASSUME NEW u \in Tasks, NEW p \in Objects PROVE Fits(Role(u, p), u, p)'
    BY DEF RolesFit
  <2>1. Fits(Role(u, p), u, p)
    BY DEF MInv, RolesFit
  <2>2. SameFace(p)
    BY <1>1, <1>2 DEF SameFace, pubVars
  <2>3. CASE u # t
    <3>1. Role(u, p)' = Role(u, p)
      BY <1>1, <1>3, <2>3 DEF Role
    <3> QED BY <1>1, <1>2, <1>3, <2>1, <2>2, <2>3, <3>1, KeptFits
  <2>4. CASE u = t
    <3>1. Role(t, p) = (IF depth[t][p] > 0 THEN "hold" ELSE "none") /\ depth[t][p] \in Nat /\ reaper.task # t
      BY <1>1, LiveRole, SchedAssumption DEF Passing, MInv, ReaperOK
    <3>2. Role(t, p)' = IF node_owner[p] = t THEN "orphan" ELSE "none"
      BY <1>1, <1>3, <1>4, <3>1 DEF Role, Passing
    <3>3. CASE depth[t][p] > 0
      <4>1. Role(t, p)' = "orphan"
        BY <2>1, <2>4, <3>1, <3>2, <3>3 DEF Fits, Published
      <4> QED BY <1>4, <2>1, <2>2, <2>4, <3>1, <3>3, <4>1 DEF Fits, Published, SameFace
    <3>4. CASE ~(depth[t][p] > 0)
      <4>1. owner[p] # t
        BY <2>1, <2>4, <3>1, <3>4 DEF Fits
      <4>2. Role(t, p)' = "none"
        BY <3>2, <4>1, OwnerNamed, SchedAssumption
      <4> QED BY <1>4, <2>2, <2>4, <4>1, <4>2 DEF Fits, SameFace
    <3> QED BY <3>3, <3>4
  <2> QED BY <2>3, <2>4
<1>9. UnownedIsFree'
  BY <1>1, <1>2 DEF MInv, UnownedIsFree, Free, pubVars
<1>10. ReferencesOK'
  BY <1>1, NoReferenceMoves DEF InLedger, InReaper
<1> QED BY <1>2, <1>5, <1>6, <1>7, <1>8, <1>9, <1>10 DEF MInv

\* A new task in the storage of a reaped one.
LEMMA TaskCreateKeeps ==
  ASSUME MInv, NEW t \in Tasks, TaskCreate(t)
  PROVE  MInv'
<1>0. /\ life \in [Tasks -> {"live", "Dead", "reaped"}] /\ wait \in [Tasks -> WaitRecords]
      /\ kill_ticket \in [Tasks -> BOOLEAN] /\ NotWaiting \in WaitRecords /\ NotWaiting.waiting_on = NULL
  BY DEF MInv, TypeOK, SchedTypeOK, NotWaiting, WaitRecords, WakeTicks
<1>1. /\ life[t] = "reaped" /\ life' = [life EXCEPT ![t] = "live"]
      /\ kill_ticket' = [kill_ticket EXCEPT ![t] = FALSE] /\ wait' = [wait EXCEPT ![t] = NotWaiting]
      /\ UNCHANGED <<queue, owner, owned_internal_mutex_count>>
      /\ UNCHANGED <<refcount, handles, pubVars, node_owner, pc, call, reaper, depth>>
  BY DEF TaskCreate, objVars
<1>2. TaskOK(t) /\ pc[t] = "idle" /\ \A o \in Objects : depth[t][o] = 0
  BY <1>1 DEF MInv, TasksOK, TaskOK
<1>3. wait[t].waiting_on = NULL
  BY <1>2 DEF TaskOK, Blocked
<1>4. wait' \in [Tasks -> WaitRecords] /\ \A u \in Tasks : wait'[u].waiting_on = wait[u].waiting_on
  BY <1>0, <1>1, <1>3
<1>5. kill_ticket' \in [Tasks -> BOOLEAN]
  BY <1>0, <1>1
<1>6. SchedInv'
  BY <1>1, <1>4, <1>5, OwnFieldsKept DEF MInv
<1>7. life'[t] = "live" /\ (\A u \in Tasks \ {t} : life'[u] = life[u]) /\ life' \in [Tasks -> {"live", "Dead", "reaped"}]
  BY <1>0, <1>1
<1>8. TypeOK'
  <2>1. SchedTypeOK'
    BY <1>6 DEF SchedInv
  <2> QED BY <1>1, <1>7, <2>1 DEF MInv, TypeOK, pubVars
<1>9. TasksOK'
  BY <1>1, <1>4, <1>7, WaitsMayEnd
<1>10. reaper.task # t
  BY <1>1, SchedAssumption DEF MInv, ReaperOK
<1>11. ReaperOK'
  <2>1. reaper.batch \in SUBSET Tasks /\ reaper.task \in Tasks \cup {NULL}
    BY DEF MInv, TypeOK
  <2> QED BY <1>1, <1>7, <2>1 DEF MInv, ReaperOK
<1>12. RolesFit'
  <2> SUFFICES ASSUME NEW u \in Tasks, NEW p \in Objects PROVE Fits(Role(u, p), u, p)'
    BY DEF RolesFit
  <2>1. Fits(Role(u, p), u, p)
    BY DEF MInv, RolesFit
  <2>2. SameFace(p)
    BY <1>1 DEF SameFace, pubVars
  <2>3. Role(u, p)' = Role(u, p)
    BY <1>1, <1>2, <1>7, <1>10 DEF Role, Passing
  <2>4. ~Blocked(u) => ~Blocked(u)'
    BY <1>4 DEF Blocked
  <2> QED BY <1>1, <2>1, <2>2, <2>3, <2>4, KeptFits
<1>13. UnownedIsFree'
  BY <1>1 DEF MInv, UnownedIsFree, Free, pubVars
<1>14. ReferencesOK'
  BY <1>1, NoReferenceMoves DEF InLedger, InReaper
<1> QED BY <1>6, <1>8, <1>9, <1>11, <1>12, <1>13, <1>14 DEF MInv

-----------------------------------------------------------------------------
(* The reaper *)

ReaperRecords ==
  [batch: SUBSET Tasks, task: Tasks \cup {NULL}, nodes: SUBSET Objects, node: Objects \cup {NULL},
   at: {"idle", "pick", "next", "publish", "abandon", "release"}]

(* A step of the reaper moves no call and no task's depth.                 *)
ReapStep ==
  UNCHANGED <<handles, pc, call, depth, owned_internal_mutex_count>> /\ reaper' \in ReaperRecords

\* The role of a task the reaper does not work on, before and after.
LEMMA UnreapedRole ==
  ASSUME ReapStep, NEW u \in Tasks, NEW p \in Objects, reaper.task # u, reaper'.task # u,
         life'[u] = "Dead" /\ node_owner'[p] = u <=> life[u] = "Dead" /\ node_owner[p] = u
  PROVE  Role(u, p)' = Role(u, p)
BY DEF ReapStep, Role

\* The role of a dead task.
LEMMA DeadRole ==
  ASSUME MInv, NEW t \in Tasks, NEW p \in Objects, life[t] = "Dead"
  PROVE  /\ depth[t][p] = 0 /\ pc[t] = "idle" /\ ~Blocked(t)
         /\ reaper.task # t => Role(t, p) = IF node_owner[p] = t THEN "orphan" ELSE "none"
         /\ reaper.task = t => Role(t, p) = IF p \in reaper.nodes THEN "detached"
                                            ELSE IF reaper.node = p /\ reaper.at = "publish" THEN "reap"
                                            ELSE IF reaper.node = p /\ reaper.at = "abandon" THEN "letgo" ELSE "none"
<1>1. TaskOK(t)
  BY DEF MInv, TasksOK
<1>2. depth[t][p] = 0 /\ pc[t] = "idle" /\ ~Blocked(t)
  BY <1>1 DEF TaskOK
<1>3. reaper.task = t => node_owner[p] # t
  BY SchedAssumption DEF MInv, ReaperOK
<1> QED BY <1>2, <1>3 DEF Role, Passing

\* The reaper takes the zombie list.
LEMMA ReaperDrainKeeps ==
  ASSUME MInv, ReaperDrain
  PROVE  MInv'
<1> DEFINE z == {t \in Tasks : life[t] = "Dead"}
<1>1. /\ UNCHANGED <<schedVars, refcount, handles, pubVars, node_owner, life, pc, call, depth>> /\ reaper.at = "idle"
      /\ reaper' = [batch |-> z, task |-> NULL, nodes |-> {}, node |-> NULL, at |-> "pick"]
  BY DEF ReaperDrain, ReaperIdle, objVars
<1>2. /\ SchedInv' /\ SchedTypeOK' /\ UNCHANGED <<wait, owner, owned_internal_mutex_count>>
      /\ \A u \in Tasks : Blocked(u)' <=> Blocked(u)
  BY <1>1, SchedStill
<1>3. reaper' \in ReaperRecords /\ reaper'.task = NULL /\ reaper'.nodes = {} /\ reaper'.node = NULL
      /\ reaper'.at = "pick" /\ reaper'.batch = z
  BY <1>1 DEF ReaperRecords
<1>4. reaper.task = NULL /\ reaper.nodes = {} /\ reaper.node = NULL
  BY <1>1 DEF MInv, ReaperOK
<1>5. TypeOK'
  BY <1>1, <1>2, <1>3 DEF MInv, TypeOK, pubVars, ReaperRecords
<1>6. TasksOK'
  BY <1>1, <1>2, WaitsMayEnd
<1>7. ReaperOK'
  BY <1>1, <1>3 DEF ReaperOK
<1>8. ReapStep
  BY <1>1, <1>2, <1>3 DEF ReapStep
<1>9. RolesFit'
  <2> SUFFICES ASSUME NEW u \in Tasks, NEW p \in Objects PROVE Fits(Role(u, p), u, p)'
    BY DEF RolesFit
  <2>1. Fits(Role(u, p), u, p)
    BY DEF MInv, RolesFit
  <2>2. SameFace(p)
    BY <1>1, <1>2 DEF SameFace, pubVars
  <2>3. Role(u, p)' = Role(u, p)
    BY <1>1, <1>3, <1>4, <1>8, SchedAssumption, UnreapedRole
  <2> QED BY <1>1, <1>2, <2>1, <2>2, <2>3, KeptFits
<1>10. UnownedIsFree'
  BY <1>1, <1>2 DEF MInv, UnownedIsFree, Free, pubVars
<1>11. ReferencesOK'
  BY <1>1, <1>3, <1>4, NoReferenceMoves DEF InLedger, InReaper
<1> QED BY <1>2, <1>5, <1>6, <1>7, <1>9, <1>10, <1>11 DEF MInv

\* The ledger of a dead task is detached: its entries become the reaper's.
LEMMA ReaperDetachKeeps ==
  ASSUME MInv, NEW t \in Tasks, ReaperDetach(t)
  PROVE  MInv'
<1>1. /\ UNCHANGED <<schedVars, refcount, handles, pubVars, life, pc, call, depth>>
      /\ reaper.at = "pick" /\ t \in reaper.batch
      /\ reaper' = [batch |-> reaper.batch \ {t}, task |-> t, nodes |-> OwnedNodes(t), node |-> NULL, at |-> "next"]
      /\ node_owner' = [o \in Objects |-> IF node_owner[o] = t THEN NULL ELSE node_owner[o]]
  BY DEF ReaperDetach, NodesDetached, objVars
<1>2. /\ SchedInv' /\ SchedTypeOK' /\ UNCHANGED <<wait, owner, owned_internal_mutex_count>>
      /\ \A u \in Tasks : Blocked(u)' <=> Blocked(u)
  BY <1>1, SchedStill
<1>3. /\ reaper.task = NULL /\ reaper.nodes = {} /\ reaper.node = NULL /\ life[t] = "Dead"
      /\ t # NULL /\ \A u \in reaper.batch : life[u] = "Dead"
  BY <1>1, SchedAssumption DEF MInv, ReaperOK
<1>4. reaper.batch \in SUBSET Tasks /\ node_owner \in [Objects -> Tasks \cup {NULL}]
  BY DEF MInv, TypeOK
<1>5. /\ reaper' \in ReaperRecords /\ reaper'.task = t /\ reaper'.nodes = OwnedNodes(t) /\ reaper'.node = NULL
      /\ reaper'.at = "next" /\ reaper'.batch = reaper.batch \ {t}
  BY <1>1, <1>4 DEF ReaperRecords, OwnedNodes
<1>6. \A o \in Objects : node_owner'[o] = IF node_owner[o] = t THEN NULL ELSE node_owner[o]
  BY <1>1
<1>7. TypeOK'
  <2>1. node_owner' \in [Objects -> Tasks \cup {NULL}]
    BY <1>1, <1>4
  <2> QED BY <1>1, <1>2, <1>5, <2>1 DEF MInv, TypeOK, pubVars, ReaperRecords
<1>8. TasksOK'
  BY <1>1, <1>2, WaitsMayEnd
<1>9. ReaperOK'
  <2>1. \A o \in Objects : node_owner'[o] # t
    BY <1>3, <1>6
  <2>2. NULL \notin OwnedNodes(t)
    BY SchedAssumption DEF OwnedNodes
  <2> QED BY <1>1, <1>3, <1>5, <2>1, <2>2 DEF ReaperOK
<1>10. ReapStep
  BY <1>1, <1>2, <1>5 DEF ReapStep
<1>11. RolesFit'
  <2> SUFFICES ASSUME NEW u \in Tasks, NEW p \in Objects PROVE Fits(Role(u, p), u, p)'
    BY DEF RolesFit
  <2>1. Fits(Role(u, p), u, p)
    BY DEF MInv, RolesFit
  <2>2. /\ owner'[p] = owner[p] /\ held'[p] = held[p] /\ owner_tid'[p] = owner_tid[p]
        /\ recursion'[p] = recursion[p] /\ abandoned_pending'[p] = abandoned_pending[p] /\ depth' = depth
    BY <1>1, <1>2 DEF pubVars
  <2>3. CASE u # t
    <3>1. Role(u, p)' = Role(u, p)
      <4>1. node_owner'[p] = u <=> node_owner[p] = u
        BY <1>6, <2>3, SchedAssumption
      <4> QED BY <1>1, <1>3, <1>5, <1>10, <2>3, <4>1, SchedAssumption, UnreapedRole
    <3>2. CASE node_owner[p] = t
      <4>1. owner[p] = t
        BY <1>3, <3>2, OwnerNamed
      <4> QED BY <2>1, <2>2, <2>3, <3>1, <4>1, BystanderFits
    <3>3. CASE node_owner[p] # t
      <4>1. SameFace(p)
        BY <1>6, <2>2, <3>3 DEF SameFace
      <4> QED BY <1>1, <1>2, <2>1, <3>1, <4>1, KeptFits
    <3> QED BY <3>2, <3>3
  <2>4. CASE u = t
    <3>1. depth[t][p] = 0 /\ pc[t] = "idle" /\ Role(t, p) = IF node_owner[p] = t THEN "orphan" ELSE "none"
      BY <1>3, DeadRole
    <3>2. Role(t, p)' = IF node_owner[p] = t THEN "detached" ELSE "none"
      <4>1. node_owner'[p] # t /\ (p \in reaper'.nodes <=> node_owner[p] = t) /\ reaper'.node # p
        BY <1>3, <1>5, <1>6, SchedAssumption DEF OwnedNodes
      <4> QED BY <1>1, <1>5, <3>1, <4>1 DEF Role, Passing
    <3>3. CASE node_owner[p] = t
      BY <1>6, <2>1, <2>2, <2>4, <3>1, <3>2, <3>3 DEF Fits, Published
    <3>4. CASE node_owner[p] # t
      BY <2>1, <2>2, <2>4, <3>1, <3>2, <3>4 DEF Fits
    <3> QED BY <3>3, <3>4
  <2> QED BY <2>3, <2>4
<1>12. UnownedIsFree'
  BY <1>1, <1>2, <1>6 DEF MInv, UnownedIsFree, Free, pubVars
<1>13. ReferencesOK'
  <2>1. ASSUME NEW o \in Objects PROVE InLedger(o)' + InReaper(o)' = InLedger(o) + InReaper(o)
    <3>1. InReaper(o) = 0 /\ InReaper(o)' = IF node_owner[o] = t THEN 1 ELSE 0
      BY <1>3, <1>5, SchedAssumption DEF InReaper, OwnedNodes
    <3>2. InLedger(o)' = IF node_owner[o] = t THEN 0 ELSE InLedger(o)
      BY <1>6 DEF InLedger
    <3>3. InLedger(o) \in {0, 1} /\ (node_owner[o] = t => InLedger(o) = 1)
      BY <1>3 DEF InLedger
    <3> QED BY <3>1, <3>2, <3>3
  <2> QED BY <1>1, <2>1, NoReferenceMoves
<1> QED BY <1>2, <1>7, <1>8, <1>9, <1>11, <1>12, <1>13 DEF MInv

\* What the reaper knows while it works on a task.
LEMMA Reaping ==
  ASSUME MInv, reaper.at \notin {"idle", "pick"}
  PROVE  /\ reaper \in ReaperRecords /\ reaper.task \in Tasks /\ life[reaper.task] = "Dead"
         /\ reaper.task \notin reaper.batch /\ ~Blocked(reaper.task)
         /\ reaper.at = "next" => reaper.node = NULL
         /\ reaper.at # "next" => reaper.node \in Objects
         /\ reaper.node \notin reaper.nodes
         /\ \A o \in Objects : node_owner[o] # reaper.task
<1>1. reaper \in ReaperRecords
  BY DEF MInv, TypeOK, ReaperRecords
<1>2. reaper.task # NULL /\ reaper.task \in Tasks /\ reaper.node \in Objects \cup {NULL}
  BY <1>1 DEF MInv, ReaperOK, ReaperRecords
<1>3. /\ life[reaper.task] = "Dead" /\ reaper.task \notin reaper.batch /\ reaper.node \notin reaper.nodes
      /\ \A o \in Objects : node_owner[o] # reaper.task
  BY <1>2 DEF MInv, ReaperOK
<1>4. reaper.at \in {"next", "publish", "abandon", "release"}
  BY <1>1 DEF ReaperRecords
<1>5. (reaper.at = "next" => reaper.node = NULL) /\ (reaper.at # "next" => reaper.node \in Objects)
  BY <1>2, <1>4 DEF MInv, ReaperOK
<1>6. TaskOK(reaper.task)
  BY <1>2 DEF MInv, TasksOK
<1>7. ~Blocked(reaper.task)
  BY <1>3, <1>6 DEF TaskOK
<1> QED BY <1>1, <1>2, <1>3, <1>5, <1>7

(* The invariant after a step in which the reaper goes on with its Task.   *)
GoOn ==
  /\ ReapStep /\ UNCHANGED <<node_owner, life>>
  /\ reaper'.batch = reaper.batch /\ reaper'.task = reaper.task
  /\ reaper'.at \in {"next", "publish", "abandon", "release"}
  /\ reaper'.at = "next" <=> reaper'.node = NULL
  /\ reaper'.node \notin reaper'.nodes
  /\ \A u \in Tasks : wait'[u].waiting_on \in {wait[u].waiting_on, NULL}

\* It is enough that the object worked on fits and the references balance.
LEMMA GoOnKeeps ==
  ASSUME MInv, reaper.at \notin {"idle", "pick"}, GoOn, TypeOK', SchedInv', ReferencesOK',
         NEW o \in Objects, \A p \in Objects \ {o} : SameFace(p) /\ (p \in reaper'.nodes <=> p \in reaper.nodes),
         \A p \in Objects \ {o} : reaper.node # p /\ reaper'.node # p,
         Fits(Role(reaper.task, o), reaper.task, o)',
         \A u \in Tasks \ {reaper.task} : Fits(Role(u, o), u, o)',
         owner'[o] = NULL => Free(o)'
  PROVE  MInv'
<1>1. /\ reaper.task \in Tasks /\ life[reaper.task] = "Dead" /\ reaper.task \notin reaper.batch
      /\ \A p \in Objects : node_owner[p] # reaper.task
  BY Reaping
<1>2. UNCHANGED <<pc, call, depth, owned_internal_mutex_count, node_owner, life>> /\ reaper'.task = reaper.task
  BY DEF GoOn, ReapStep
<1>3. TasksOK'
  BY <1>2, WaitsMayEnd DEF GoOn
<1>4. ReaperOK'
  <2>1. \A t \in reaper.batch : life[t] = "Dead"
    BY DEF MInv, ReaperOK
  <2> QED BY <1>1, <1>2, <2>1, SchedAssumption DEF ReaperOK, GoOn
<1>5. RolesFit'
  <2> SUFFICES ASSUME NEW u \in Tasks, NEW p \in Objects PROVE Fits(Role(u, p), u, p)'
    BY DEF RolesFit
  <2>1. Fits(Role(u, p), u, p)
    BY DEF MInv, RolesFit
  <2>2. CASE p = o
    <3>1. CASE u = reaper.task
      BY <1>2, <2>2, <3>1
    <3>2. CASE u # reaper.task
      BY <2>2, <3>2
    <3> QED BY <3>1, <3>2
  <2>3. CASE p # o
    <3>1. Role(u, p)' = Role(u, p)
      <4>1. CASE u # reaper.task
        BY <1>2, <4>1, UnreapedRole DEF GoOn
      <4>2. CASE u = reaper.task
        BY <1>2, <2>3, <4>2 DEF Role
      <4> QED BY <4>1, <4>2
    <3>2. SameFace(p) /\ (~Blocked(u) => ~Blocked(u)')
      BY <2>3 DEF Blocked, GoOn
    <3> QED BY <1>2, <2>1, <3>1, <3>2, KeptFits
  <2> QED BY <2>2, <2>3
<1>6. UnownedIsFree'
  BY DEF MInv, UnownedIsFree, Free, SameFace
<1> QED BY <1>3, <1>4, <1>5, <1>6 DEF MInv

\* The others' roles for an object whose fields did not move.
LEMMA OthersStay ==
  ASSUME MInv, reaper.at \notin {"idle", "pick"}, GoOn, NEW o \in Objects, SameFace(o),
         NEW u \in Tasks, u # reaper.task
  PROVE  Fits(Role(u, o), u, o)'
<1>1. Fits(Role(u, o), u, o)
  BY DEF MInv, RolesFit
<1>2. UNCHANGED <<call, depth, node_owner, life>> /\ reaper'.task = reaper.task /\ (~Blocked(u) => ~Blocked(u)')
  BY DEF GoOn, ReapStep, Blocked
<1>3. Role(u, o)' = Role(u, o)
  BY <1>2, UnreapedRole DEF GoOn
<1> QED BY <1>1, <1>2, <1>3, KeptFits

\* One detached node is taken up.
LEMMA ReaperNextKeeps ==
  ASSUME MInv, NEW o \in Objects, ReaperNext(o)
  PROVE  MInv'
<1>0. reaper.at = "next" /\ o \in reaper.nodes
  BY DEF ReaperNext
<1>1. reaper \in ReaperRecords /\ reaper.task \in Tasks /\ life[reaper.task] = "Dead" /\ reaper.node = NULL
  BY <1>0, Reaping
<1>2. /\ UNCHANGED <<schedVars, refcount, handles, pubVars, node_owner, life, pc, call, depth>>
      /\ reaper' = [reaper EXCEPT !.nodes = reaper.nodes \ {o}, !.node = o, !.at = "publish"]
  BY DEF ReaperNext, objVars
<1>3. /\ reaper' \in ReaperRecords /\ reaper'.batch = reaper.batch /\ reaper'.task = reaper.task
      /\ reaper'.nodes = reaper.nodes \ {o} /\ reaper'.node = o /\ reaper'.at = "publish"
  BY <1>1, <1>2 DEF ReaperRecords
<1>4. /\ SchedInv' /\ SchedTypeOK' /\ UNCHANGED <<wait, owner, owned_internal_mutex_count>>
      /\ \A u \in Tasks : Blocked(u)' <=> Blocked(u)
  BY <1>2, SchedStill
<1>5. TypeOK'
  BY <1>2, <1>3, <1>4 DEF MInv, TypeOK, pubVars, ReaperRecords
<1>6. GoOn
  BY <1>2, <1>3, <1>4, SchedAssumption DEF GoOn, ReapStep
<1>7. \A p \in Objects : SameFace(p)
  BY <1>2, <1>4 DEF SameFace, pubVars
<1>8. \A p \in Objects : InReaper(p)' = InReaper(p) /\ InLedger(p)' = InLedger(p)
  BY <1>0, <1>1, <1>2, <1>3, SchedAssumption DEF InReaper, InLedger
<1>9. ReferencesOK'
  BY <1>2, <1>8, NoReferenceMoves
<1>10. ASSUME NEW t \in Tasks, t = reaper.task PROVE Fits(Role(t, o), t, o)'
  <2>1. Role(t, o) = "detached" /\ depth[t][o] = 0 /\ pc[t] = "idle" /\ node_owner[o] # t
    BY <1>0, <1>1, <1>10, DeadRole, Reaping
  <2>2. Role(t, o)' = "reap"
    BY <1>2, <1>3, <1>10, <2>1 DEF Role, Passing
  <2>3. Fits(Role(t, o), t, o)
    BY DEF MInv, RolesFit
  <2> QED BY <1>2, <1>7, <2>1, <2>2, <2>3 DEF Fits, Published, SameFace
<1>11. owner'[o] = NULL => Free(o)'
  BY <1>7 DEF MInv, UnownedIsFree, Free, SameFace
<1>12. \A u \in Tasks \ {reaper.task} : Fits(Role(u, o), u, o)'
  BY <1>0, <1>6, <1>7, OthersStay
<1>13. \A p \in Objects \ {o} : reaper.node # p /\ reaper'.node # p /\ (p \in reaper'.nodes <=> p \in reaper.nodes)
  BY <1>1, <1>3, SchedAssumption
<1>14. Fits(Role(reaper.task, o), reaper.task, o)'
  BY <1>1, <1>3, <1>10
<1> QED BY <1>0, <1>4, <1>5, <1>6, <1>7, <1>9, <1>11, <1>12, <1>13, <1>14, GoOnKeeps

\* The abandonment is published before the mutex is handed on.
LEMMA AbandonPublishKeeps ==
  ASSUME MInv, AbandonPublish
  PROVE  MInv'
<1>0. reaper.at = "publish"
  BY DEF AbandonPublish
<1>1. /\ reaper \in ReaperRecords /\ reaper.task \in Tasks /\ life[reaper.task] = "Dead" /\ reaper.node \in Objects
      /\ reaper.node \notin reaper.nodes
  BY <1>0, Reaping
<1> SUFFICES ASSUME NEW o \in Objects, o = reaper.node PROVE MInv'
  BY <1>1
<1>2. /\ recursion' = [recursion EXCEPT ![o] = 0] /\ owner_tid' = [owner_tid EXCEPT ![o] = NULL]
      /\ held' = [held EXCEPT ![o] = FALSE] /\ abandoned_pending' = [abandoned_pending EXCEPT ![o] = TRUE]
      /\ UNCHANGED <<schedVars, refcount, handles, node_owner, life, pc, call, depth>>
      /\ reaper' = [reaper EXCEPT !.at = "abandon"]
  BY DEF AbandonPublish, objVars
<1>3. /\ reaper' \in ReaperRecords /\ reaper'.batch = reaper.batch /\ reaper'.task = reaper.task
      /\ reaper'.nodes = reaper.nodes /\ reaper'.node = o /\ reaper'.at = "abandon"
  BY <1>1, <1>2 DEF ReaperRecords
<1>4. /\ SchedInv' /\ SchedTypeOK' /\ UNCHANGED <<wait, owner, owned_internal_mutex_count>>
      /\ \A u \in Tasks : Blocked(u)' <=> Blocked(u)
  BY <1>2, SchedStill
<1>5. /\ recursion' \in [Objects -> 0..MaxRecursion] /\ owner_tid' \in [Objects -> Tasks \cup {NULL}]
      /\ held' \in [Objects -> BOOLEAN] /\ abandoned_pending' \in [Objects -> BOOLEAN]
      /\ recursion'[o] = 0 /\ owner_tid'[o] = NULL /\ ~held'[o]
  BY <1>2, FieldTypes
<1>6. TypeOK'
  BY <1>2, <1>3, <1>4, <1>5 DEF MInv, TypeOK, ReaperRecords
<1>7. GoOn
  BY <1>1, <1>2, <1>3, <1>4, SchedAssumption DEF GoOn, ReapStep
<1>8. \A p \in Objects \ {o} : SameFace(p)
  BY <1>2, <1>4, FieldTypes DEF SameFace
<1>9. ReferencesOK'
  BY <1>2, <1>3, NoReferenceMoves DEF InReaper, InLedger
<1>10. PICK t \in Tasks : t = reaper.task
  BY <1>1
<1>11. /\ Role(t, o) = "reap" /\ depth[t][o] = 0 /\ pc[t] = "idle" /\ node_owner[o] # t /\ Fits(Role(t, o), t, o)
  BY <1>0, <1>1, <1>10, DeadRole, Reaping DEF MInv, RolesFit
<1>12. owner[o] = t /\ node_owner[o] = NULL
  BY <1>11 DEF Fits, Published
<1>13. Free(o)'
  BY <1>2, <1>5, <1>12 DEF Free
<1>14. Fits(Role(t, o), t, o)'
  <2>1. Role(t, o)' = "letgo"
    BY <1>1, <1>2, <1>3, <1>10, <1>11 DEF Role, Passing
  <2> QED BY <1>2, <1>4, <1>11, <1>12, <1>13, <2>1 DEF Fits
<1>15. ASSUME NEW u \in Tasks, u # t PROVE Fits(Role(u, o), u, o)'
  <2>1. Role(u, o)' = Role(u, o)
    BY <1>2, <1>3, <1>7, <1>10, <1>15, UnreapedRole DEF GoOn
  <2> QED BY <1>2, <1>4, <1>12, <1>15, <2>1, BystanderFits DEF MInv, RolesFit
<1>16. owner'[o] # NULL
  BY <1>4, <1>12, SchedAssumption
<1>17. \A p \in Objects \ {o} : reaper.node # p /\ reaper'.node # p /\ (p \in reaper'.nodes <=> p \in reaper.nodes)
  BY <1>3
<1>18. Fits(Role(reaper.task, o), reaper.task, o)'
  BY <1>3, <1>10, <1>14
<1>19. \A u \in Tasks \ {reaper.task} : Fits(Role(u, o), u, o)'
  BY <1>10, <1>15
<1> QED BY <1>0, <1>4, <1>6, <1>7, <1>8, <1>9, <1>16, <1>17, <1>18, <1>19, GoOnKeeps

\* The dead owner is dropped and the head of the queue takes over.
LEMMA MutexAbandonKeeps ==
  ASSUME MInv, MutexAbandon
  PROVE  MInv' /\ owner[reaper.node] = reaper.task
<1>0. reaper.at = "abandon"
  BY DEF MutexAbandon
<1>1. /\ reaper \in ReaperRecords /\ reaper.task \in Tasks /\ life[reaper.task] = "Dead" /\ reaper.node \in Objects
      /\ reaper.node \notin reaper.nodes /\ ~Blocked(reaper.task)
  BY <1>0, Reaping
<1> SUFFICES ASSUME NEW o \in Objects, o = reaper.node PROVE MInv' /\ owner[o] = reaper.task
  BY <1>1
<1>2. PICK t \in Tasks : t = reaper.task
  BY <1>1
<1>3. Role(t, o) = "letgo" /\ depth[t][o] = 0 /\ pc[t] = "idle" /\ node_owner[o] # t /\ Fits(Role(t, o), t, o)
  BY <1>0, <1>1, <1>2, DeadRole, Reaping DEF MInv, RolesFit
<1>4. owner[o] = t /\ Free(o)
  BY <1>3 DEF Fits
<1>5. /\ MutexRelinquish(t, o, wait[t]) /\ UNCHANGED <<refcount, handles, pubVars, node_owner, life, pc, call, depth>>
      /\ reaper' = [reaper EXCEPT !.at = "release"]
  BY <1>4 DEF MutexAbandon, objVars
<1>6. /\ reaper' \in ReaperRecords /\ reaper'.batch = reaper.batch /\ reaper'.task = reaper.task
      /\ reaper'.nodes = reaper.nodes /\ reaper'.node = o /\ reaper'.at = "release"
  BY <1>1, <1>5 DEF ReaperRecords
<1>7. wait[t] \in WaitRecords /\ wait[t].waiting_on = NULL
  BY <1>1, <1>2 DEF MInv, TypeOK, SchedTypeOK, Blocked
<1>8. /\ SchedInv' /\ owner'[o] # t /\ UNCHANGED owned_internal_mutex_count
      /\ \A p \in Objects \ {o} : owner'[p] = owner[p]
      /\ \A u \in Tasks : wait'[u].waiting_on \in {wait[u].waiting_on, NULL}
      /\ \A u \in Tasks : owner'[o] = u =>
              pc[u] = "lock" /\ call[u].obj = o /\ call[u].waited /\ wait'[u].waiting_on = NULL
  BY <1>1, <1>2, <1>5, <1>7, HandedFacts
<1>9. TypeOK'
  <2>1. SchedTypeOK'
    BY <1>8 DEF SchedInv
  <2> QED BY <1>5, <1>6, <2>1 DEF MInv, TypeOK, pubVars, ReaperRecords
<1>10. GoOn
  BY <1>1, <1>5, <1>6, <1>8, SchedAssumption DEF GoOn, ReapStep
<1>11. \A p \in Objects \ {o} : SameFace(p)
  BY <1>5, <1>8 DEF SameFace, pubVars
<1>12. ReferencesOK'
  BY <1>5, <1>6, NoReferenceMoves DEF InReaper, InLedger
<1>13. Free(o)'
  BY <1>4, <1>5 DEF Free, pubVars
<1>14. Fits(Role(t, o), t, o)'
  <2>1. Role(t, o)' = "none"
    BY <1>1, <1>2, <1>3, <1>5, <1>6 DEF Role, Passing
  <2> QED BY <1>3, <1>5, <1>8, <2>1 DEF Fits
<1>15. ASSUME NEW u \in Tasks, u # t PROVE Fits(Role(u, o), u, o)'
  <2>1. Role(u, o)' = Role(u, o)
    BY <1>2, <1>5, <1>6, <1>10, <1>15, UnreapedRole DEF GoOn
  <2>2. CASE owner'[o] # u
    BY <1>4, <1>5, <1>15, <2>1, <2>2, BystanderFits DEF MInv, RolesFit
  <2>3. CASE owner'[o] = u
    <3>1. pc[u] = "lock" /\ call[u].obj = o /\ call[u].waited /\ wait'[u].waiting_on = NULL
      BY <1>8, <2>3
    <3>2. Role(u, o) = "lock" /\ Fits(Role(u, o), u, o)
      BY <3>1 DEF Role, Passing, MInv, RolesFit
    <3> QED BY <1>5, <1>13, <2>1, <3>1, <3>2 DEF Fits, Blocked
  <2> QED BY <2>2, <2>3
<1>16. \A p \in Objects \ {o} : reaper.node # p /\ reaper'.node # p /\ (p \in reaper'.nodes <=> p \in reaper.nodes)
  BY <1>6
<1>17. Fits(Role(reaper.task, o), reaper.task, o)'
  BY <1>2, <1>6, <1>14
<1>18. \A u \in Tasks \ {reaper.task} : Fits(Role(u, o), u, o)'
  BY <1>2, <1>15
<1>19. MInv'
  BY <1>0, <1>8, <1>9, <1>10, <1>11, <1>12, <1>13, <1>16, <1>17, <1>18, GoOnKeeps
<1> QED BY <1>2, <1>4, <1>19

\* The reference of the abandoned ownership goes.
LEMMA AbandonReleaseKeeps ==
  ASSUME MInv, AbandonRelease
  PROVE  MInv'
<1>0. reaper.at = "release"
  BY DEF AbandonRelease
<1>1. /\ reaper \in ReaperRecords /\ reaper.task \in Tasks /\ life[reaper.task] = "Dead" /\ reaper.node \in Objects
      /\ reaper.node \notin reaper.nodes
  BY <1>0, Reaping
<1> SUFFICES ASSUME NEW o \in Objects, o = reaper.node PROVE MInv'
  BY <1>1
<1>2. /\ UNCHANGED <<schedVars, handles, pubVars, node_owner, life, pc, call, depth>>
      /\ refcount' = [refcount EXCEPT ![o] = refcount[o] - 1]
      /\ reaper' = [reaper EXCEPT !.node = NULL, !.at = "next"]
  BY DEF AbandonRelease, KObjectRelease
<1>3. /\ reaper' \in ReaperRecords /\ reaper'.batch = reaper.batch /\ reaper'.task = reaper.task
      /\ reaper'.nodes = reaper.nodes /\ reaper'.node = NULL /\ reaper'.at = "next"
  BY <1>1, <1>2 DEF ReaperRecords
<1>4. /\ SchedInv' /\ SchedTypeOK' /\ UNCHANGED <<wait, owner, owned_internal_mutex_count>>
      /\ \A u \in Tasks : Blocked(u)' <=> Blocked(u)
  BY <1>2, SchedStill
<1>5. refcount \in [Objects -> Nat] /\ handles \in [Objects -> {0, 1}] /\ NULL \notin Objects /\ reaper.nodes \in SUBSET Objects
  BY <1>1, SchedAssumption DEF MInv, TypeOK, ReaperRecords
<1>6. refcount' \in [Objects -> Int]
  BY <1>2, <1>5
<1>7. ASSUME NEW p \in Objects
      PROVE  refcount'[p] + handles[p] + InLedger(p) + InReaper(p) = refcount[p] + handles'[p] + InLedger(p)' + InReaper(p)'
  <2>1. InLedger(p)' = InLedger(p) /\ handles'[p] = handles[p] /\ InLedger(p) \in Int /\ handles[p] \in Int
    BY <1>2, <1>5 DEF InLedger
  <2>2. refcount[p] \in Int /\ refcount'[p] \in Int /\ InReaper(p) \in Int /\ InReaper(p)' \in Int
    BY <1>5, <1>6 DEF InReaper
  <2>3. refcount'[p] + InReaper(p) = refcount[p] + InReaper(p)'
    <3>1. CASE p = o
      <4>1. InReaper(p) = 1 /\ InReaper(p)' = 0 /\ refcount'[p] = refcount[p] - 1
        BY <1>1, <1>2, <1>3, <1>5, <3>1 DEF InReaper
      <4> QED BY <2>2, <4>1
    <3>2. CASE p # o
      <4>1. InReaper(p) = InReaper(p)' /\ refcount'[p] = refcount[p]
        BY <1>1, <1>2, <1>3, <1>5, <3>2 DEF InReaper
      <4> QED BY <2>2, <4>1
    <3> QED BY <3>1, <3>2
  <2> DEFINE x == handles[p] + InLedger(p)
  <2>4. x \in Int /\ refcount'[p] + handles[p] + InLedger(p) + InReaper(p) = refcount'[p] + InReaper(p) + x
    BY <2>1, <2>2
  <2>5. refcount[p] + handles'[p] + InLedger(p)' + InReaper(p)' = refcount[p] + InReaper(p)' + x
    BY <2>1, <2>2
  <2> QED BY <2>3, <2>4, <2>5
<1>8. ReferencesOK' /\ refcount' \in [Objects -> Nat]
  BY <1>2, <1>5, <1>6, <1>7, NoCallMoves
<1>9. TypeOK'
  BY <1>2, <1>3, <1>4, <1>8 DEF MInv, TypeOK, pubVars, ReaperRecords
<1>10. GoOn
  BY <1>2, <1>3, <1>4, <1>5 DEF GoOn, ReapStep
<1>11. \A p \in Objects : SameFace(p)
  BY <1>2, <1>4 DEF SameFace, pubVars
<1>12. PICK t \in Tasks : t = reaper.task
  BY <1>1
<1>13. Fits(Role(t, o), t, o)'
  <2>1. Role(t, o) = "none" /\ depth[t][o] = 0 /\ pc[t] = "idle" /\ node_owner[o] # t /\ Fits(Role(t, o), t, o)
    BY <1>0, <1>1, <1>12, DeadRole, Reaping DEF MInv, RolesFit
  <2>2. Role(t, o)' = "none"
    BY <1>1, <1>2, <1>3, <1>5, <1>12, <2>1 DEF Role, Passing
  <2> QED BY <1>2, <1>4, <2>1, <2>2 DEF Fits
<1>14. \A u \in Tasks \ {reaper.task} : Fits(Role(u, o), u, o)'
  BY <1>0, <1>10, <1>11, OthersStay
<1>15. owner'[o] = NULL => Free(o)'
  BY <1>11 DEF MInv, UnownedIsFree, Free, SameFace
<1>16. \A p \in Objects \ {o} : reaper.node # p /\ reaper'.node # p /\ (p \in reaper'.nodes <=> p \in reaper.nodes)
  BY <1>3, <1>5
<1>17. Fits(Role(reaper.task, o), reaper.task, o)'
  BY <1>3, <1>12, <1>13
<1> QED BY <1>0, <1>4, <1>8, <1>9, <1>10, <1>11, <1>14, <1>15, <1>16, <1>17, GoOnKeeps

\* The Task is freed when all its nodes are dealt with: nothing names it any more.
LEMMA ReaperFreeKeeps ==
  ASSUME MInv, ReaperFree
  PROVE  MInv'
<1>0. reaper.at = "next" /\ reaper.nodes = {}
  BY DEF ReaperFree
<1>1. /\ reaper \in ReaperRecords /\ reaper.task \in Tasks /\ life[reaper.task] = "Dead" /\ reaper.node = NULL
      /\ reaper.task \notin reaper.batch /\ \A o \in Objects : node_owner[o] # reaper.task
  BY <1>0, Reaping
<1>2. PICK t \in Tasks : t = reaper.task
  BY <1>1
<1> DEFINE next == IF reaper.batch = {} THEN "idle" ELSE "pick"
<1>3. /\ UNCHANGED <<schedVars, refcount, handles, pubVars, node_owner, pc, call, depth>>
      /\ life' = [life EXCEPT ![t] = "reaped"] /\ reaper' = [reaper EXCEPT !.task = NULL, !.at = next]
  BY <1>2 DEF ReaperFree, objVars
<1>4. next \in {"idle", "pick"}
  OBVIOUS
<1> HIDE DEF next
<1>5. /\ reaper' \in ReaperRecords /\ reaper'.batch = reaper.batch /\ reaper'.task = NULL
      /\ reaper'.nodes = {} /\ reaper'.node = NULL /\ reaper'.at = next
  BY <1>0, <1>1, <1>3, <1>4 DEF ReaperRecords
<1>6. /\ SchedInv' /\ SchedTypeOK' /\ UNCHANGED <<wait, owner, owned_internal_mutex_count>>
      /\ \A u \in Tasks : Blocked(u)' <=> Blocked(u)
  BY <1>3, SchedStill
<1>7. life \in [Tasks -> {"live", "Dead", "reaped"}]
  BY DEF MInv, TypeOK
<1>8. life'[t] = "reaped" /\ (\A u \in Tasks \ {t} : life'[u] = life[u]) /\ life' \in [Tasks -> {"live", "Dead", "reaped"}]
  BY <1>3, <1>7
<1>9. TypeOK'
  BY <1>3, <1>5, <1>6, <1>8 DEF MInv, TypeOK, pubVars, ReaperRecords
<1>10. TasksOK'
  BY <1>1, <1>2, <1>3, <1>6, <1>8, WaitsMayEnd
<1>11. ReaperOK'
  <2>1. \A u \in reaper.batch : life'[u] = "Dead"
    <3>1. reaper.batch \in SUBSET Tasks
      BY <1>1 DEF ReaperRecords
    <3> QED BY <1>1, <1>2, <1>8, <3>1 DEF MInv, ReaperOK
  <2> QED BY <1>4, <1>5, <2>1 DEF ReaperOK
<1>12. RolesFit'
  <2> SUFFICES ASSUME NEW u \in Tasks, NEW p \in Objects PROVE Fits(Role(u, p), u, p)'
    BY DEF RolesFit
  <2>1. Fits(Role(u, p), u, p)
    BY DEF MInv, RolesFit
  <2>2. SameFace(p)
    BY <1>3, <1>6 DEF SameFace, pubVars
  <2>3. CASE u # t
    <3>1. Role(u, p)' = Role(u, p)
      BY <1>2, <1>3, <1>5, <1>8, <2>3, SchedAssumption DEF Role
    <3> QED BY <1>3, <1>6, <2>1, <2>2, <3>1, KeptFits
  <2>4. CASE u = t
    <3>1. Role(t, p) = "none" /\ depth[t][p] = 0 /\ pc[t] = "idle"
      BY <1>0, <1>1, <1>2, DeadRole, SchedAssumption
    <3>2. Role(t, p)' = "none"
      BY <1>3, <1>5, <1>8, <3>1, SchedAssumption DEF Role, Passing
    <3> QED BY <1>3, <2>1, <2>2, <2>4, <3>1, <3>2 DEF Fits, SameFace
  <2> QED BY <2>3, <2>4
<1>13. UnownedIsFree'
  BY <1>3, <1>6 DEF MInv, UnownedIsFree, Free, pubVars
<1>14. ReferencesOK'
  BY <1>0, <1>1, <1>3, <1>5, NoReferenceMoves DEF InReaper, InLedger
<1> QED BY <1>6, <1>9, <1>10, <1>11, <1>12, <1>13, <1>14 DEF MInv

-----------------------------------------------------------------------------
(* The theorems *)

\* The initial state satisfies the invariant.
LEMMA MInvInit == Init => MInv
<1> SUFFICES ASSUME Init PROVE MInv
  OBVIOUS
<1>0. NULL \notin Tasks /\ NULL \notin Objects /\ NULL \notin WaitQueues /\ MaxRecursion \in Nat \ {0}
  BY SchedAssumption, KMutexAssumption, QueueNames
<1>1. SchedTypeOK
  <2>1. NotWaiting \in WaitRecords
    BY DEF NotWaiting, WaitRecords, WakeTicks
  <2> QED BY <2>1 DEF Init, SchedInit, SchedTypeOK
<1>2. TypeOK
  <2>1. NoCall \in CallRecords /\ ReaperIdle \in ReaperRecords
    BY DEF NoCall, CallRecords, ReaperIdle, ReaperRecords
  <2> QED BY <1>0, <1>1, <2>1 DEF Init, TypeOK, PCs, CallRecords, ReaperRecords
<1>3. \A t \in Tasks : wait[t].waiting_on = NULL /\ call[t].obj = NULL /\ pc[t] = "idle" /\ ~Blocked(t)
  BY DEF Init, SchedInit, NotWaiting, NoCall, Blocked
<1>4. SchedInv
  <2>1. QueuesConsistent
    BY <1>0, <1>3 DEF Init, SchedInit, QueuesConsistent
  <2>2. NoForgottenWaiter
    BY QueueNames DEF Init, SchedInit, NoForgottenWaiter
  <2> QED BY <1>1, <2>1, <2>2 DEF SchedInv
<1>5. TasksOK
  BY <1>3 DEF TasksOK, TaskOK, Init, SchedInit
<1>6. ReaperOK
  BY <1>0 DEF ReaperOK, Init, ReaperIdle
<1>7. RolesFit
  <2> SUFFICES ASSUME NEW t \in Tasks, NEW o \in Objects PROVE Fits(Role(t, o), t, o)
    BY DEF RolesFit
  <2>1. Role(t, o) = "none"
    BY <1>0, <1>3 DEF Role, Init, ReaperIdle
  <2> QED BY <1>0, <2>1 DEF Fits, Init, SchedInit
<1>8. UnownedIsFree
  BY DEF UnownedIsFree, Free, Init
<1>9. ReferencesOK
  <2> SUFFICES ASSUME NEW o \in Objects
               PROVE  refcount[o] = handles[o] + Count(CallOn, Tasks, o) + Count(PinOn, Tasks, o) + InLedger(o) + InReaper(o)
    BY DEF ReferencesOK
  <2>1. \A t \in Tasks : CallOn[t] # o /\ PinOn[t] # o
    BY <1>0, <1>3 DEF CallOn, PinOn
  <2>2. Count(CallOn, Tasks, o) = 0 /\ Count(PinOn, Tasks, o) = 0
    BY <2>1, CountNat, KMutexAssumption
  <2>3. InLedger(o) = 0 /\ InReaper(o) = 0 /\ refcount[o] = 1 /\ handles[o] = 1
    BY <1>0 DEF InLedger, InReaper, Init, ReaperIdle
  <2> QED BY <2>2, <2>3
<1> QED BY <1>2, <1>4, <1>5, <1>6, <1>7, <1>8, <1>9 DEF MInv

\* Every step keeps the invariant.
LEMMA MInvNext ==
  ASSUME MInv, [Next]_vars
  PROVE  MInv'
<1>1. CASE UNCHANGED vars
  <2>1. SchedInv' /\ UNCHANGED <<wait, owner, owned_internal_mutex_count>>
    BY <1>1, SchedStill DEF vars
  <2>2. SchedOnly
    BY <1>1 DEF vars, SchedOnly
  <2> QED BY <2>1, <2>2, WakeKeeps
<1>2. CASE \E t \in Tasks, o \in Objects : KMutexAcquire(t, o) \/ KMutexRelease(t, o)
  BY <1>2, EnterCallKeeps DEF KMutexAcquire, KMutexRelease
<1>3. CASE \E t \in Tasks : Continue(t) \/ TaskExit(t) \/ TaskCreate(t)
  BY <1>3, ContinueKeeps, TaskExitKeeps, TaskCreateKeeps
<1>4. CASE \E t \in Tasks : (OnTimerTick(t) /\ SchedOnly) \/ (life[t] = "live" /\ SignalTask(t) /\ SchedOnly)
  BY <1>4, TimerAndKillKeep
<1>5. CASE \E o \in Objects : CloseHandle(o)
  BY <1>5, CloseHandleKeeps
<1>6. CASE Reap
  BY <1>6, ReaperDrainKeeps, ReaperDetachKeeps, ReaperNextKeeps, AbandonPublishKeeps, MutexAbandonKeeps,
     AbandonReleaseKeeps, ReaperFreeKeeps DEF Reap
<1> QED BY <1>1, <1>2, <1>3, <1>4, <1>5, <1>6 DEF Next

(* MInv holds throughout, for any number of tasks and objects.             *)
THEOREM MutexInductive == Spec => []MInv
BY MInvInit, MInvNext, PTL DEF Spec

(* Every variable keeps its type; in particular no reference count and no  *)
(* recursion counter leaves its range.                                     *)
THEOREM MutexTypes == Spec => []TypeOK
<1>1. MInv => TypeOK
  BY DEF MInv
<1> QED BY <1>1, MutexInductive, PTL

(* The wait queues stay well linked whichever of hand-off, timer and kill  *)
(* takes a task off one.                                                   *)
THEOREM MutexQueuesLinked == Spec => []QueuesConsistent
<1>1. MInv => QueuesConsistent
  BY DEF MInv, SchedInv
<1> QED BY <1>1, MutexInductive, PTL

(* A mutex with a waiter has an owner that will hand it on.                *)
THEOREM MutexWaitersRemembered == Spec => []NoForgottenWaiter
<1>1. MInv => NoForgottenWaiter
  BY DEF MInv, SchedInv
<1> QED BY <1>1, MutexInductive, PTL

(* A task that was told it owns the mutex does, at the depth it counts.    *)
THEOREM MutexOwnership == Spec => []OwnershipAgrees
<1>1. MInv => OwnershipAgrees
  <2> SUFFICES ASSUME MInv, NEW t \in Tasks, NEW o \in Objects, depth[t][o] > 0
               PROVE  owner[o] = t /\ held[o] /\ owner_tid[o] = t /\ recursion[o] = depth[t][o] /\ node_owner[o] = t
    BY DEF OwnershipAgrees
  <2>1. Fits(Role(t, o), t, o)
    BY DEF MInv, RolesFit
  <2>2. depth[t][o] # 0
    BY FieldTypes
  <2>3. Role(t, o) = "hold"
    BY <2>1, <2>2 DEF Fits
  <2> QED BY <2>1, <2>3 DEF Fits, Published
<1> QED BY <1>1, MutexInductive, PTL

(* The structural assertions of the kernel never fail.                     *)
THEOREM MutexAssertions == Spec => []KernelAssertions
<1>1. MInv => KernelAssertions
  <2> SUFFICES ASSUME MInv PROVE KernelAssertions
    OBVIOUS
  <2>1. ASSUME NEW t \in Tasks, pc[t] # "idle"
        PROVE  LET o == call[t].obj IN
               /\ pc[t] = "track" => node_owner[o] = NULL
               /\ pc[t] = "release" /\ OwnedByCaller(t, o) => node_owner[o] = t /\ recursion[o] > 0
               /\ pc[t] = "lock" /\ owner[o] = t => call[t].waited
               /\ pc[t] = "unlock" => owner[o] = t
    <3> DEFINE o == call[t].obj
    <3>1. o \in Objects /\ life[t] = "live" /\ Fits(Role(t, o), t, o)
      BY <2>1, InCall
    <3>2. pc[t] \in Passing => Role(t, o) = pc[t]
      BY DEF Role
    <3>3. ASSUME pc[t] = "release", OwnedByCaller(t, o) PROVE node_owner[o] = t /\ recursion[o] > 0
      <4>1. node_owner[o] = t /\ recursion[o] \in 1..MaxRecursion
        BY <3>1, <3>3, CallerHolds DEF Passing
      <4> QED BY <4>1, KMutexAssumption
    <3> QED BY <3>1, <3>2, <3>3 DEF Fits, Published, Passing
  <2>2. ASSUME reaper.at = "abandon" PROVE owner[reaper.node] = reaper.task
    <3>1. /\ reaper.task \in Tasks /\ life[reaper.task] = "Dead" /\ reaper.node \in Objects
          /\ reaper.node \notin reaper.nodes
      BY <2>2, Reaping
    <3>2. Role(reaper.task, reaper.node) = "letgo"
      BY <2>2, <3>1, DeadRole
    <3> QED BY <3>1, <3>2 DEF MInv, RolesFit, Fits
  <2> QED BY <2>1, <2>2 DEF KernelAssertions
<1> QED BY <1>1, MutexInductive, PTL

(* No mutex and no ledger names a freed Task.                              *)
THEOREM MutexForgetsTheDead == Spec => []DeadTaskForgotten
<1>1. MInv => DeadTaskForgotten
  <2> SUFFICES ASSUME MInv, NEW t \in Tasks, life[t] = "reaped"
               PROVE  /\ ~Blocked(t) /\ owned_internal_mutex_count[t] = 0
                      /\ \A o \in Objects : owner[o] # t /\ owner_tid[o] # t /\ node_owner[o] # t
    BY DEF DeadTaskForgotten
  <2>1. TaskOK(t)
    BY DEF MInv, TasksOK
  <2>2. pc[t] = "idle" /\ ~Blocked(t) /\ owned_internal_mutex_count[t] = 0
    BY <2>1 DEF TaskOK
  <2>3. ASSUME NEW o \in Objects PROVE owner[o] # t
    <3>1. reaper.task # t
      BY SchedAssumption DEF MInv, ReaperOK
    <3>2. Role(t, o) = "none"
      BY <2>1, <2>2, <3>1 DEF Role, Passing, TaskOK
    <3> QED BY <3>2 DEF MInv, RolesFit, Fits
  <2> QED BY <2>2, <2>3, OwnerNamed, SchedAssumption
<1> QED BY <1>1, MutexInductive, PTL

\* The pins of the two ledgers, counted.
LEMMA DetainingCount ==
  ASSUME NEW o \in Objects
  PROVE  Cardinality(Detaining(o)) = InLedger(o) + InReaper(o)
<1>1. /\ "ledger" \in Detaining(o) <=> node_owner[o] # NULL
      /\ "reaper" \in Detaining(o) <=> o \in reaper.nodes \cup {reaper.node}
      /\ Detaining(o) \subseteq {"ledger", "reaper"}
  BY DEF Detaining
<1>2. /\ Cardinality({"ledger"}) = 1 /\ IsFiniteSet({"ledger"}) /\ Cardinality({"reaper"}) = 1
      /\ Cardinality({}) = 0
  BY FS_Singleton, FS_EmptySet
<1>3. Cardinality({"ledger"} \cup {"reaper"}) = 2
  BY <1>2, FS_AddElement
<1>4. CASE node_owner[o] # NULL /\ o \in reaper.nodes \cup {reaper.node}
  <2>1. Detaining(o) = {"ledger"} \cup {"reaper"}
    BY <1>1, <1>4
  <2> QED BY <1>3, <1>4, <2>1 DEF InLedger, InReaper
<1>5. CASE node_owner[o] # NULL /\ o \notin reaper.nodes \cup {reaper.node}
  <2>1. Detaining(o) = {"ledger"}
    BY <1>1, <1>5
  <2> QED BY <1>2, <1>5, <2>1 DEF InLedger, InReaper
<1>6. CASE node_owner[o] = NULL /\ o \in reaper.nodes \cup {reaper.node}
  <2>1. Detaining(o) = {"reaper"}
    BY <1>1, <1>6
  <2> QED BY <1>2, <1>6, <2>1 DEF InLedger, InReaper
<1>7. CASE node_owner[o] = NULL /\ o \notin reaper.nodes \cup {reaper.node}
  <2>1. Detaining(o) = {}
    BY <1>1, <1>7
  <2> QED BY <1>2, <1>7, <2>1 DEF InLedger, InReaper
<1> QED BY <1>4, <1>5, <1>6, <1>7

\* An owner is in a pinned call, in a ledger or with the reaper.
LEMMA OwnerPins ==
  ASSUME MInv, NEW o \in Objects, NEW t \in Tasks, owner[o] = t
  PROVE  call[t].obj = o \/ InLedger(o) = 1 \/ InReaper(o) = 1
<1>1. Fits(Role(t, o), t, o)
  BY DEF MInv, RolesFit
<1>2. CASE call[t].obj = o
  BY <1>2
<1>3. CASE call[t].obj # o
  <2>1. Role(t, o) \in {"none", "hold", "orphan", "detached", "reap", "letgo"}
    BY <1>3 DEF Role
  <2>2. Role(t, o) # "none"
    BY <1>1 DEF Fits
  <2>3. CASE Role(t, o) \in {"hold", "orphan"}
    BY <1>1, <2>3, SchedAssumption DEF Fits, Published, InLedger
  <2>4. CASE Role(t, o) = "detached"
    BY <1>3, <2>4 DEF Role, InReaper
  <2>5. CASE Role(t, o) = "reap"
    BY <1>3, <2>5 DEF Role, InReaper
  <2>6. CASE Role(t, o) = "letgo"
    BY <1>3, <2>6 DEF Role, InReaper
  <2> QED BY <2>1, <2>2, <2>3, <2>4, <2>5, <2>6
<1> QED BY <1>2, <1>3

(* The reference count is exact, and storage is only returned of a mutex   *)
(* nobody owns, waits for or sees held.                                    *)
THEOREM MutexReferences == Spec => []RefcountExact
<1>1. MInv => RefcountExact
  <2> SUFFICES ASSUME MInv, NEW o \in Objects
               PROVE  /\ refcount[o] = handles[o] + Cardinality(Callers(o))
                                         + Cardinality({t \in Callers(o) : pc[t] \in Pinning}) + Cardinality(Detaining(o))
                      /\ refcount[o] = 0 => owner[o] = NULL /\ queue[Inner(o)] = <<>> /\ ~held[o]
    BY DEF RefcountExact
  <2> DEFINE C == Count(CallOn, Tasks, o)
             P == Count(PinOn, Tasks, o)
  <2>1. /\ C \in Nat /\ P \in Nat /\ InLedger(o) \in {0, 1} /\ InReaper(o) \in {0, 1}
        /\ handles[o] \in {0, 1} /\ refcount[o] \in Nat
    BY ReferenceSums DEF MInv, TypeOK
  <2>2. refcount[o] = handles[o] + C + P + InLedger(o) + InReaper(o)
    BY DEF MInv, ReferencesOK
  <2>3. C = Cardinality(Callers(o))
    <3>1. {t \in Tasks : CallOn[t] = o} = Callers(o)
      BY DEF CallOn, Callers
    <3> QED BY <3>1 DEF Count
  <2>4. P = Cardinality({t \in Callers(o) : pc[t] \in Pinning})
    <3>1. {t \in Tasks : PinOn[t] = o} = {t \in Callers(o) : pc[t] \in Pinning}
      BY SchedAssumption DEF PinOn, Callers
    <3> QED BY <3>1 DEF Count
  <2>5. Cardinality(Detaining(o)) = InLedger(o) + InReaper(o)
    BY DetainingCount
  <2>6. ASSUME refcount[o] = 0 PROVE owner[o] = NULL /\ queue[Inner(o)] = <<>> /\ ~held[o]
    <3> HIDE DEF C, P
    <3>1. C = 0 /\ InLedger(o) = 0 /\ InReaper(o) = 0
      BY <2>1, <2>2, <2>6
    <3>2. \A t \in Tasks : call[t].obj # o
      <4>1. \A t \in Tasks : CallOn[t] # o
        BY <3>1, CountNat, KMutexAssumption DEF C
      <4> QED BY <4>1 DEF CallOn
    <3>3. owner[o] \in Tasks \cup {NULL}
      BY DEF MInv, TypeOK, SchedTypeOK
    <3>4. owner[o] = NULL
      BY <3>1, <3>2, <3>3, OwnerPins
    <3> QED BY <3>4 DEF MInv, SchedInv, NoForgottenWaiter, UnownedIsFree, Free
  <2> HIDE DEF C, P
  <2>7. refcount[o] = handles[o] + C + P + Cardinality(Detaining(o))
    BY <2>1, <2>2, <2>5
  <2> QED BY <2>3, <2>4, <2>6, <2>7
<1> QED BY <1>1, MutexInductive, PTL

-----------------------------------------------------------------------------
(* KMutex implements AbandonableMutex *)

Promised == \A o \in Objects : Promise(o)!Next \/ UNCHANGED Promise(o)!vars

SameFields(p) ==
  /\ recursion'[p] = recursion[p] /\ owner_tid'[p] = owner_tid[p]
  /\ held'[p] = held[p] /\ abandoned_pending'[p] = abandoned_pending[p]

\* A step that touches the public fields of at most o answers for o alone.
LEMMA OneObjectMoves ==
  ASSUME NEW o \in Objects, \A p \in Objects \ {o} : SameFields(p), Promise(o)!Next \/ UNCHANGED Promise(o)!vars
  PROVE  Promised
<1>1. ASSUME NEW p \in Objects \ {o} PROVE UNCHANGED Promise(p)!vars
  BY <1>1 DEF SameFields, Promise!vars
<1> QED BY <1>1 DEF Promised

\* A step that leaves the public fields alone is invisible.
LEMMA NoObjectMoves ==
  ASSUME UNCHANGED pubVars
  PROVE  Promised
<1>1. ASSUME NEW p \in Objects PROVE UNCHANGED Promise(p)!vars
  BY DEF pubVars, Promise!vars
<1> QED BY <1>1 DEF Promised

\* Publishing an acquisition is Acquire: the mutex was free.
LEMMA PublishPromised ==
  ASSUME MInv, NEW t \in Tasks, AcquirePublish(t)
  PROVE  Promised
<1>0. call[t].obj \in Objects
  BY InCall DEF AcquirePublish, At
<1> SUFFICES ASSUME NEW o \in Objects, o = call[t].obj PROVE Promised
  BY <1>0
<1>1. Role(t, o) = "publish"
  BY DEF Role, Passing, AcquirePublish, At
<1>2. Fits(Role(t, o), t, o)
  BY DEF MInv, RolesFit
<1>3. ~held[o]
  BY <1>1, <1>2 DEF Fits, Free
<1>4. /\ recursion' = [recursion EXCEPT ![o] = 1] /\ owner_tid' = [owner_tid EXCEPT ![o] = t]
      /\ held' = [held EXCEPT ![o] = TRUE] /\ UNCHANGED abandoned_pending
  BY DEF AcquirePublish
<1>5. /\ recursion'[o] = 1 /\ owner_tid'[o] = t /\ held'[o]
      /\ \A p \in Objects \ {o} : SameFields(p)
  BY <1>4, FieldTypes DEF SameFields
<1>6. Promise(o)!Acquire(t)
  BY <1>3, <1>4, <1>5 DEF Promise!Acquire
<1> QED BY <1>5, <1>6, OneObjectMoves DEF Promise!Next

\* The one-shot exchange is Report if an abandonment was pending, else invisible.
LEMMA ReportPromised ==
  ASSUME MInv, NEW t \in Tasks, AcquireReport(t)
  PROVE  Promised
<1>0. call[t].obj \in Objects
  BY InCall DEF AcquireReport, At
<1> SUFFICES ASSUME NEW o \in Objects, o = call[t].obj PROVE Promised
  BY <1>0
<1>1. Role(t, o) = "exchange"
  BY DEF Role, Passing, AcquireReport, At
<1>2. Fits(Role(t, o), t, o)
  BY DEF MInv, RolesFit
<1>3. held[o] /\ owner_tid[o] = t
  BY <1>1, <1>2 DEF Fits, Published
<1>4. abandoned_pending' = [abandoned_pending EXCEPT ![o] = FALSE] /\ UNCHANGED <<recursion, owner_tid, held>>
  BY DEF AcquireReport, ReportedPending
<1>5. /\ abandoned_pending[o] \in BOOLEAN /\ abandoned_pending'[o] = FALSE
      /\ \A p \in Objects \ {o} : SameFields(p)
  BY <1>4, FieldTypes DEF SameFields
<1>6. CASE abandoned_pending[o]
  <2>1. Promise(o)!Report(t)
    BY <1>3, <1>4, <1>5, <1>6 DEF Promise!Report
  <2> QED BY <1>5, <2>1, OneObjectMoves DEF Promise!Next
<1>7. CASE abandoned_pending[o] = FALSE
  <2>1. UNCHANGED Promise(o)!vars
    BY <1>4, <1>5, <1>7 DEF Promise!vars
  <2> QED BY <1>5, <2>1, OneObjectMoves
<1> QED BY <1>5, <1>6, <1>7

\* The holder re-enters, within the counter's range, or is refused.
LEMMA EnterPromised ==
  ASSUME MInv, NEW t \in Tasks, AcquireRecursive(t)
  PROVE  Promised
<1>0. call[t].obj \in Objects /\ life[t] = "live"
  BY InCall DEF AcquireRecursive, At
<1> SUFFICES ASSUME NEW o \in Objects, o = call[t].obj PROVE Promised
  BY <1>0
<1>1. OwnedByCaller(t, o) /\ pc[t] = "acquire" /\ UNCHANGED <<owner_tid, held, abandoned_pending>>
  BY DEF AcquireRecursive, At
<1>2. ~abandoned_pending[o] /\ recursion[o] \in 1..MaxRecursion /\ held[o] /\ owner_tid[o] = t
  BY <1>0, <1>1, CallerHolds DEF Passing, OwnedByCaller
<1>3. CASE UNCHANGED recursion
  BY <1>1, <1>3, NoObjectMoves DEF pubVars
<1>4. CASE ~Saturated(o) /\ recursion' = [recursion EXCEPT ![o] = @ + 1]
  <2>1. recursion'[o] = recursion[o] + 1 /\ \A p \in Objects \ {o} : SameFields(p)
    BY <1>1, <1>4, FieldTypes DEF SameFields
  <2>2. recursion[o] < MaxRecursion
    <3>1. recursion[o] \in 1..MaxRecursion /\ recursion[o] # MaxRecursion /\ MaxRecursion \in Nat
      BY <1>2, <1>4, KMutexAssumption DEF Saturated
    <3> QED BY <3>1
  <2>3. Promise(o)!Enter(t)
    BY <1>1, <1>2, <2>1, <2>2 DEF Promise!Enter
  <2> QED BY <2>1, <2>3, OneObjectMoves DEF Promise!Next
<1> QED BY <1>3, <1>4 DEF AcquireRecursive

\* A release that is not the outermost one is Leave.
LEMMA LeavePromised ==
  ASSUME MInv, NEW t \in Tasks, ReleaseRecursive(t)
  PROVE  Promised
<1>0. call[t].obj \in Objects /\ life[t] = "live"
  BY InCall DEF ReleaseRecursive, At
<1> SUFFICES ASSUME NEW o \in Objects, o = call[t].obj PROVE Promised
  BY <1>0
<1>1. /\ OwnedByCaller(t, o) /\ pc[t] = "release" /\ recursion[o] > 1 /\ UNCHANGED <<owner_tid, held, abandoned_pending>>
      /\ recursion' = [recursion EXCEPT ![o] = @ - 1]
  BY DEF ReleaseRecursive, At
<1>2. ~abandoned_pending[o] /\ held[o] /\ owner_tid[o] = t
  BY <1>0, <1>1, CallerHolds DEF Passing, OwnedByCaller
<1>3. recursion'[o] = recursion[o] - 1 /\ \A p \in Objects \ {o} : SameFields(p)
  BY <1>1, FieldTypes DEF SameFields
<1>4. Promise(o)!Leave(t)
  BY <1>1, <1>2, <1>3 DEF Promise!Leave
<1> QED BY <1>3, <1>4, OneObjectMoves DEF Promise!Next

\* The outermost release is Release: no abandonment is pending under a holder.
LEMMA ClearPromised ==
  ASSUME MInv, NEW t \in Tasks, ReleaseClear(t)
  PROVE  Promised
<1>0. call[t].obj \in Objects
  BY InCall DEF ReleaseClear, At
<1> SUFFICES ASSUME NEW o \in Objects, o = call[t].obj PROVE Promised
  BY <1>0
<1>1. Role(t, o) = "clear"
  BY DEF Role, Passing, ReleaseClear, At
<1>2. Fits(Role(t, o), t, o)
  BY DEF MInv, RolesFit
<1>3. held[o] /\ owner_tid[o] = t /\ recursion[o] = 1 /\ ~abandoned_pending[o]
  BY <1>1, <1>2 DEF Fits, Published
<1>4. /\ recursion' = [recursion EXCEPT ![o] = 0] /\ owner_tid' = [owner_tid EXCEPT ![o] = NULL]
      /\ held' = [held EXCEPT ![o] = FALSE] /\ UNCHANGED abandoned_pending
  BY DEF ReleaseClear
<1>5. recursion'[o] = 0 /\ ~held'[o] /\ \A p \in Objects \ {o} : SameFields(p)
  BY <1>4, FieldTypes DEF SameFields
<1>6. Promise(o)!Release(t)
  BY <1>3, <1>4, <1>5 DEF Promise!Release
<1> QED BY <1>5, <1>6, OneObjectMoves DEF Promise!Next

\* The reaper's publication is Abandon, by the dead holder.
LEMMA AbandonPromised ==
  ASSUME MInv, AbandonPublish
  PROVE  Promised
<1>0. /\ reaper.at = "publish" /\ reaper.task \in Tasks /\ life[reaper.task] = "Dead" /\ reaper.node \in Objects
      /\ reaper.node \notin reaper.nodes
  BY Reaping DEF AbandonPublish
<1> SUFFICES ASSUME NEW o \in Objects, o = reaper.node, NEW t \in Tasks, t = reaper.task PROVE Promised
  BY <1>0
<1>1. Role(t, o) = "reap"
  BY <1>0, DeadRole
<1>2. Fits(Role(t, o), t, o)
  BY DEF MInv, RolesFit
<1>3. held[o] /\ owner_tid[o] = t /\ ~abandoned_pending[o]
  BY <1>1, <1>2 DEF Fits, Published
<1>4. /\ recursion' = [recursion EXCEPT ![o] = 0] /\ owner_tid' = [owner_tid EXCEPT ![o] = NULL]
      /\ held' = [held EXCEPT ![o] = FALSE] /\ abandoned_pending' = [abandoned_pending EXCEPT ![o] = TRUE]
  BY DEF AbandonPublish
<1>5. /\ recursion'[o] = 0 /\ ~held'[o] /\ abandoned_pending'[o] = TRUE
      /\ \A p \in Objects \ {o} : SameFields(p)
  BY <1>4, FieldTypes DEF SameFields
<1>6. Promise(o)!Abandon(t)
  BY <1>3, <1>5 DEF Promise!Abandon
<1> QED BY <1>5, <1>6, OneObjectMoves DEF Promise!Next

\* Every step is, for each object, a step of its promise or invisible.
LEMMA NextPromised ==
  ASSUME MInv, [Next]_vars
  PROVE  Promised
<1>1. CASE UNCHANGED pubVars
  BY <1>1, NoObjectMoves
<1>2. CASE UNCHANGED vars
  BY <1>2, NoObjectMoves DEF vars
<1>3. CASE \E t \in Tasks, o \in Objects : KMutexAcquire(t, o) \/ KMutexRelease(t, o)
  BY <1>1, <1>3 DEF KMutexAcquire, KMutexRelease, EnterCall
<1>4. CASE \E t \in Tasks : Continue(t)
  <2>1. PICK t \in Tasks : Continue(t)
    BY <1>4
  <2>2. CASE AcquireRecursive(t) \/ AcquirePublish(t) \/ AcquireReport(t) \/ ReleaseRecursive(t) \/ ReleaseClear(t)
    BY <2>2, EnterPromised, PublishPromised, ReportPromised, LeavePromised, ClearPromised
  <2>3. CASE AcquirePin(t) \/ AcquireFails(t) \/ AcquireTrack(t) \/ ReleaseRefused(t) \/ ReleaseUntrack(t)
             \/ ReleaseDrop(t) \/ ReturnFromCall(t)
    BY <1>1, <2>3 DEF AcquirePin, AcquireFails, AcquireTrack, ReleaseRefused, ReleaseUntrack, ReleaseDrop, ReturnFromCall
  <2>4. CASE LockKilled(t) \/ LockTake(t) \/ LockTimeout(t) \/ LockPark(t) \/ ReleaseUnlock(t)
    BY <1>1, <2>4 DEF LockKilled, LockTake, LockTimeout, LockPark, ReleaseUnlock
  <2> QED BY <2>1, <2>2, <2>3, <2>4 DEF Continue
<1>5. CASE \E t \in Tasks : TaskExit(t) \/ TaskCreate(t)
  BY <1>1, <1>5 DEF TaskExit, TaskCreate
<1>6. CASE \E t \in Tasks : (OnTimerTick(t) /\ SchedOnly) \/ (life[t] = "live" /\ SignalTask(t) /\ SchedOnly)
  BY <1>1, <1>6 DEF SchedOnly
<1>7. CASE \E o \in Objects : CloseHandle(o)
  BY <1>1, <1>7 DEF CloseHandle
<1>8. CASE Reap
  BY <1>1, <1>8, AbandonPromised DEF Reap, ReaperDrain, ReaperDetach, ReaperNext, MutexAbandon, AbandonRelease, ReaperFree
<1> QED BY <1>2, <1>3, <1>4, <1>5, <1>6, <1>7, <1>8 DEF Next

(* KMutex implements the abandonable recursive mutex, for every object:    *)
(* waiters, killers, the timer and the reaper are invisible behind it, and *)
(* an abandonment is reported to exactly the next holder.                  *)
THEOREM MutexImplements == Spec => ImplementsAbandonableMutex
<1>1. Init => \A o \in Objects : Promise(o)!Init
  BY DEF Init, Promise!Init
<1>2. ASSUME MInv, [Next]_vars PROVE [Promised]_pubVars
  BY <1>2, NextPromised
<1>3. [][Promised]_pubVars <=> [][\A o \in Objects : Promise(o)!Next \/ UNCHANGED Promise(o)!vars]_pubVars
  BY DEF Promised
<1>4. Spec => [][Promised]_pubVars
  BY <1>2, MutexInductive, PTL DEF Spec
<1> QED BY <1>1, <1>3, <1>4 DEF Spec, ImplementsAbandonableMutex
=============================================================================
