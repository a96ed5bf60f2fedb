----------------------------- MODULE HandleTable -----------------------------
(***************************************************************************)
(* The reference-counted kernel object (kernel/ipc/kobject.{h,cpp}) and    *)
(* the generation-tagged per-process handle table built on it              *)
(* (kernel/ipc/handle_table.{h,cpp}).                                      *)
(*                                                                         *)
(* Threads are kernel threads on any CPU.  Every critical section of the   *)
(* code, under table.lock or under g_kobject_lock, is one step; the code   *)
(* between two critical sections is where other threads interleave.  A     *)
(* call that fails before changing anything is a stuttering step and has   *)
(* no action.  A handle is the pair of its slot and generation; every pair *)
(* may be passed by a caller, so stale and forged handles are covered.     *)
(***************************************************************************)
EXTENDS Naturals, FiniteSets

CONSTANTS
  Threads,               \* kernel threads
  Tables,                \* handle tables, one per process
  Objects,               \* kernel objects that may be allocated
  NULL,                  \* the null pointer
  ObjType,               \* the type tag each object is initialised with
  RequestableRights,     \* bound: the sets of rights that callers ask for
  Reservers,             \* bound: the threads that reserve rows
  kHandleTableCapacity,  \* slots of a table, slot 0 the invalid sentinel
  kHandleGenerationMax,  \* last generation of a slot
  kU32Max,               \* value at which u32 counters saturate
  kNonceMax              \* last reservation nonce (2^64 - 1 in the code)

kHandleRightAll == {"Read", "Write", "Duplicate", "Transfer", "Wait", "Signal", "Destroy", "Inspect"}

ConcreteTypes == {"Mutex", "Event", "Semaphore", "Mailbox", "MessagePort",
                  "ServiceEndpoint", "Waitable", "File", "Iocp", "Test"}

ASSUME ConstantsAssumption ==
  /\ kHandleTableCapacity \in Nat \ {0, 1}
  /\ kHandleGenerationMax \in Nat \ {0}
  /\ kU32Max \in Nat \ {0}
  /\ kNonceMax \in Nat \ {0}
  /\ ObjType \in [Objects -> ConcreteTypes]
  /\ RequestableRights \subseteq (SUBSET kHandleRightAll) \ {{}}
  /\ Reservers \subseteq Threads
  /\ NULL \notin Objects /\ NULL \notin Tables
  /\ IsFiniteSet(Threads) /\ IsFiniteSet(Tables) /\ IsFiniteSet(Objects)

VARIABLES
  refcount,  \* [Objects -> u32], guarded by g_kobject_lock
  life,      \* [Objects -> "unborn" / "alive" / "freed"]: the object's storage
  slots,     \* [Rows -> HandleSlot, with the lineage of its handle as history]
  tab,       \* [Tables -> next_free_hint, active_operations, state]
  pc,        \* where each thread stands between two critical sections
  reg,       \* the locals of the call each thread is executing
  held,      \* the reference each thread owns
  victims,   \* the references a draining thread has detached and not released
  ticket,    \* the reservation each thread holds
  lastNonce, \* g_last_handle_reservation_nonce
  spent      \* history: tokens that have ceased to resolve

objVars == <<refcount, life>>
tableVars == <<slots, tab>>
threadVars == <<pc, reg, held, victims, ticket, lastNonce>>
vars == <<refcount, life, slots, tab, pc, reg, held, victims, ticket, lastNonce, spent>>

Slots == 1..(kHandleTableCapacity - 1)
Rows == Tables \X Slots
Generations == 1..kHandleGenerationMax
Handles == Slots \X Generations
Tokens == Rows \X Generations
TypesInPlay == {ObjType[o] : o \in Objects}
ExpectedTypes == TypesInPlay \cup {"Invalid"}

-----------------------------------------------------------------------------
(* Rights *)

TypeAllowedRights(type) ==
  LET kCommon == {"Duplicate", "Transfer", "Destroy", "Inspect"}
  IN CASE type \in {"Mutex", "Event", "Semaphore"} -> kCommon \cup {"Wait", "Signal"}
       [] type \in {"Mailbox", "MessagePort", "Iocp"} -> kCommon \cup {"Read", "Write", "Wait"}
       [] type = "ServiceEndpoint" -> {"Destroy", "Inspect", "Read", "Write", "Wait"}
       [] type = "Waitable" -> kCommon \cup {"Wait"}
       [] type = "File" -> kCommon \cup {"Read", "Write"}
       [] type = "Test" -> kHandleRightAll
       [] OTHER -> {}

-----------------------------------------------------------------------------
(* Slots *)

(***************************************************************************)
(* The fields of struct HandleSlot and a history field that no action      *)
(* reads but to write the history: `lineage` is the rights that were       *)
(* granted to the first handle from which the row's handle descends, cut   *)
(* down by each duplication and replacement on the way.                    *)
(***************************************************************************)
FreshSlot == [obj |-> NULL, rights |-> {}, nonce |-> 0, generation |-> 0, pins |-> 0,
              rtype |-> "Invalid", state |-> "Free", lineage |-> {}]

SlotMatches(s, generation) ==
  /\ s.state = "Live" /\ s.obj # NULL
  /\ s.generation = generation
  /\ s.nonce = 0 /\ s.rtype = "Invalid"

ClosedStateFor(s) ==
  IF s.generation = kHandleGenerationMax THEN "Retired" ELSE "Free"

AnyNonceMatches(s, tk) ==
  s.state = "Reserved" /\ s.obj = NULL /\ s.generation = tk.generation

ReservationMatches(s, tk) ==
  /\ s.state = "Reserved" /\ s.obj = NULL
  /\ s.generation = tk.generation /\ s.nonce = tk.nonce
  /\ s.rtype # "Invalid" /\ s.rights # {}

\* What every path that empties a row stores back into it.
Cleared(s) ==
  [s EXCEPT !.obj = NULL, !.rights = {}, !.nonce = 0, !.rtype = "Invalid", !.state = ClosedStateFor(s),
            !.lineage = {}]

AlwaysOpen(t) == TRUE

\* Operations are refused once a drain has begun.
IsOpen(t) == tab[t].state = "Open"

\* A caller names the type it expects, or Invalid for any.
TypeAccepted(type, o) == type = "Invalid" \/ (o # NULL /\ ObjType[o] = type)

\* A row's token resolves to the object in the row.
Resolves(tok) ==
  IsOpen(tok[1][1]) /\ SlotMatches(slots[tok[1]], tok[2])

(***************************************************************************)
(* The allocation scan shared by Insert and Reserve: from the slot after   *)
(* next_free_hint, cyclically, the first Free row below the terminal       *)
(* generation is claimed; Free rows at the terminal generation that the    *)
(* scan passes are retired.                                                *)
(***************************************************************************)
ScanDistance(t, i) ==
  (i + kHandleTableCapacity - ((tab[t].hint + 1) % kHandleTableCapacity)) % kHandleTableCapacity

Usable(t) ==
  {i \in Slots : slots[<<t, i>>].state = "Free" /\ slots[<<t, i>>].generation # kHandleGenerationMax}

FirstUsable(t, i) ==
  i \in Usable(t) /\ \A j \in Usable(t) : ScanDistance(t, i) <= ScanDistance(t, j)

RetirePassed(t, passed) ==
  [r \in Rows |-> IF /\ r[1] = t /\ passed[r[2]]
                     /\ slots[r].state = "Free" /\ slots[r].generation = kHandleGenerationMax
                  THEN [slots[r] EXCEPT !.state = "Retired"]
                  ELSE slots[r]]

\* The scan stops at row i, which becomes s with the next generation.
ClaimRow(t, i, s) ==
  /\ slots' = [RetirePassed(t, [j \in Slots |-> ScanDistance(t, j) < ScanDistance(t, i)])
                 EXCEPT ![<<t, i>>] = [s EXCEPT !.generation = slots[<<t, i>>].generation + 1]]
  /\ tab' = [tab EXCEPT ![t].hint = i]

\* The scan finds nothing: OutOfMemory, with every exhausted row retired.
ScanFails(t) ==
  /\ Usable(t) = {}
  /\ slots' = RetirePassed(t, [j \in Slots |-> TRUE])
  /\ tab' = tab

-----------------------------------------------------------------------------
(* Threads *)

NoReg == [tab |-> NULL, slot |-> 0, gen |-> 0, want |-> {}, src |-> {}, ptr |-> NULL,
          retained |-> FALSE, dst |-> NULL, cont |-> "idle", lineage |-> {}]
NoTicket == [slot |-> 0, generation |-> 0, nonce |-> 0, home |-> NULL]

Row(th) == <<reg[th].tab, reg[th].slot>>

\* Thread th goes on at `to`; back at a resting place its locals are gone.
Goto(th, to, locals) ==
  /\ pc' = [pc EXCEPT ![th] = to]
  /\ reg' = [reg EXCEPT ![th] = locals]

Rest(th, to) == Goto(th, to, NoReg)

HoldRef(th, o) == held' = [held EXCEPT ![th] = o]

-----------------------------------------------------------------------------
(* kobject.cpp *)

\* KObjectInit on new storage: the creator owns the only reference.  A thread
\* at "using" owns a reference, of an object that it created, looked up,
\* detached or displaced, and may release it or give it to a table.
KObjectInit(th) ==
  /\ pc[th] = "idle"
  /\ \E o \in Objects :
       /\ life[o] = "unborn"
       /\ life' = [life EXCEPT ![o] = "alive"]
       /\ refcount' = [refcount EXCEPT ![o] = 1]
       /\ HoldRef(th, o)
  /\ Rest(th, "using")
  /\ UNCHANGED <<tableVars, victims, ticket, lastNonce>>

NotDead(o) == refcount[o] # 0

\* A checked retain refuses a dead object and a saturated count.
Retainable(o) == refcount[o] # 0 /\ refcount[o] # kU32Max

\* KObjectAcquire inside RetainSnapshot, after table.lock has been dropped.
KObjectAcquire(th) ==
  LET o == reg[th].ptr
      ok == Retainable(o)
  IN /\ pc[th] = "acquire"
     /\ refcount' = IF ok THEN [refcount EXCEPT ![o] = @ + 1] ELSE refcount
     /\ held' = IF ok THEN [held EXCEPT ![th] = o] ELSE held
     /\ Goto(th, "unpin", [reg[th] EXCEPT !.retained = ok])
     /\ UNCHANGED <<life, tableVars, victims, ticket, lastNonce>>

LastOrNextToLast(o) == refcount[o] \in {1, 2}

NeverLast(o) == FALSE

\* reached_zero: this release takes the count to zero.
ReachesZero(o) == refcount[o] = 1

\* The decrement of KObjectRelease; a dead object is left alone.  The thread
\* that takes the count to zero runs the destroy callback outside the lock.
DropRef(th, o, after) ==
  /\ refcount' = IF refcount[o] = 0 THEN refcount ELSE [refcount EXCEPT ![o] = @ - 1]
  /\ IF ReachesZero(o)
     THEN Goto(th, "destroy", [reg[th] EXCEPT !.ptr = o, !.cont = after])
     ELSE Goto(th, after, IF after = "drainrelease" THEN [reg[th] EXCEPT !.ptr = NULL] ELSE NoReg)

KObjectRelease(th) ==
  /\ pc[th] \in {"using", "release"}
  /\ DropRef(th, held[th], "idle")
  /\ HoldRef(th, NULL)
  /\ UNCHANGED <<life, tableVars, victims, ticket, lastNonce>>

\* obj->destroy(obj): the storage goes away.
DestroyCallback(th) ==
  /\ pc[th] = "destroy"
  /\ life' = [life EXCEPT ![reg[th].ptr] = "freed"]
  /\ Goto(th, reg[th].cont,
          IF reg[th].cont = "drainrelease" THEN [reg[th] EXCEPT !.ptr = NULL, !.cont = "idle"] ELSE NoReg)
  /\ UNCHANGED <<refcount, tableVars, held, victims, ticket, lastNonce>>

-----------------------------------------------------------------------------
(* HandleTableInsert *)

\* The checks that precede table.lock: rights the type allows, a live object.
\* The rights are the caller's to choose: whoever owns a reference grants.
InsertCheck(th, t, rights) ==
  /\ pc[th] = "using"
  /\ rights \subseteq TypeAllowedRights(ObjType[held[th]])
  /\ refcount[held[th]] # 0
  /\ Goto(th, "insert", [NoReg EXCEPT !.tab = t, !.want = rights, !.cont = "using", !.lineage = rights])
  /\ UNCHANGED <<objVars, tableVars, held, victims, ticket, lastNonce>>

\* Under table.lock: the row adopts the caller's reference.
InsertCommit(th) ==
  LET t == reg[th].tab
      o == held[th]
  IN /\ pc[th] = "insert"
     /\ IsOpen(t)
     /\ \E i \in Slots :
          /\ FirstUsable(t, i)
          /\ ClaimRow(t, i, [FreshSlot EXCEPT !.obj = o, !.rights = reg[th].want, !.state = "Live",
                                              !.lineage = reg[th].lineage \cap reg[th].want])
     /\ HoldRef(th, NULL)
     /\ Rest(th, "idle")
     /\ UNCHANGED <<objVars, victims, ticket, lastNonce>>

\* The table is not open or is full: the caller keeps its reference, and
\* HandleTableDuplicate releases the one it retained.
InsertFail(th) ==
  LET t == reg[th].tab
  IN /\ pc[th] = "insert"
     /\ \/ ~IsOpen(t) /\ UNCHANGED tableVars
        \/ IsOpen(t) /\ ScanFails(t)
     /\ Rest(th, reg[th].cont)
     /\ UNCHANGED <<objVars, held, victims, ticket, lastNonce>>

-----------------------------------------------------------------------------
(* HandleTableReserve, HandleTablePublish, HandleTableAbort *)

HandleTableReserve(th, t, type, rights) ==
  /\ pc[th] \in {"idle", "using"} /\ ticket[th] = NoTicket
  /\ rights \subseteq TypeAllowedRights(type)
  /\ IsOpen(t)
  /\ lastNonce # kNonceMax
  /\ lastNonce' = lastNonce + 1
  /\ \E i \in Slots :
       /\ FirstUsable(t, i)
       /\ ClaimRow(t, i, [FreshSlot EXCEPT !.rights = rights, !.nonce = lastNonce + 1,
                                           !.rtype = type, !.state = "Reserved"])
       /\ ticket' = [ticket EXCEPT ![th] = [slot |-> i, generation |-> slots[<<t, i>>].generation + 1,
                                            nonce |-> lastNonce + 1, home |-> t]]
  /\ UNCHANGED <<objVars, pc, reg, held, victims>>

\* A ticket does not name its table, so it may be presented to any table.
HandleTablePublish(th, t) ==
  LET tk == ticket[th]
      r == <<t, tk.slot>>
      o == held[th]
  IN /\ pc[th] = "using" /\ tk # NoTicket
     /\ refcount[o] # 0
     /\ IsOpen(t)
     /\ ReservationMatches(slots[r], tk)
     /\ slots[r].rtype = ObjType[o]
     /\ slots[r].rights \subseteq TypeAllowedRights(ObjType[o])
     /\ slots' = [slots EXCEPT ![r] = [@ EXCEPT !.obj = o, !.nonce = 0, !.rtype = "Invalid", !.state = "Live",
                                                !.lineage = slots[r].rights]]
     /\ ticket' = [ticket EXCEPT ![th] = NoTicket]
     /\ HoldRef(th, NULL)
     /\ Rest(th, "idle")
     /\ UNCHANGED <<objVars, tab, victims, lastNonce>>

HandleTableAbort(th, t) ==
  LET tk == ticket[th]
      r == <<t, tk.slot>>
  IN /\ pc[th] \in {"idle", "using"} /\ tk # NoTicket
     /\ IsOpen(t)
     /\ ReservationMatches(slots[r], tk)
     /\ slots' = [slots EXCEPT ![r] = Cleared(@)]
     /\ ticket' = [ticket EXCEPT ![th] = NoTicket]
     /\ UNCHANGED <<objVars, tab, pc, reg, held, victims, lastNonce>>

\* Publish and Abort refuse a ticket whose table has drained, or has drained
\* and been reused: the caller gives the ticket up.
AbandonTicket(th) ==
  LET tk == ticket[th]
  IN /\ pc[th] \in {"idle", "using"} /\ tk # NoTicket
     /\ ~(IsOpen(tk.home) /\ ReservationMatches(slots[<<tk.home, tk.slot>>], tk))
     /\ ticket' = [ticket EXCEPT ![th] = NoTicket]
     /\ UNCHANGED <<objVars, tableVars, pc, reg, held, victims, lastNonce>>

-----------------------------------------------------------------------------
(* RetainSnapshot: pin under the lock, retain outside it, unpin under it *)

BeginOperation(t) == [tab EXCEPT ![t].ops = @ + 1]

NoEndOperation(t) == tab

EndOperation(t) == [tab EXCEPT ![t].ops = @ - 1]

UnpinIfRetained(th) == IF reg[th].retained THEN slots[Row(th)].pins - 1 ELSE slots[Row(th)].pins

PinsAfterLookup(th) == slots[Row(th)].pins - 1

PinnedBy(th, t, h, required, locals) ==
  LET s == slots[<<t, h[1]>>]
  IN /\ tab[t].state = "Open"
     /\ SlotMatches(s, h[2])
     /\ required \subseteq s.rights
     /\ s.pins # kU32Max /\ tab[t].ops # kU32Max
     /\ slots' = [slots EXCEPT ![<<t, h[1]>>].pins = @ + 1]
     /\ tab' = BeginOperation(t)
     /\ Goto(th, "acquire", [locals EXCEPT !.tab = t, !.slot = h[1], !.gen = h[2],
                                           !.src = s.rights, !.ptr = s.obj, !.lineage = s.lineage])
     /\ UNCHANGED <<objVars, held, victims, ticket, lastNonce>>

HandleTableLookupRef(th, t, h, type, required) ==
  /\ pc[th] = "idle"
  /\ TypeAccepted(type, slots[<<t, h[1]>>].obj)
  /\ PinnedBy(th, t, h, required, [NoReg EXCEPT !.cont = "using"])

(***************************************************************************)
(* HandleTableDuplicateRights to table `dst`; HandleTableDuplicate, which  *)
(* keeps the source's rights, is the call with want = {}.                  *)
(***************************************************************************)
HandleTableDuplicate(th, t, h, dst, want) ==
  /\ pc[th] = "idle"
  /\ PinnedBy(th, t, h, {"Duplicate"}, [NoReg EXCEPT !.cont = "dup", !.dst = dst, !.want = want])

Unpin(th) ==
  LET l == reg[th]
  IN /\ pc[th] = "unpin"
     /\ slots' = [slots EXCEPT ![Row(th)].pins = PinsAfterLookup(th)]
     /\ tab' = EndOperation(l.tab)
     /\ IF ~l.retained THEN Rest(th, "idle")
        ELSE IF l.cont = "using" THEN Rest(th, "using")
        ELSE Goto(th, "dup", [NoReg EXCEPT !.tab = l.dst, !.src = l.src, !.cont = "release",
                                           !.want = IF l.want = {} THEN l.src ELSE l.want,
                                           !.lineage = l.lineage])
     /\ UNCHANGED <<objVars, held, victims, ticket, lastNonce>>

AnyRights(want, src) == TRUE

Narrows(want, src) == want \subseteq src

\* The requested rights must not exceed the source's; then the checks of
\* HandleTableInsert that precede the destination's lock.
DuplicateCheck(th) ==
  LET l == reg[th]
      ok == /\ Narrows(l.want, l.src)
            /\ l.want \subseteq TypeAllowedRights(ObjType[held[th]])
            /\ refcount[held[th]] # 0
  IN /\ pc[th] = "dup"
     /\ IF ok THEN Goto(th, "insert", [l EXCEPT !.src = {}]) ELSE Rest(th, "release")
     /\ UNCHANGED <<objVars, tableVars, held, victims, ticket, lastNonce>>

-----------------------------------------------------------------------------
(* HandleTableDetach, HandleTableRemove, HandleReplace, HandleTableAdoptReplace *)

\* The close linearisation point: the row rejects its token from here on.
StartClosing(t, h) ==
  /\ IsOpen(t)
  /\ SlotMatches(slots[<<t, h[1]>>], h[2])
  /\ tab[t].ops # kU32Max
  /\ slots' = [slots EXCEPT ![<<t, h[1]>>].state = "Closing"]
  /\ tab' = BeginOperation(t)

IgnorePins(r) == TRUE

\* The wait of a close for the short lookup pins on its row.
PinsGone(r) == slots[r].pins = 0

LeakDetached(r) == NULL

\* The table-owned reference that a finished close hands to its caller.
DetachedRef(r) == slots[r].obj

SameGeneration(r) == slots[r].generation

NextGeneration(r) == slots[r].generation + 1

\* `after` is "using" for Detach, whose caller gets the table's reference,
\* and "release" for Remove, which drops it.
HandleTableDetach(th, t, h, type, required, after) ==
  /\ pc[th] = "idle"
  /\ TypeAccepted(type, slots[<<t, h[1]>>].obj)
  /\ required \subseteq slots[<<t, h[1]>>].rights
  /\ StartClosing(t, h)
  /\ Goto(th, "closing", [NoReg EXCEPT !.tab = t, !.slot = h[1], !.gen = h[2], !.cont = after])
  /\ UNCHANGED <<objVars, held, victims, ticket, lastNonce>>

\* The loop leaves once the short pins are gone, and takes the reference.
FinishDetach(th) ==
  /\ pc[th] = "closing"
  /\ PinsGone(Row(th))
  /\ slots' = [slots EXCEPT ![Row(th)] = Cleared(@)]
  /\ tab' = EndOperation(reg[th].tab)
  /\ HoldRef(th, DetachedRef(Row(th)))
  /\ Rest(th, reg[th].cont)
  /\ UNCHANGED <<objVars, victims, ticket, lastNonce>>

\* In place, under one lock acquisition: same object, narrower rights, next
\* generation.
HandleReplace(th, t, h, rights) ==
  LET r == <<t, h[1]>>
  IN /\ pc[th] = "idle"
     /\ IsOpen(t)
     /\ SlotMatches(slots[r], h[2])
     /\ "Duplicate" \in slots[r].rights /\ rights \subseteq slots[r].rights
     /\ slots[r].generation # kHandleGenerationMax
     /\ slots' = [slots EXCEPT ![r].generation = @ + 1, ![r].rights = rights, ![r].lineage = @ \cap rights]
     /\ UNCHANGED <<objVars, tab, threadVars>>

HandleTableAdoptReplace(th, t, h, rights, type) ==
  /\ pc[th] = "using"
  /\ TypeAccepted(type, held[th]) /\ TypeAccepted(type, slots[<<t, h[1]>>].obj)
  /\ rights \subseteq TypeAllowedRights(ObjType[held[th]])
  /\ refcount[held[th]] # 0
  /\ h[2] # kHandleGenerationMax
  /\ StartClosing(t, h)
  /\ Goto(th, "adopting", [NoReg EXCEPT !.tab = t, !.slot = h[1], !.gen = h[2], !.want = rights])
  /\ UNCHANGED <<objVars, held, victims, ticket, lastNonce>>

\* The row adopts the replacement, the caller gets the displaced reference.
FinishAdoptReplace(th) ==
  LET r == Row(th)
  IN /\ pc[th] = "adopting"
     /\ PinsGone(r)
     /\ slots' = [slots EXCEPT ![r] = [@ EXCEPT !.obj = held[th], !.rights = reg[th].want,
                                                !.generation = NextGeneration(r), !.state = "Live",
                                                !.lineage = reg[th].want]]
     /\ tab' = EndOperation(reg[th].tab)
     /\ HoldRef(th, DetachedRef(r))
     /\ Rest(th, "using")
     /\ UNCHANGED <<objVars, victims, ticket, lastNonce>>

-----------------------------------------------------------------------------
(* HandleTableDrain *)

NoVictims == [i \in Slots |-> NULL]

\* The first drainer owns the teardown; later ones wait for Closed.
DrainBegin(th, t) ==
  /\ pc[th] = "idle"
  /\ tab[t].state # "Closed"
  /\ tab' = [tab EXCEPT ![t].state = "Draining"]
  /\ Goto(th, IF tab[t].state = "Open" THEN "drainwait" ELSE "drainjoin", [NoReg EXCEPT !.tab = t])
  /\ UNCHANGED <<objVars, slots, held, victims, ticket, lastNonce>>

DrainJoined(th) ==
  /\ pc[th] = "drainjoin"
  /\ tab[reg[th].tab].state = "Closed"
  /\ Rest(th, "idle")
  /\ UNCHANGED <<objVars, tableVars, held, victims, ticket, lastNonce>>

IgnoreOperations(t) == TRUE

\* The wait of a drain for the lookups and closes in flight.
Quiescent(t) == tab[t].ops = 0

DrainQuiescent(th) ==
  /\ pc[th] = "drainwait"
  /\ Quiescent(reg[th].tab)
  /\ Goto(th, "drainsweep", reg[th])
  /\ UNCHANGED <<objVars, tableVars, held, victims, ticket, lastNonce>>

\* One lock acquisition empties every Live and Reserved row.
DrainSweep(th) ==
  LET t == reg[th].tab
  IN /\ pc[th] = "drainsweep"
     /\ victims' = [victims EXCEPT ![th] =
          [i \in Slots |-> IF slots[<<t, i>>].state = "Live" THEN slots[<<t, i>>].obj ELSE NULL]]
     /\ slots' = [r \in Rows |-> IF r[1] = t /\ slots[r].state \in {"Live", "Reserved"}
                                 THEN Cleared(slots[r]) ELSE slots[r]]
     /\ Goto(th, "drainrelease", reg[th])
     /\ UNCHANGED <<objVars, tab, held, ticket, lastNonce>>

\* KObjectRelease of the next victim, in slot order, with no lock held.
DrainRelease(th) ==
  /\ pc[th] = "drainrelease"
  /\ \E i \in Slots :
       /\ victims[th][i] # NULL
       /\ \A j \in Slots : j < i => victims[th][j] = NULL
       /\ DropRef(th, victims[th][i], "drainrelease")
       /\ victims' = [victims EXCEPT ![th][i] = NULL]
  /\ UNCHANGED <<life, tableVars, held, ticket, lastNonce>>

DrainClosed(th) ==
  /\ pc[th] = "drainrelease"
  /\ victims[th] = NoVictims
  /\ tab' = [tab EXCEPT ![reg[th].tab].state = "Closed"]
  /\ Rest(th, "idle")
  /\ UNCHANGED <<objVars, slots, held, victims, ticket, lastNonce>>

\* The owning Process frees a closed table once no call is inside it, and a
\* later Process may get the same, zeroed, storage.
TableReuse(t) ==
  /\ tab[t].state = "Closed"
  /\ \A th \in Threads : reg[th].tab # t /\ reg[th].dst # t
  /\ slots' = [r \in Rows |-> IF r[1] = t THEN FreshSlot ELSE slots[r]]
  /\ tab' = [tab EXCEPT ![t] = [hint |-> 0, ops |-> 0, state |-> "Open"]]
  /\ UNCHANGED <<objVars, threadVars>>

-----------------------------------------------------------------------------
(* The specification *)

Init ==
  /\ refcount = [o \in Objects |-> 0]
  /\ life = [o \in Objects |-> "unborn"]
  /\ slots = [r \in Rows |-> FreshSlot]
  /\ tab = [t \in Tables |-> [hint |-> 0, ops |-> 0, state |-> "Open"]]
  /\ pc = [th \in Threads |-> "idle"]
  /\ reg = [th \in Threads |-> NoReg]
  /\ held = [th \in Threads |-> NULL]
  /\ victims = [th \in Threads |-> NoVictims]
  /\ ticket = [th \in Threads |-> NoTicket]
  /\ lastNonce = 0
  /\ spent = {}

\* A new call.
Call(th) ==
  \/ KObjectInit(th)
  \/ pc[th] = "using" /\ KObjectRelease(th)
  \/ AbandonTicket(th)
  \/ \E t \in Tables :
       \/ HandleTablePublish(th, t)
       \/ HandleTableAbort(th, t)
       \/ DrainBegin(th, t)
       \/ \E rights \in RequestableRights :
            \/ InsertCheck(th, t, rights)
            \/ th \in Reservers /\ \E type \in TypesInPlay : HandleTableReserve(th, t, type, rights)
            \/ \E h \in Handles :
                 \/ HandleReplace(th, t, h, rights)
                 \/ \E type \in ExpectedTypes : HandleTableAdoptReplace(th, t, h, rights, type)
       \/ \E h \in Handles, rights \in RequestableRights \cup {{}} :
            \/ \E dst \in Tables : HandleTableDuplicate(th, t, h, dst, rights)
            \/ \E type \in ExpectedTypes :
                 \/ HandleTableLookupRef(th, t, h, type, rights)
                 \/ HandleTableDetach(th, t, h, type, rights, "using")
       \/ \E h \in Handles : HandleTableDetach(th, t, h, "Invalid", {}, "release")

\* The rest of a call that has begun.
Continue(th) ==
  \/ KObjectAcquire(th) \/ Unpin(th) \/ DuplicateCheck(th)
  \/ InsertCommit(th) \/ InsertFail(th)
  \/ FinishDetach(th) \/ FinishAdoptReplace(th)
  \/ pc[th] = "release" /\ KObjectRelease(th)
  \/ DestroyCallback(th)
  \/ DrainJoined(th) \/ DrainQuiescent(th) \/ DrainSweep(th) \/ DrainRelease(th) \/ DrainClosed(th)

\* History: a token is spent when it ceases to resolve; a reused table
\* starts a new life.
RecordSpent ==
  spent' = {tok \in spent \cup {k \in Tokens : Resolves(k)} :
              ~Resolves(tok)' \/ tok \in spent}

Step(A) == A /\ RecordSpent

Next ==
  \/ \E th \in Threads : Step(Call(th) \/ Continue(th))
  \/ \E t \in Tables : TableReuse(t) /\ spent' = {tok \in spent : tok[1][1] # t}

Fairness == \A th \in Threads : WF_vars(Step(Continue(th)))

Spec == Init /\ [][Next]_vars

FairSpec == Spec /\ Fairness

-----------------------------------------------------------------------------
(* Properties *)

SlotStates == {"Free", "Live", "Closing", "Retired", "Reserved"}
Pinned == {"acquire", "unpin"}
Closers == {"closing", "adopting"}
Resting == {"idle", "using"}
PCs == Resting \cup Pinned \cup Closers
         \cup {"insert", "dup", "release", "destroy", "drainwait", "drainjoin", "drainsweep", "drainrelease"}

HandleSlot == [obj : Objects \cup {NULL}, rights : SUBSET kHandleRightAll, nonce : 0..kNonceMax,
               generation : 0..kHandleGenerationMax, pins : 0..kU32Max,
               rtype : ConcreteTypes \cup {"Invalid"}, state : SlotStates, lineage : SUBSET kHandleRightAll]
TableHeader == [hint : 0..(kHandleTableCapacity - 1), ops : 0..kU32Max, state : {"Open", "Draining", "Closed"}]
Locals == [tab : Tables \cup {NULL}, slot : 0..(kHandleTableCapacity - 1), gen : 0..kHandleGenerationMax,
           want : SUBSET kHandleRightAll, src : SUBSET kHandleRightAll, ptr : Objects \cup {NULL},
           retained : BOOLEAN, dst : Tables \cup {NULL}, cont : PCs,
           lineage : SUBSET kHandleRightAll]
Reservation == [slot : 0..(kHandleTableCapacity - 1), generation : 0..kHandleGenerationMax,
                nonce : 0..kNonceMax, home : Tables \cup {NULL}]

\* Types of every variable of the object, table and thread state.
TypeOK ==
  /\ refcount \in [Objects -> 0..kU32Max]
  /\ life \in [Objects -> {"unborn", "alive", "freed"}]
  /\ slots \in [Rows -> HandleSlot]
  /\ tab \in [Tables -> TableHeader]
  /\ pc \in [Threads -> PCs]
  /\ reg \in [Threads -> Locals]
  /\ held \in [Threads -> Objects \cup {NULL}]
  /\ victims \in [Threads -> [Slots -> Objects \cup {NULL}]]
  /\ ticket \in [Threads -> Reservation]
  /\ lastNonce \in 0..kNonceMax
  /\ spent \subseteq Tokens

(***************************************************************************)
(* The places that own a reference: a table row, a thread's local, a row   *)
(* of a drain's victim array.                                              *)
(***************************************************************************)
RowOwners(o) == {r \in Rows : slots[r].obj = o}
ThreadOwners(o) == {th \in Threads : held[th] = o}
VictimOwners(o) == {v \in Threads \X Slots : victims[v[1]][v[2]] = o}

(***************************************************************************)
(* kobject.h, "REFCOUNT SEMANTICS": an object's count is exactly the       *)
(* number of its owners at every instant, whatever the interleaving of     *)
(* insert, duplicate, lookup, close, replace and drain, and whether or not *)
(* an acquire was refused at saturation.                                   *)
(***************************************************************************)
RefcountExact ==
  \A o \in Objects :
    refcount[o] = Cardinality(RowOwners(o)) + Cardinality(ThreadOwners(o)) + Cardinality(VictimOwners(o))

(***************************************************************************)
(* No pointer that some path may still dereference names storage that is   *)
(* gone: not the rows, not an owner, and not the pointer a lookup has      *)
(* copied out under table.lock and retains only after dropping it.         *)
(***************************************************************************)
NoUseAfterFree ==
  /\ \A r \in Rows : slots[r].obj # NULL => life[slots[r].obj] = "alive"
  /\ \A th \in Threads :
       /\ held[th] # NULL => life[held[th]] = "alive"
       /\ pc[th] \in Pinned => life[reg[th].ptr] = "alive" /\ refcount[reg[th].ptr] > 0
       /\ \A i \in Slots : victims[th][i] # NULL => life[victims[th][i]] = "alive"

\* The destroy callback runs once: the count of a live object is zero exactly
\* while one thread is about to run it, and a freed object has no owner.
DestroyOnce ==
  \A o \in Objects :
    LET destroyers == {th \in Threads : pc[th] = "destroy" /\ reg[th].ptr = o}
    IN Cardinality(destroyers) = IF life[o] = "alive" /\ refcount[o] = 0 THEN 1 ELSE 0

(***************************************************************************)
(* The KASSERTs of handle_table.cpp: a pinned row keeps its object, a      *)
(* closing row keeps its identity, no pin or operation counter underflows, *)
(* a Free row carries no metadata, and a drain past its quiescence check   *)
(* finds no pin and no closing row.                                        *)
(***************************************************************************)
KernelAssertions ==
  /\ \A th \in Threads :
       /\ pc[th] \in Pinned =>
            slots[Row(th)].obj = reg[th].ptr /\ slots[Row(th)].pins > 0 /\ tab[reg[th].tab].ops > 0
       /\ pc[th] \in Closers =>
            /\ slots[Row(th)].state = "Closing" /\ slots[Row(th)].generation = reg[th].gen
            /\ tab[reg[th].tab].ops > 0
       /\ pc[th] = "drainsweep" =>
            \A i \in Slots : slots[<<reg[th].tab, i>>].state # "Closing" /\ slots[<<reg[th].tab, i>>].pins = 0
       /\ pc[th] \in {"drainwait", "drainsweep", "drainrelease"} => tab[reg[th].tab].state = "Draining"
  /\ \A r \in Rows : slots[r].state = "Free" =>
       slots[r].obj = NULL /\ slots[r].rights = {} /\ slots[r].nonce = 0
         /\ slots[r].pins = 0 /\ slots[r].rtype = "Invalid"

(***************************************************************************)
(* handle_table.h: "A stale token therefore cannot alias an object         *)
(* installed later in the same row."  Once a token has ceased to resolve   *)
(* it never resolves again while its table lives.                          *)
(***************************************************************************)
StaleTokenNeverResolves == \A tok \in spent : ~Resolves(tok)

(***************************************************************************)
(* Authority never grows along a lineage.  Whoever owns a reference may    *)
(* grant rights the type allows with an insert, a publish or an            *)
(* adopt-replace (an open of a named object, an imported object, a         *)
(* duplicated file), and two such grants of one object may differ; but no  *)
(* handle that descends from a grant by duplications and replacements has  *)
(* a right the grant did not give, or that a handle between them had       *)
(* already lost, although a source is narrowed, closed or replaced between *)
(* the duplicate's snapshot of its rights and the insert.                  *)
(***************************************************************************)
NoRightsAmplification ==
  \A r \in Rows : slots[r].state \in {"Live", "Closing"} =>
    /\ slots[r].rights # {}
    /\ slots[r].rights \subseteq slots[r].lineage \cap TypeAllowedRights(ObjType[slots[r].obj])

(***************************************************************************)
(* A reserved row leaves Reserved only for the thread that holds its       *)
(* ticket, or for the drain of its table, and what is published has the    *)
(* reserved type and rights (handle_table.h: "can only be published with   *)
(* the exact reserved type and rights, or aborted").                       *)
(***************************************************************************)
ReservationExact ==
  [][\A r \in Rows : slots[r].state = "Reserved" /\ slots'[r] # slots[r] =>
       \/ \E th \in Threads :
            /\ ticket[th].home = r[1] /\ ticket[th].slot = r[2] /\ ticket[th].nonce = slots[r].nonce
            /\ ticket'[th] = NoTicket
            /\ slots'[r].state = "Live" =>
                 ObjType[slots'[r].obj] = slots[r].rtype /\ slots'[r].rights = slots[r].rights
       \/ tab[r[1]].state = "Draining" /\ slots'[r].obj = NULL]_vars

(***************************************************************************)
(* A Closed table is empty for good, and Closed is seen only after every   *)
(* reference the drain detached has been released and its destroy callback *)
(* has returned: a second drainer may free the table.                      *)
(***************************************************************************)
ClosedMeansDrained ==
  \A t \in Tables : tab[t].state = "Closed" =>
    /\ \A i \in Slots : slots[<<t, i>>].state \in {"Free", "Retired"} /\ slots[<<t, i>>].obj = NULL
    /\ tab[t].ops = 0
    /\ \A th \in Threads :
         reg[th].tab = t => pc[th] \in {"drainjoin", "insert", "dup"}

\* A close or an adopt-replace that has begun ends: the pins it waits for go.
CloseCompletes == \A th \in Threads : pc[th] \in Closers ~> pc[th] \notin Closers

\* A drain that has begun closes the table, although lookups, closes and
\* other drains of the same table are in flight.
DrainCompletes == \A t \in Tables : tab[t].state = "Draining" ~> tab[t].state = "Closed"

\* An object whose last owner is gone is freed.
LastReleaseFrees == \A o \in Objects : life[o] = "alive" /\ refcount[o] = 0 ~> life[o] = "freed"
=============================================================================
