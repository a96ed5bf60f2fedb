-------------------------- MODULE HandleTableProofs --------------------------
(***************************************************************************)
(* Machine-checked proofs about HandleTable, for any number of threads,    *)
(* tables, objects and slots and any width of the counters: the reference  *)
(* counts are exact, nothing dangling is reachable, each object is         *)
(* destroyed once, the KASSERTs of handle_table.cpp hold; then what a      *)
(* handle may do: a closed table is empty, a stale token never resolves,   *)
(* no duplicate or replacement amplifies rights, and a reserved row        *)
(* answers only to its ticket.                                             *)
(*                                                                         *)
(* Every counter of the code counts the places where some function has a   *)
(* given value, so one lemma about counting (CountUpdate) carries the      *)
(* arithmetic of all of them.                                              *)
(***************************************************************************)
EXTENDS HandleTable, FiniteSetTheorems, TLAPS

-----------------------------------------------------------------------------
(* Counting the places at which a function has a value *)

Count(f, S, v) == Cardinality({x \in S : f[x] = v})

One(a, b) == IF a = b THEN 1 ELSE 0

\* A count over a finite domain is a natural number, zero exactly if no place has the value.
LEMMA CountNat ==
  ASSUME NEW S, IsFiniteSet(S), NEW f, NEW v
  PROVE  /\ Count(f, S, v) \in Nat
         /\ Count(f, S, v) = 0 <=> \A x \in S : f[x] # v
<1> DEFINE A == {x \in S : f[x] = v}
<1>1. IsFiniteSet(A)
  BY FS_Subset
<1>2. Cardinality(A) \in Nat /\ (Cardinality(A) = 0 <=> A = {})
  BY <1>1, FS_CardinalityType, FS_EmptySet
<1> QED BY <1>2 DEF Count

\* g is f but for what it has at x.
OneChange(f, g, S, x) == IsFiniteSet(S) /\ x \in S /\ \A y \in S : y # x => g[y] = f[y]

\* Counting occurrences: a change at x moves one unit from f[x] to g[x].
LEMMA CountUpdate ==
  ASSUME NEW S, NEW f, NEW g, NEW x, NEW v, OneChange(f, g, S, x)
  PROVE  Count(g, S, v) + One(f[x], v) = Count(f, S, v) + One(g[x], v)
<1> DEFINE A == {y \in S : f[y] = v}
           B == {y \in S : g[y] = v}
<1>0. x \in S /\ \A y \in S : y # x => g[y] = f[y]
  BY DEF OneChange
<1>1. IsFiniteSet(A) /\ IsFiniteSet(B)
  BY FS_Subset DEF OneChange
<1>2. Cardinality(A) \in Nat /\ Cardinality(B) \in Nat
  BY <1>1, FS_CardinalityType
<1>3. CASE f[x] = v /\ g[x] = v
  <2>1. A = B
    BY <1>0, <1>3
  <2> QED BY <1>2, <1>3, <2>1 DEF Count, One
<1>4. CASE f[x] # v /\ g[x] # v
  <2>1. A = B
    BY <1>0, <1>4
  <2> QED BY <1>2, <1>4, <2>1 DEF Count, One
<1>5. CASE f[x] = v /\ g[x] # v
  <2>1. x \in A /\ B = A \ {x}
    BY <1>0, <1>5
  <2>2. Cardinality(B) = Cardinality(A) - 1
    BY <1>1, <2>1, FS_RemoveElement
  <2> QED BY <1>2, <1>5, <2>2 DEF Count, One
<1>6. CASE f[x] # v /\ g[x] = v
  <2>1. x \notin A /\ B = A \cup {x}
    BY <1>0, <1>6
  <2>2. Cardinality(B) = Cardinality(A) + 1
    BY <1>1, <2>1, FS_AddElement
  <2> QED BY <1>2, <1>6, <2>2 DEF Count, One
<1> QED BY <1>3, <1>4, <1>5, <1>6

-----------------------------------------------------------------------------
(* The inductive invariant *)

Owning == {"using", "release", "insert", "dup", "adopting"}
Busy == Pinned \cup Closers
NoRow == <<NULL, 0>>

\* A drain that is releasing its victims, or running a destroy callback for one.
Releasing(th) == pc[th] = "drainrelease" \/ (pc[th] = "destroy" /\ reg[th].cont = "drainrelease")
InDrain(th) == pc[th] \in {"drainwait", "drainsweep"} \/ Releasing(th)

\* What each counter counts: the row a lookup pins, the table an operation is
\* inside, the object a thread is about to destroy, the object in a place.
PinAt == [th \in Threads |-> IF pc[th] \in Pinned THEN Row(th) ELSE NoRow]
BusyAt == [th \in Threads |-> IF pc[th] \in Busy THEN reg[th].tab ELSE NULL]
DestroyAt == [th \in Threads |-> IF pc[th] = "destroy" THEN reg[th].ptr ELSE NULL]
RowObj == [r \in Rows |-> slots[r].obj]
VictimPlaces == Threads \X Slots
VictimObj == [v \in VictimPlaces |-> victims[v[1]][v[2]]]

\* A thread owns a reference, and its locals name a table, a row and an
\* object, exactly where its program counter says so.
ThreadOK(th) ==
  /\ held[th] # NULL <=> pc[th] \in Owning \/ (pc[th] = "unpin" /\ reg[th].retained)
  /\ pc[th] \in Busy => reg[th].tab \in Tables /\ reg[th].slot \in Slots
  /\ pc[th] \in Pinned =>
       /\ reg[th].ptr \in Objects
       /\ reg[th].cont = "using" \/ (reg[th].cont = "dup" /\ reg[th].dst \in Tables)
  /\ pc[th] = "unpin" /\ reg[th].retained => held[th] = reg[th].ptr
  /\ pc[th] = "closing" => reg[th].cont \in {"using", "release"}
  /\ pc[th] \in {"insert", "dup"} => reg[th].tab \in Tables /\ reg[th].cont \in {"using", "release"}
  /\ InDrain(th) \/ pc[th] = "drainjoin" => reg[th].tab \in Tables
  /\ pc[th] = "destroy" => reg[th].ptr \in Objects /\ reg[th].cont \in {"idle", "drainrelease"}
  /\ ~Releasing(th) => victims[th] = NoVictims
  /\ ticket[th] # NoTicket => ticket[th].slot \in Slots
LocalsOK == \A th \in Threads : ThreadOK(th)

\* The pin and operation counters count threads.
PinsExact == \A r \in Rows : slots[r].pins = Count(PinAt, Threads, r)
OpsExact == \A t \in Tables : tab[t].ops = Count(BusyAt, Threads, t)

\* A row has an object exactly when Live or Closing, and a Free row is clean.
RowsOK ==
  \A r \in Rows :
    /\ slots[r].obj # NULL <=> slots[r].state \in {"Live", "Closing"}
    /\ slots[r].state = "Free" => slots[r].rights = {} /\ slots[r].nonce = 0 /\ slots[r].rtype = "Invalid"

\* A pin keeps the object in its row.
PinnedRows == \A th \in Threads : pc[th] \in Pinned => slots[Row(th)].obj = reg[th].ptr

\* A row is Closing exactly while one thread is closing it.
ClosingRows ==
  /\ \A th \in Threads : pc[th] \in Closers =>
       /\ slots[Row(th)].state = "Closing" /\ slots[Row(th)].generation = reg[th].gen
       /\ pc[th] = "adopting" => reg[th].gen # kHandleGenerationMax
       /\ \A u \in Threads : pc[u] \in Closers /\ Row(u) = Row(th) => u = th
  /\ \A r \in Rows : slots[r].state = "Closing" =>
       \E th \in Threads : pc[th] \in Closers /\ Row(th) = r

\* A draining table has at most one owner, who past the wait finds no operation
\* in flight and past the sweep no object; a closed table has neither.
DrainOK ==
  /\ \A th \in Threads : InDrain(th) =>
       /\ tab[reg[th].tab].state = "Draining"
       /\ \A u \in Threads : InDrain(u) /\ reg[u].tab = reg[th].tab => u = th
       /\ pc[th] # "drainwait" => tab[reg[th].tab].ops = 0
       /\ Releasing(th) => \A i \in Slots : slots[<<reg[th].tab, i>>].obj = NULL
  /\ \A t \in Tables : tab[t].state = "Closed" =>
       tab[t].ops = 0 /\ \A i \in Slots : slots[<<t, i>>].obj = NULL

\* The reference counts, and what they say of the storage.
CountsExact ==
  \A o \in Objects :
    refcount[o] = Count(RowObj, Rows, o) + Count(held, Threads, o) + Count(VictimObj, VictimPlaces, o)
LifeOK ==
  \A o \in Objects :
    /\ refcount[o] # 0 => life[o] = "alive"
    /\ Count(DestroyAt, Threads, o) = IF life[o] = "alive" /\ refcount[o] = 0 THEN 1 ELSE 0

TableInv == PinsExact /\ OpsExact /\ RowsOK /\ PinnedRows /\ ClosingRows
IInv == TypeOK /\ LocalsOK /\ TableInv /\ DrainOK /\ CountsExact /\ LifeOK

-----------------------------------------------------------------------------
(* Frames *)

\* The constants, in the form the steps use them.
LEMMA ConstantFacts ==
  /\ IsFiniteSet(Threads) /\ IsFiniteSet(Slots) /\ IsFiniteSet(Rows) /\ IsFiniteSet(VictimPlaces)
  /\ NULL \notin Objects /\ NULL \notin Tables
  /\ NoRow \notin Rows
  /\ Slots \subseteq 0..(kHandleTableCapacity - 1) /\ 0 \notin Slots /\ Slots \subseteq Nat
<1>1. IsFiniteSet(Slots)
  BY ConstantsAssumption, FS_Interval DEF Slots
<1>2. IsFiniteSet(Rows) /\ IsFiniteSet(VictimPlaces)
  BY <1>1, ConstantsAssumption, FS_Product DEF Rows, VictimPlaces
<1> QED BY <1>1, <1>2, ConstantsAssumption DEF Rows, NoRow, Slots

\* A handle decodes to a slot and a generation in range.
LEMMA HandleRange ==
  ASSUME NEW h \in Handles
  PROVE  h[1] \in 0..(kHandleTableCapacity - 1) /\ h[2] \in 0..kHandleGenerationMax
<1>1. h[1] \in Slots /\ h[2] \in Generations
  BY DEF Handles
<1>2. h[1] \in 0..(kHandleTableCapacity - 1)
  BY <1>1, ConstantFacts
<1>3. h[2] \in 0..kHandleGenerationMax
  BY <1>1, ConstantsAssumption DEF Generations
<1> QED BY <1>2, <1>3

\* Only thread th's program counter and locals change.
OthersKeepPlace(th) == \A u \in Threads \ {th} : pc'[u] = pc[u] /\ reg'[u] = reg[u]

\* Goto moves one thread and leaves the others where they are.
LEMMA GotoFrame ==
  ASSUME TypeOK, NEW th \in Threads, NEW to, NEW l, Goto(th, to, l)
  PROVE  pc'[th] = to /\ reg'[th] = l /\ OthersKeepPlace(th)
BY DEF TypeOK, Goto, OthersKeepPlace

\* LocalsOK survives a step of th that leaves the other threads' locals alone.
LEMMA LocalsFrame ==
  ASSUME LocalsOK, NEW th \in Threads, OthersKeepPlace(th), ThreadOK(th)',
         \A u \in Threads \ {th} : held'[u] = held[u] /\ victims'[u] = victims[u] /\ ticket'[u] = ticket[u]
  PROVE  LocalsOK'
<1> SUFFICES ASSUME NEW u \in Threads, u # th PROVE ThreadOK(u)'
  BY DEF LocalsOK
<1>1. ThreadOK(u)
  BY DEF LocalsOK
<1> QED BY <1>1 DEF OthersKeepPlace, ThreadOK, Releasing, InDrain, NoTicket, NoVictims

\* The counters of pins, operations and destroyers follow the one thread that moves.
LEMMA ThreadCounts ==
  ASSUME NEW th \in Threads, OthersKeepPlace(th)
  PROVE  /\ \A r : Count(PinAt', Threads, r) + One(PinAt[th], r) = Count(PinAt, Threads, r) + One(PinAt'[th], r)
         /\ \A t : Count(BusyAt', Threads, t) + One(BusyAt[th], t) = Count(BusyAt, Threads, t) + One(BusyAt'[th], t)
         /\ \A o : Count(DestroyAt', Threads, o) + One(DestroyAt[th], o)
                     = Count(DestroyAt, Threads, o) + One(DestroyAt'[th], o)
<1>1. \A u \in Threads : u # th => PinAt'[u] = PinAt[u] /\ BusyAt'[u] = BusyAt[u] /\ DestroyAt'[u] = DestroyAt[u]
  BY DEF OthersKeepPlace, PinAt, BusyAt, DestroyAt, Row
<1>2. /\ OneChange(PinAt, PinAt', Threads, th)
      /\ OneChange(BusyAt, BusyAt', Threads, th)
      /\ OneChange(DestroyAt, DestroyAt', Threads, th)
  BY <1>1, ConstantFacts DEF OneChange
<1> QED BY <1>2, CountUpdate

\* A count of a primed function is the count in the next state.
LEMMA CountPrimes ==
  /\ PinsExact' <=> \A r \in Rows : slots'[r].pins = Count(PinAt', Threads, r)
  /\ OpsExact' <=> \A t \in Tables : tab'[t].ops = Count(BusyAt', Threads, t)
  /\ CountsExact' <=> \A o \in Objects : refcount'[o] =
       Count(RowObj', Rows, o) + Count(held', Threads, o) + Count(VictimObj', VictimPlaces, o)
  /\ LifeOK' <=> \A o \in Objects :
       /\ refcount'[o] # 0 => life'[o] = "alive"
       /\ Count(DestroyAt', Threads, o) = IF life'[o] = "alive" /\ refcount'[o] = 0 THEN 1 ELSE 0
BY DEF PinsExact, OpsExact, CountsExact, LifeOK, Count, One

\* A step outside the tables that leaves and enters no operation.
LEMMA TableFrame ==
  ASSUME TableInv, NEW th \in Threads, OthersKeepPlace(th), slots' = slots, tab' = tab,
         pc[th] \notin Busy, pc'[th] \notin Busy
  PROVE  TableInv'
<1>1. PinAt' = PinAt /\ BusyAt' = BusyAt
  BY DEF OthersKeepPlace, PinAt, BusyAt, Row, Busy
<1>2. PinsExact' /\ OpsExact'
  BY <1>1, CountPrimes DEF PinsExact, OpsExact, TableInv
<1>3. RowsOK' /\ PinnedRows'
  BY DEF TableInv, RowsOK, PinnedRows, OthersKeepPlace, Busy, Row
<1>4. ClosingRows'
  <2>1. \A u \in Threads : pc'[u] \in Closers <=> pc[u] \in Closers
    BY DEF OthersKeepPlace, Busy
  <2>2. \A u \in Threads : pc[u] \in Closers => pc'[u] = pc[u] /\ reg'[u] = reg[u] /\ Row(u)' = Row(u)
    BY DEF OthersKeepPlace, Busy, Row
  <2> QED BY <2>1, <2>2 DEF TableInv, ClosingRows
<1> QED BY <1>2, <1>3, <1>4 DEF TableInv

\* A step that leaves the tables and the stage of every drain alone.
LEMMA DrainFrame ==
  ASSUME DrainOK, NEW th \in Threads, OthersKeepPlace(th), slots' = slots, tab' = tab,
         InDrain(th)' <=> InDrain(th),
         InDrain(th) => /\ reg'[th].tab = reg[th].tab
                        /\ Releasing(th)' <=> Releasing(th)
                        /\ pc'[th] = "drainwait" <=> pc[th] = "drainwait"
  PROVE  DrainOK'
<1>1. \A u \in Threads : InDrain(u)' <=> InDrain(u)
  BY DEF OthersKeepPlace, InDrain, Releasing
<1>2. \A u \in Threads : InDrain(u) => /\ reg'[u].tab = reg[u].tab
                                       /\ Releasing(u)' <=> Releasing(u)
                                       /\ pc'[u] = "drainwait" <=> pc[u] = "drainwait"
  BY DEF OthersKeepPlace, InDrain, Releasing
<1> QED BY <1>1, <1>2 DEF DrainOK

\* A step that moves no reference.
LEMMA RefFrame ==
  ASSUME CountsExact, LifeOK, NEW th \in Threads, OthersKeepPlace(th), RowObj' = RowObj,
         refcount' = refcount, life' = life, held' = held, victims' = victims,
         pc[th] # "destroy", pc'[th] # "destroy"
  PROVE  CountsExact' /\ LifeOK'
<1>1. DestroyAt' = DestroyAt /\ VictimObj' = VictimObj
  BY DEF OthersKeepPlace, DestroyAt, VictimObj
<1> QED BY <1>1, CountPrimes DEF CountsExact, LifeOK

\* The counts of owners follow the one place that changes.
LEMMA HeldCount ==
  ASSUME TypeOK, NEW th \in Threads, NEW v, HoldRef(th, v)
  PROVE  /\ held'[th] = v /\ \A u \in Threads \ {th} : held'[u] = held[u]
         /\ \A o : Count(held', Threads, o) + One(held[th], o) = Count(held, Threads, o) + One(v, o)
<1>1. held'[th] = v /\ \A u \in Threads : u # th => held'[u] = held[u]
  BY DEF TypeOK, HoldRef
<1>2. OneChange(held, held', Threads, th)
  BY <1>1, ConstantFacts DEF OneChange
<1> QED BY <1>1, <1>2, CountUpdate

\* Changing one row of the tables moves one owner between two objects.
LEMMA RowCount ==
  ASSUME NEW r \in Rows, \A q \in Rows \ {r} : slots'[q].obj = slots[q].obj
  PROVE  \A o : Count(RowObj', Rows, o) + One(slots[r].obj, o) = Count(RowObj, Rows, o) + One(slots'[r].obj, o)
<1>1. \A q \in Rows : q # r => RowObj'[q] = RowObj[q]
  BY DEF RowObj
<1>2. RowObj[r] = slots[r].obj /\ RowObj'[r] = slots'[r].obj
  BY DEF RowObj
<1>3. OneChange(RowObj, RowObj', Rows, r)
  BY <1>1, ConstantFacts DEF OneChange
<1>4. \A o : Count(RowObj', Rows, o) + One(RowObj[r], o) = Count(RowObj, Rows, o) + One(RowObj'[r], o)
  BY <1>3, CountUpdate
<1> QED BY <1>2, <1>4

\* The counts are numbers, and an owner makes them positive.
LEMMA CountFacts ==
  ASSUME TypeOK
  PROVE  /\ \A r : Count(PinAt, Threads, r) \in Nat
         /\ \A t : Count(BusyAt, Threads, t) \in Nat
         /\ \A o : Count(DestroyAt, Threads, o) \in Nat
         /\ \A o : Count(RowObj, Rows, o) \in Nat
         /\ \A o : Count(held, Threads, o) \in Nat
         /\ \A o : Count(VictimObj, VictimPlaces, o) \in Nat
         /\ \A th \in Threads : PinAt[th] = IF pc[th] \in Pinned THEN Row(th) ELSE NoRow
         /\ \A th \in Threads : BusyAt[th] = IF pc[th] \in Busy THEN reg[th].tab ELSE NULL
         /\ \A th \in Threads : DestroyAt[th] = IF pc[th] = "destroy" THEN reg[th].ptr ELSE NULL
BY CountNat, ConstantFacts DEF PinAt, BusyAt, DestroyAt

\* An object that a row, a thread or a drain victim names has a count and storage.
LEMMA OwnedIsAlive ==
  ASSUME IInv, NEW o \in Objects,
         \/ \E r \in Rows : slots[r].obj = o
         \/ \E th \in Threads : held[th] = o
         \/ \E th \in Threads, i \in Slots : victims[th][i] = o
  PROVE  refcount[o] # 0 /\ refcount[o] \in Nat /\ life[o] = "alive"
<1>1. \/ Count(RowObj, Rows, o) # 0 \/ Count(held, Threads, o) # 0 \/ Count(VictimObj, VictimPlaces, o) # 0
  <2>1. CASE \E r \in Rows : slots[r].obj = o
    BY <2>1, CountNat, ConstantFacts DEF RowObj
  <2>2. CASE \E th \in Threads : held[th] = o
    BY <2>2, CountNat, ConstantFacts
  <2>3. CASE \E th \in Threads, i \in Slots : victims[th][i] = o
    <3>1. PICK th \in Threads, i \in Slots : victims[th][i] = o
      BY <2>3
    <3>2. <<th, i>> \in VictimPlaces /\ VictimObj[<<th, i>>] = o
      BY <3>1 DEF VictimObj, VictimPlaces
    <3> QED BY <3>2, CountNat, ConstantFacts
  <2> QED BY <2>1, <2>2, <2>3
<1>2. refcount[o] = Count(RowObj, Rows, o) + Count(held, Threads, o) + Count(VictimObj, VictimPlaces, o)
  BY DEF IInv, CountsExact
<1>3. refcount[o] # 0 /\ refcount[o] \in Nat
  BY <1>1, <1>2, CountFacts DEF IInv
<1> QED BY <1>3 DEF IInv, LifeOK

\* A thread with no reference takes a counted one.
LEMMA GainRef ==
  ASSUME TypeOK, CountsExact, NEW th \in Threads, NEW o \in Objects, held[th] = NULL, HoldRef(th, o),
         slots' = slots, victims' = victims, refcount' = [refcount EXCEPT ![o] = @ + 1]
  PROVE  CountsExact'
<1> SUFFICES ASSUME NEW p \in Objects
             PROVE refcount'[p] = Count(RowObj', Rows, p) + Count(held', Threads, p)
                                    + Count(VictimObj', VictimPlaces, p)
  BY CountPrimes
<1>1. RowObj' = RowObj /\ VictimObj' = VictimObj
  BY DEF RowObj, VictimObj
<1>2. One(held[th], p) = 0 /\ One(o, p) \in Nat
  BY ConstantFacts DEF One
<1>3. refcount'[p] = refcount[p] + One(o, p)
  BY DEF TypeOK, One
<1>4. Count(held', Threads, p) = Count(held, Threads, p) + One(o, p)
  <2>1. Count(held', Threads, p) \in Nat
    BY CountNat, ConstantFacts
  <2> QED BY <1>2, <2>1, HeldCount, CountFacts
<1> QED BY <1>1, <1>2, <1>3, <1>4, CountFacts DEF CountsExact

\* A thread drops the reference it holds.
LEMMA LoseRef ==
  ASSUME TypeOK, CountsExact, NEW th \in Threads, held[th] \in Objects, HoldRef(th, NULL),
         slots' = slots, victims' = victims, refcount' = [refcount EXCEPT ![held[th]] = @ - 1]
  PROVE  CountsExact'
<1> SUFFICES ASSUME NEW p \in Objects
             PROVE refcount'[p] = Count(RowObj', Rows, p) + Count(held', Threads, p)
                                    + Count(VictimObj', VictimPlaces, p)
  BY CountPrimes
<1>1. RowObj' = RowObj /\ VictimObj' = VictimObj
  BY DEF RowObj, VictimObj
<1>2. One(NULL, p) = 0 /\ One(held[th], p) \in Nat
  BY ConstantFacts DEF One
<1>3. refcount'[p] = refcount[p] - One(held[th], p)
  BY DEF TypeOK, One
<1>4. Count(held', Threads, p) = Count(held, Threads, p) - One(held[th], p)
  <2>1. Count(held', Threads, p) \in Nat
    BY CountNat, ConstantFacts
  <2> QED BY <1>2, <2>1, HeldCount, CountFacts
<1> QED BY <1>1, <1>2, <1>3, <1>4, CountFacts DEF CountsExact

\* The values locals, tickets, rows and victim arrays are reset to are well typed.
LEMMA ResetTypes ==
  /\ NoReg \in Locals /\ NoTicket \in Reservation /\ FreshSlot \in HandleSlot
  /\ NoVictims \in [Slots -> Objects \cup {NULL}]
BY ConstantsAssumption DEF NoReg, Locals, NoTicket, Reservation, FreshSlot, HandleSlot, NoVictims, PCs, Resting,
   SlotStates, kHandleRightAll

-----------------------------------------------------------------------------
(* kobject.cpp *)

\* KObjectInit gives a new object one owner, its creator.
LEMMA KObjectInitStep ==
  ASSUME IInv, NEW th \in Threads, KObjectInit(th), spent' \subseteq Tokens
  PROVE  IInv'
<1>1. PICK o \in Objects : /\ life[o] = "unborn"
                           /\ life' = [life EXCEPT ![o] = "alive"]
                           /\ refcount' = [refcount EXCEPT ![o] = 1]
                           /\ HoldRef(th, o)
  BY DEF KObjectInit
<1>2. /\ pc[th] = "idle" /\ slots' = slots /\ tab' = tab /\ victims' = victims /\ ticket' = ticket
      /\ lastNonce' = lastNonce
  BY DEF KObjectInit, tableVars
<1>3. pc'[th] = "using" /\ reg'[th] = NoReg /\ OthersKeepPlace(th)
  BY GotoFrame DEF IInv, KObjectInit, Rest
<1>4. held[th] = NULL /\ victims[th] = NoVictims
  BY <1>2 DEF IInv, LocalsOK, ThreadOK, Owning, Releasing
<1>5. TypeOK'
  BY <1>1, <1>2, ResetTypes, ConstantsAssumption DEF IInv, TypeOK, KObjectInit, Rest, Goto, HoldRef, PCs, Resting
<1>6. LocalsOK'
  <2>1. ThreadOK(th)'
    BY <1>1, <1>2, <1>3, <1>4, HeldCount, ConstantFacts
    DEF IInv, LocalsOK, ThreadOK, Owning, Busy, Pinned, Closers, Releasing, InDrain, NoTicket, NoVictims
  <2> QED BY <1>1, <1>2, <1>3, <2>1, HeldCount, LocalsFrame DEF IInv
<1>7. TableInv' /\ DrainOK'
  BY <1>2, <1>3, TableFrame, DrainFrame DEF IInv, Busy, Pinned, Closers, InDrain, Releasing
<1>8. refcount[o] = 0
  BY <1>1 DEF IInv, LifeOK
<1>9. CountsExact'
  <2>1. refcount' = [refcount EXCEPT ![o] = @ + 1]
    BY <1>1, <1>8 DEF IInv, TypeOK
  <2> QED BY <1>1, <1>2, <1>4, <2>1, GainRef DEF IInv
<1>10. LifeOK'
  <2>1. DestroyAt' = DestroyAt
    BY <1>2, <1>3 DEF DestroyAt, OthersKeepPlace
  <2> QED BY <1>1, <1>8, <2>1, CountPrimes DEF IInv, LifeOK, TypeOK
<1> QED BY <1>5, <1>6, <1>7, <1>9, <1>10 DEF IInv

\* KObjectAcquire outside table.lock finds its object alive, because the row is pinned.
LEMMA KObjectAcquireStep ==
  ASSUME IInv, NEW th \in Threads, KObjectAcquire(th), spent' \subseteq Tokens
  PROVE  IInv'
<1> DEFINE o == reg[th].ptr
           l == [reg[th] EXCEPT !.retained = Retainable(o)]
<1>1. /\ pc[th] = "acquire" /\ slots' = slots /\ tab' = tab /\ victims' = victims /\ ticket' = ticket
      /\ lastNonce' = lastNonce /\ life' = life
      /\ refcount' = IF Retainable(o) THEN [refcount EXCEPT ![o] = @ + 1] ELSE refcount
      /\ held' = IF Retainable(o) THEN [held EXCEPT ![th] = o] ELSE held
      /\ Goto(th, "unpin", l)
  BY DEF KObjectAcquire, tableVars
<1>2. pc'[th] = "unpin" /\ reg'[th] = l /\ OthersKeepPlace(th)
  BY <1>1, GotoFrame DEF IInv
<1>3. reg[th] \in Locals
  BY DEF IInv, TypeOK
<1>4. /\ l.tab = reg[th].tab /\ l.slot = reg[th].slot /\ l.ptr = o /\ l.cont = reg[th].cont
      /\ l.dst = reg[th].dst /\ l.retained = Retainable(o) /\ l \in Locals
  BY <1>3 DEF Locals, Retainable
<1>5. /\ held[th] = NULL /\ victims[th] = NoVictims /\ o \in Objects
      /\ reg[th].tab \in Tables /\ reg[th].slot \in Slots
  BY <1>1 DEF IInv, LocalsOK, ThreadOK, Owning, Releasing, Pinned, Busy
<1> HIDE DEF o, l
<1>6. TypeOK'
  <2>1. refcount \in [Objects -> 0..kU32Max] /\ kU32Max \in Nat
    BY ConstantsAssumption DEF IInv, TypeOK
  <2>2. refcount' \in [Objects -> 0..kU32Max]
    BY <1>1, <1>5, <2>1 DEF Retainable
  <2> QED BY <1>1, <1>4, <1>5, <2>2 DEF IInv, TypeOK, Goto, PCs, Pinned
<1>7. LocalsOK'
  <2>1. /\ held'[th] = IF Retainable(o) THEN o ELSE NULL
        /\ \A u \in Threads \ {th} : held'[u] = held[u]
    BY <1>1, <1>5 DEF IInv, TypeOK
  <2>2. ThreadOK(th)'
    BY <1>1, <1>2, <1>4, <1>5, <2>1, ConstantFacts
    DEF IInv, LocalsOK, ThreadOK, Owning, Busy, Pinned, Closers, Releasing, InDrain, NoTicket, NoVictims
  <2> QED BY <1>1, <1>2, <2>1, <2>2, LocalsFrame DEF IInv
<1>8. TableInv'
  <2>1. PinAt' = PinAt /\ BusyAt' = BusyAt
    BY <1>1, <1>2, <1>4 DEF PinAt, BusyAt, OthersKeepPlace, Row, Pinned, Busy
  <2>2. PinsExact' /\ OpsExact'
    BY <1>1, <2>1, CountPrimes DEF IInv, TableInv, PinsExact, OpsExact
  <2>3. RowsOK' /\ PinnedRows'
    BY <1>1, <1>2, <1>4 DEF IInv, TableInv, RowsOK, PinnedRows, OthersKeepPlace, Pinned, Row, o
  <2>4. ClosingRows'
    <3>1. \A u \in Threads : pc'[u] \in Closers <=> pc[u] \in Closers
      BY <1>1, <1>2 DEF OthersKeepPlace, Closers
    <3>2. \A u \in Threads : pc[u] \in Closers => pc'[u] = pc[u] /\ reg'[u] = reg[u] /\ Row(u)' = Row(u)
      BY <1>1 , <1>2 DEF OthersKeepPlace, Closers, Row
    <3> QED BY <1>1, <3>1, <3>2 DEF IInv, TableInv, ClosingRows
  <2> QED BY <2>2, <2>3, <2>4 DEF TableInv
<1>9. DrainOK'
  BY <1>1, <1>2, DrainFrame DEF IInv, InDrain, Releasing
<1>10. DestroyAt' = DestroyAt
  BY <1>1, <1>2 DEF DestroyAt, OthersKeepPlace
<1>11. CASE Retainable(o)
  <2>1. CountsExact'
    BY <1>1, <1>5, <1>11, GainRef DEF IInv, HoldRef
  <2>2. LifeOK'
    BY <1>1, <1>5, <1>10, <1>11, CountPrimes DEF IInv, LifeOK, TypeOK, Retainable
  <2> QED BY <1>6, <1>7, <1>8, <1>9, <2>1, <2>2 DEF IInv
<1>12. CASE ~Retainable(o)
  <2>1. CountsExact' /\ LifeOK'
    BY <1>1, <1>2, <1>12, RefFrame DEF IInv, RowObj
  <2> QED BY <1>6, <1>7, <1>8, <1>9, <2>1 DEF IInv
<1> QED BY <1>11, <1>12

\* KObjectRelease takes one owner away, and sends the last one to the destroy callback.
LEMMA KObjectReleaseStep ==
  ASSUME IInv, NEW th \in Threads, KObjectRelease(th), spent' \subseteq Tokens
  PROVE  IInv'
<1> DEFINE o == held[th]
           l == IF ReachesZero(o) THEN [reg[th] EXCEPT !.ptr = o, !.cont = "idle"] ELSE NoReg
           to == IF ReachesZero(o) THEN "destroy" ELSE "idle"
<1>1. /\ pc[th] \in {"using", "release"} /\ slots' = slots /\ tab' = tab /\ victims' = victims
      /\ ticket' = ticket /\ lastNonce' = lastNonce /\ life' = life
      /\ HoldRef(th, NULL) /\ DropRef(th, o, "idle")
  BY DEF KObjectRelease, tableVars
<1>2. o \in Objects /\ victims[th] = NoVictims
  BY <1>1 DEF IInv, LocalsOK, ThreadOK, Owning, Releasing, TypeOK
<1>3. refcount[o] # 0 /\ refcount[o] \in Nat /\ life[o] = "alive"
  BY <1>2, OwnedIsAlive
<1>4. refcount' = [refcount EXCEPT ![o] = @ - 1] /\ Goto(th, to, l)
  BY <1>1, <1>3 DEF DropRef
<1>5. reg[th] \in Locals
  BY DEF IInv, TypeOK
<1>6. /\ l \in Locals
      /\ to = "destroy" => l.ptr = o /\ l.cont = "idle"
      /\ to \in {"destroy", "idle"} /\ (to = "destroy" <=> refcount[o] = 1)
  <2>1. o \in Objects \cup {NULL} /\ "idle" \in PCs
    BY <1>2 DEF PCs, Resting
  <2>2. [reg[th] EXCEPT !.ptr = o, !.cont = "idle"] \in Locals
    BY <1>5, <2>1, Zenon DEF Locals
  <2>3. /\ [reg[th] EXCEPT !.ptr = o, !.cont = "idle"].ptr = o
        /\ [reg[th] EXCEPT !.ptr = o, !.cont = "idle"].cont = "idle"
    BY <1>5, Zenon DEF Locals
  <2>4. l \in Locals /\ (to = "destroy" => l.ptr = o /\ l.cont = "idle")
    BY <2>2, <2>3, ResetTypes
  <2> QED BY <2>4 DEF ReachesZero
<1> HIDE DEF o, l, to
<1>7. pc'[th] = to /\ reg'[th] = l /\ OthersKeepPlace(th)
  BY <1>4, GotoFrame DEF IInv
<1>8. TypeOK'
  <2>1. refcount \in [Objects -> 0..kU32Max] /\ kU32Max \in Nat
    BY ConstantsAssumption DEF IInv, TypeOK
  <2>2. refcount' \in [Objects -> 0..kU32Max]
    BY <1>2, <1>3, <1>4, <2>1
  <2> QED BY <1>1, <1>4, <1>6, <2>2 DEF IInv, TypeOK, Goto, HoldRef, PCs, Resting
<1>9. held'[th] = NULL /\ \A u \in Threads \ {th} : held'[u] = held[u]
  BY <1>1, HeldCount DEF IInv
<1>10. LocalsOK'
  <2>1. ThreadOK(th)'
    BY <1>1, <1>2, <1>6, <1>7, <1>9
    DEF IInv, LocalsOK, ThreadOK, Owning, Busy, Pinned, Closers, Releasing, InDrain, NoTicket, NoVictims
  <2> QED BY <1>1, <1>7, <1>9, <2>1, LocalsFrame DEF IInv
<1>11. TableInv'
  BY <1>1, <1>6, <1>7, TableFrame DEF IInv, Busy, Pinned, Closers
<1>12. DrainOK'
  BY <1>1, <1>6, <1>7, DrainFrame DEF IInv, InDrain, Releasing
<1>13. CountsExact'
  BY <1>1, <1>2, <1>4, LoseRef DEF IInv, o
<1>14. LifeOK'
  <2> SUFFICES ASSUME NEW p \in Objects
               PROVE /\ refcount'[p] # 0 => life'[p] = "alive"
                     /\ Count(DestroyAt', Threads, p) = IF life'[p] = "alive" /\ refcount'[p] = 0 THEN 1 ELSE 0
    BY CountPrimes
  <2>1. DestroyAt[th] = NULL /\ DestroyAt'[th] = IF to = "destroy" THEN o ELSE NULL
    BY <1>1, <1>6, <1>7 DEF DestroyAt
  <2>2. Count(DestroyAt', Threads, p) = Count(DestroyAt, Threads, p) + IF to = "destroy" /\ p = o THEN 1 ELSE 0
    <3>1. Count(DestroyAt', Threads, p) \in Nat /\ Count(DestroyAt, Threads, p) \in Nat
      BY CountNat, ConstantFacts
    <3> QED BY <1>7, <2>1, <3>1, ThreadCounts, ConstantFacts DEF One
  <2>3. /\ refcount[p] # 0 => life[p] = "alive"
        /\ Count(DestroyAt, Threads, p) = IF life[p] = "alive" /\ refcount[p] = 0 THEN 1 ELSE 0
    BY DEF IInv, LifeOK
  <2>4. refcount'[p] = IF p = o THEN refcount[o] - 1 ELSE refcount[p]
    BY <1>4 DEF IInv, TypeOK
  <2> QED BY <1>1, <1>3, <1>6, <2>2, <2>3, <2>4
<1> QED BY <1>8, <1>10, <1>11, <1>12, <1>13, <1>14 DEF IInv

\* The destroy callback frees an object that has no owner.
LEMMA DestroyCallbackStep ==
  ASSUME IInv, NEW th \in Threads, DestroyCallback(th), spent' \subseteq Tokens
  PROVE  IInv'
<1> DEFINE o == reg[th].ptr
           to == reg[th].cont
           l == IF to = "drainrelease" THEN [reg[th] EXCEPT !.ptr = NULL, !.cont = "idle"] ELSE NoReg
<1>1. /\ pc[th] = "destroy" /\ slots' = slots /\ tab' = tab /\ victims' = victims /\ held' = held
      /\ ticket' = ticket /\ lastNonce' = lastNonce /\ refcount' = refcount
      /\ life' = [life EXCEPT ![o] = "freed"] /\ Goto(th, to, l)
  BY DEF DestroyCallback, tableVars
<1>2. /\ o \in Objects /\ to \in {"idle", "drainrelease"} /\ held[th] = NULL
      /\ to = "idle" => victims[th] = NoVictims
      /\ to = "drainrelease" => reg[th].tab \in Tables
  BY <1>1 DEF IInv, LocalsOK, ThreadOK, Owning, Releasing, InDrain
<1>3. reg[th] \in Locals
  BY DEF IInv, TypeOK
<1>4. l \in Locals /\ (to = "drainrelease" => l.tab = reg[th].tab)
  <2>1. NULL \in Objects \cup {NULL} /\ "idle" \in PCs
    BY DEF PCs, Resting
  <2>2. [reg[th] EXCEPT !.ptr = NULL, !.cont = "idle"] \in Locals
    BY <1>3, <2>1, Zenon DEF Locals
  <2>3. [reg[th] EXCEPT !.ptr = NULL, !.cont = "idle"].tab = reg[th].tab
    BY <1>3, Zenon DEF Locals
  <2> QED BY <2>2, <2>3, ResetTypes
<1>5. pc'[th] = to /\ reg'[th] = l /\ OthersKeepPlace(th)
  BY <1>1, GotoFrame DEF IInv
<1>6. Releasing(th) <=> to = "drainrelease"
  BY <1>1 DEF Releasing
<1> HIDE DEF o, l, to
<1>7. Releasing(th)' <=> to = "drainrelease"
  BY <1>2, <1>5 DEF Releasing
<1>8. TypeOK'
  BY <1>1, <1>2, <1>4 DEF IInv, TypeOK, Goto, PCs, Resting
<1>9. LocalsOK'
  <2>1. ThreadOK(th)'
    BY <1>1, <1>2, <1>4, <1>5, <1>7
    DEF IInv, LocalsOK, ThreadOK, Owning, Busy, Pinned, Closers, InDrain, NoTicket, NoVictims
  <2> QED BY <1>1, <1>5, <2>1, LocalsFrame DEF IInv
<1>10. TableInv'
  BY <1>1, <1>2, <1>5, TableFrame DEF IInv, Busy, Pinned, Closers
<1>11. DrainOK'
  <2>1. InDrain(th) <=> to = "drainrelease"
    BY <1>1, <1>6 DEF InDrain
  <2>2. InDrain(th)' <=> to = "drainrelease"
    BY <1>2, <1>5, <1>7 DEF InDrain
  <2> QED BY <1>1, <1>2, <1>4, <1>5, <1>6, <1>7, <2>1, <2>2, DrainFrame DEF IInv
<1>12. CountsExact'
  <2>1. RowObj' = RowObj /\ VictimObj' = VictimObj
    BY <1>1 DEF RowObj, VictimObj
  <2> QED BY <1>1, <2>1, CountPrimes DEF IInv, CountsExact
<1>13. LifeOK'
  <2> SUFFICES ASSUME NEW p \in Objects
               PROVE /\ refcount'[p] # 0 => life'[p] = "alive"
                     /\ Count(DestroyAt', Threads, p) = IF life'[p] = "alive" /\ refcount'[p] = 0 THEN 1 ELSE 0
    BY CountPrimes
  <2>1. DestroyAt[th] = o /\ DestroyAt'[th] = NULL
    BY <1>1, <1>2, <1>5 DEF DestroyAt, o
  <2>2. Count(DestroyAt', Threads, p) + (IF p = o THEN 1 ELSE 0) = Count(DestroyAt, Threads, p)
    <3>1. Count(DestroyAt', Threads, p) \in Nat /\ Count(DestroyAt, Threads, p) \in Nat
      BY CountNat, ConstantFacts
    <3> QED BY <1>5, <2>1, <3>1, ThreadCounts, ConstantFacts DEF One
  <2>3. /\ refcount[p] # 0 => life[p] = "alive"
        /\ Count(DestroyAt, Threads, p) = IF life[p] = "alive" /\ refcount[p] = 0 THEN 1 ELSE 0
    BY DEF IInv, LifeOK
  <2>4. life'[p] = IF p = o THEN "freed" ELSE life[p]
    BY <1>1 DEF IInv, TypeOK
  <2>5. Count(DestroyAt', Threads, p) \in Nat
    BY CountNat, ConstantFacts
  <2> QED BY <1>1, <2>2, <2>3, <2>4, <2>5
<1> QED BY <1>8, <1>9, <1>10, <1>11, <1>12, <1>13 DEF IInv

-----------------------------------------------------------------------------
(* Steps that only fill empty rows of open tables or rewrite a row in place *)

\* No object leaves a row, no counter moves, no row starts or ends closing.
KeepRows ==
  \A r \in Rows :
    /\ slots[r].obj # NULL => slots'[r].obj = slots[r].obj
    /\ slots'[r].pins = slots[r].pins
    /\ slots'[r].state = "Closing" <=> slots[r].state = "Closing"
    /\ slots[r].state = "Closing" => slots'[r].generation = slots[r].generation
KeepTables == \A t \in Tables : tab'[t].ops = tab[t].ops

\* No table changes state, and one that is not open gets no operation and no object.
DrainSafe ==
  /\ \A t \in Tables : /\ tab'[t].state = tab[t].state
                       /\ tab[t].state # "Open" /\ tab[t].ops = 0 => tab'[t].ops = 0
  /\ \A r \in Rows : tab[r[1]].state # "Open" /\ slots[r].obj = NULL => slots'[r].obj = NULL

\* A thread inside a lookup or a close names a row of an existing table.
LEMMA BusyRows ==
  ASSUME LocalsOK, NEW th \in Threads, pc[th] \in Busy
  PROVE  Row(th) \in Rows /\ reg[th].tab \in Tables
BY DEF LocalsOK, ThreadOK, Row, Rows

\* The row and counter invariants survive a step of a thread that is in no operation.
LEMMA TableKeep ==
  ASSUME TableInv, LocalsOK, NEW th \in Threads, OthersKeepPlace(th), KeepRows, KeepTables, RowsOK',
         pc[th] \notin Busy, pc'[th] \notin Busy
  PROVE  TableInv'
<1>1. PinAt' = PinAt /\ BusyAt' = BusyAt
  BY DEF OthersKeepPlace, PinAt, BusyAt, Row, Busy
<1>2. PinsExact' /\ OpsExact'
  BY <1>1, CountPrimes DEF PinsExact, OpsExact, TableInv, KeepRows, KeepTables
<1>3. \A u \in Threads : /\ pc'[u] \in Closers <=> pc[u] \in Closers
                         /\ pc'[u] \in Pinned <=> pc[u] \in Pinned
  BY DEF OthersKeepPlace, Busy
<1>4. \A u \in Threads : pc[u] \in Busy => pc'[u] = pc[u] /\ reg'[u] = reg[u] /\ Row(u)' = Row(u)
  BY DEF OthersKeepPlace, Row
<1>5. PinnedRows'
  <2> SUFFICES ASSUME NEW u \in Threads, pc'[u] \in Pinned PROVE slots'[Row(u)'].obj = reg'[u].ptr
    BY DEF PinnedRows
  <2>1. pc[u] \in Pinned /\ pc[u] \in Busy /\ Row(u) \in Rows
    BY <1>3, BusyRows DEF Busy
  <2>2. slots[Row(u)].obj = reg[u].ptr /\ reg[u].ptr # NULL
    BY <2>1, ConstantFacts DEF TableInv, PinnedRows, LocalsOK, ThreadOK
  <2> QED BY <1>4, <2>1, <2>2 DEF KeepRows
<1>6. ClosingRows'
  <2>1. \A u \in Threads : pc[u] \in Closers => pc[u] \in Busy /\ Row(u) \in Rows
    BY BusyRows DEF Busy
  <2>2. \A r \in Rows : slots'[r].state = "Closing" => \E u \in Threads : pc'[u] \in Closers /\ Row(u)' = r
    BY <1>3, <1>4, <2>1 DEF TableInv, ClosingRows, KeepRows
  <2>3. \A u \in Threads : pc'[u] \in Closers =>
          /\ slots'[Row(u)'].state = "Closing" /\ slots'[Row(u)'].generation = reg'[u].gen
          /\ pc'[u] = "adopting" => reg'[u].gen # kHandleGenerationMax
    BY <1>3, <1>4, <2>1 DEF TableInv, ClosingRows, KeepRows
  <2>4. \A u, w \in Threads : pc'[u] \in Closers /\ pc'[w] \in Closers /\ Row(w)' = Row(u)' => w = u
    BY <1>3, <1>4, <2>1 DEF TableInv, ClosingRows
  <2> QED BY <2>2, <2>3, <2>4 DEF ClosingRows
<1> QED BY <1>2, <1>5, <1>6 DEF TableInv

\* The stages of a drain survive a step of a thread that drains nothing.
LEMMA DrainKeep ==
  ASSUME DrainOK, LocalsOK, NEW th \in Threads, OthersKeepPlace(th), DrainSafe, ~InDrain(th), ~InDrain(th)'
  PROVE  DrainOK'
<1>1. \A u \in Threads : InDrain(u)' <=> InDrain(u)
  BY DEF OthersKeepPlace, InDrain, Releasing
<1>2. \A u \in Threads : InDrain(u) =>
        /\ pc'[u] = pc[u] /\ reg'[u] = reg[u] /\ (Releasing(u)' <=> Releasing(u)) /\ reg[u].tab \in Tables
  BY DEF OthersKeepPlace, InDrain, Releasing, LocalsOK, ThreadOK
<1>3. \A t \in Tables, i \in Slots :
        tab[t].state # "Open" /\ slots[<<t, i>>].obj = NULL => slots'[<<t, i>>].obj = NULL
  BY DEF DrainSafe, Rows
<1>4. \A u \in Threads : InDrain(u)' =>
       /\ tab'[reg'[u].tab].state = "Draining"
       /\ \A w \in Threads : InDrain(w)' /\ reg'[w].tab = reg'[u].tab => w = u
       /\ pc'[u] # "drainwait" => tab'[reg'[u].tab].ops = 0
       /\ Releasing(u)' => \A i \in Slots : slots'[<<reg'[u].tab, i>>].obj = NULL
  BY <1>1, <1>2, <1>3 DEF DrainOK, DrainSafe
<1>5. \A t \in Tables : tab'[t].state = "Closed" =>
       tab'[t].ops = 0 /\ \A i \in Slots : slots'[<<t, i>>].obj = NULL
  BY <1>3 DEF DrainOK, DrainSafe
<1> QED BY <1>4, <1>5 DEF DrainOK

\* A row without an object carries no pin.
LEMMA EmptyUnpinned ==
  ASSUME IInv, NEW r \in Rows, slots[r].obj = NULL
  PROVE  slots[r].pins = 0
<1>1. \A u \in Threads : PinAt[u] # r
  <2> SUFFICES ASSUME NEW u \in Threads, PinAt[u] = r PROVE FALSE
    OBVIOUS
  <2>1. pc[u] \in Pinned /\ Row(u) = r
    BY ConstantFacts DEF PinAt
  <2> QED BY <2>1, ConstantFacts DEF IInv, TableInv, PinnedRows, LocalsOK, ThreadOK
<1>2. Count(PinAt, Threads, r) = 0
  BY <1>1, CountNat, ConstantFacts
<1> QED BY <1>2 DEF IInv, TableInv, PinsExact

\* Rows the allocation scan passes keep everything but their state.
LEMMA RetireKeeps ==
  ASSUME IInv, NEW t \in Tables, NEW passed, NEW r \in Rows
  PROVE  /\ RetirePassed(t, passed)[r].obj = slots[r].obj
         /\ RetirePassed(t, passed)[r].pins = slots[r].pins
         /\ RetirePassed(t, passed)[r].generation = slots[r].generation
         /\ RetirePassed(t, passed)[r].rights = slots[r].rights
         /\ RetirePassed(t, passed)[r].nonce = slots[r].nonce
         /\ RetirePassed(t, passed)[r].rtype = slots[r].rtype
         /\ \/ RetirePassed(t, passed)[r].state = slots[r].state
            \/ slots[r].state = "Free" /\ RetirePassed(t, passed)[r].state = "Retired"
         /\ RetirePassed(t, passed)[r] \in HandleSlot
<1>1. slots[r] \in HandleSlot
  BY DEF IInv, TypeOK
<1> QED BY <1>1 DEF RetirePassed, HandleSlot, SlotStates

\* An insert or a reserve fills a Free row of an open table.
LEMMA ClaimKeeps ==
  ASSUME IInv, NEW t \in Tables, NEW i \in Slots, IsOpen(t), FirstUsable(t, i),
         NEW s \in HandleSlot, s.pins = 0, s.state \in {"Live", "Reserved"}, s.obj # NULL <=> s.state = "Live",
         ClaimRow(t, i, s)
  PROVE  /\ slots' \in [Rows -> HandleSlot] /\ tab' \in [Tables -> TableHeader]
         /\ KeepRows /\ KeepTables /\ DrainSafe /\ RowsOK'
         /\ <<t, i>> \in Rows /\ slots[<<t, i>>].obj = NULL /\ slots'[<<t, i>>].obj = s.obj
         /\ \A q \in Rows \ {<<t, i>>} : slots'[q].obj = slots[q].obj
         /\ slots[<<t, i>>].generation + 1 \in 0..kHandleGenerationMax
<1> DEFINE r == <<t, i>>
           passed == [j \in Slots |-> ScanDistance(t, j) < ScanDistance(t, i)]
           s2 == [s EXCEPT !.generation = slots[r].generation + 1]
<1>1. r \in Rows
  BY DEF Rows
<1>2. slots[r].state = "Free" /\ slots[r].generation # kHandleGenerationMax /\ slots[r] \in HandleSlot
  BY <1>1 DEF FirstUsable, Usable, IInv, TypeOK
<1>3. slots[r].obj = NULL /\ slots[r].pins = 0
  BY <1>1, <1>2, EmptyUnpinned DEF IInv, TableInv, RowsOK
<1>4. slots[r].generation + 1 \in 0..kHandleGenerationMax
  BY <1>2, ConstantsAssumption DEF HandleSlot
<1>5. /\ s2 \in HandleSlot /\ s2.obj = s.obj /\ s2.pins = 0 /\ s2.state = s.state
  BY <1>4 DEF HandleSlot
<1>6. slots' = [RetirePassed(t, passed) EXCEPT ![r] = s2] /\ tab' = [tab EXCEPT ![t].hint = i]
  BY DEF ClaimRow
<1> HIDE DEF r, s2, passed
<1>7. slots'[r] = s2 /\ \A q \in Rows : q # r => slots'[q] = RetirePassed(t, passed)[q]
  BY <1>1, <1>6 DEF RetirePassed
<1>8. slots' \in [Rows -> HandleSlot]
  <2>1. \A q \in Rows : slots'[q] \in HandleSlot
    BY <1>5, <1>7, RetireKeeps
  <2>2. slots' = [q \in Rows |-> slots'[q]]
    BY <1>6 DEF RetirePassed
  <2> QED BY <2>1, <2>2
<1>9. tab' \in [Tables -> TableHeader] /\ KeepTables
  <2>1. tab \in [Tables -> TableHeader] /\ i \in 0..(kHandleTableCapacity - 1)
    BY ConstantFacts DEF IInv, TypeOK
  <2>2. tab' \in [Tables -> TableHeader]
    BY <1>6, <2>1 DEF TableHeader
  <2>3. KeepTables
    BY <1>6, <2>1 DEF TableHeader, KeepTables
  <2> QED BY <2>2, <2>3
<1>10. KeepRows
  <2> SUFFICES ASSUME NEW q \in Rows
               PROVE /\ slots[q].obj # NULL => slots'[q].obj = slots[q].obj
                     /\ slots'[q].pins = slots[q].pins
                     /\ slots'[q].state = "Closing" <=> slots[q].state = "Closing"
                     /\ slots[q].state = "Closing" => slots'[q].generation = slots[q].generation
    BY DEF KeepRows
  <2>1. CASE q = r
    BY <1>2, <1>3, <1>5, <1>7, <2>1
  <2>2. CASE q # r
    BY <1>7, <2>2, RetireKeeps
  <2> QED BY <2>1, <2>2
<1>11. RowsOK'
  <2> SUFFICES ASSUME NEW q \in Rows
               PROVE /\ slots'[q].obj # NULL <=> slots'[q].state \in {"Live", "Closing"}
                     /\ slots'[q].state = "Free" =>
                          slots'[q].rights = {} /\ slots'[q].nonce = 0 /\ slots'[q].rtype = "Invalid"
    BY DEF RowsOK
  <2>1. CASE q = r
    BY <1>5, <1>7, <2>1
  <2>2. CASE q # r
    BY <1>7, <2>2, RetireKeeps DEF IInv, TableInv, RowsOK
  <2> QED BY <2>1, <2>2
<1>12. \A q \in Rows \ {r} : slots'[q].obj = slots[q].obj
  BY <1>7, RetireKeeps
<1>13. DrainSafe
  <2>1. \A q \in Rows : tab[q[1]].state # "Open" => q # r
    BY DEF IsOpen, r
  <2>2. \A u \in Tables : tab'[u].state = tab[u].state
    BY <1>6 DEF IInv, TypeOK, TableHeader
  <2> QED BY <1>9, <1>12, <2>1, <2>2 DEF DrainSafe, KeepTables
<1> QED BY <1>1, <1>3, <1>4, <1>5, <1>7, <1>8, <1>9, <1>10, <1>11, <1>12, <1>13 DEF r

\* Nothing changes in the tables.
LEMMA UnchangedKeeps ==
  ASSUME IInv, slots' = slots, tab' = tab
  PROVE  /\ slots' \in [Rows -> HandleSlot] /\ tab' \in [Tables -> TableHeader]
         /\ KeepRows /\ KeepTables /\ DrainSafe /\ RowsOK' /\ RowObj' = RowObj
BY DEF IInv, TypeOK, KeepRows, KeepTables, DrainSafe, TableInv, RowsOK, RowObj

\* A step in which no reference and no counter moves and no drain advances.
LEMMA QuietStep ==
  ASSUME IInv, NEW th \in Threads, NEW to \in PCs, NEW l \in Locals, Goto(th, to, l), spent' \subseteq Tokens,
         slots' \in [Rows -> HandleSlot], tab' \in [Tables -> TableHeader],
         KeepRows, KeepTables, DrainSafe, RowsOK', RowObj' = RowObj,
         refcount' = refcount, life' = life, held' = held, victims' = victims,
         ticket' \in [Threads -> Reservation], \A u \in Threads \ {th} : ticket'[u] = ticket[u],
         lastNonce' \in 0..kNonceMax,
         ThreadOK(th)', pc[th] \notin Busy \cup {"destroy"}, to \notin Busy \cup {"destroy"},
         ~InDrain(th), ~InDrain(th)'
  PROVE  IInv'
<1>1. pc'[th] = to /\ reg'[th] = l /\ OthersKeepPlace(th)
  BY GotoFrame DEF IInv
<1>2. TypeOK'
  BY DEF IInv, TypeOK, Goto
<1>3. LocalsOK'
  BY <1>1, LocalsFrame DEF IInv
<1>4. TableInv'
  BY <1>1, TableKeep DEF IInv
<1>5. DrainOK'
  BY <1>1, DrainKeep DEF IInv
<1>6. CountsExact' /\ LifeOK'
  BY <1>1, RefFrame DEF IInv
<1> QED BY <1>2, <1>3, <1>4, <1>5, <1>6 DEF IInv

\* A thread and a row exchange their references; either may be none.
LEMMA SwapRef ==
  ASSUME TypeOK, CountsExact, NEW th \in Threads, NEW r \in Rows, HoldRef(th, slots[r].obj),
         slots'[r].obj = held[th], \A q \in Rows \ {r} : slots'[q].obj = slots[q].obj,
         victims' = victims, refcount' = refcount
  PROVE  CountsExact'
<1> SUFFICES ASSUME NEW p \in Objects
             PROVE refcount'[p] = Count(RowObj', Rows, p) + Count(held', Threads, p)
                                    + Count(VictimObj', VictimPlaces, p)
  BY CountPrimes
<1>1. VictimObj' = VictimObj
  BY DEF VictimObj
<1>2. One(slots[r].obj, p) \in Nat /\ One(held[th], p) \in Nat
  BY DEF One
<1>3. Count(held', Threads, p) + One(held[th], p) = Count(held, Threads, p) + One(slots[r].obj, p)
  BY HeldCount
<1>4. Count(RowObj', Rows, p) + One(slots[r].obj, p) = Count(RowObj, Rows, p) + One(held[th], p)
  BY RowCount
<1>5. Count(held', Threads, p) \in Nat /\ Count(RowObj', Rows, p) \in Nat
  BY CountNat, ConstantFacts
<1> QED BY <1>1, <1>2, <1>3, <1>4, <1>5, CountFacts DEF CountsExact

\* A step that moves the thread's reference into an empty row of an open table.
LEMMA FillStep ==
  ASSUME IInv, NEW th \in Threads, NEW r \in Rows, Rest(th, "idle"), HoldRef(th, NULL), spent' \subseteq Tokens,
         slots' \in [Rows -> HandleSlot], tab' \in [Tables -> TableHeader],
         KeepRows, KeepTables, DrainSafe, RowsOK',
         slots[r].obj = NULL, slots'[r].obj = held[th], \A q \in Rows \ {r} : slots'[q].obj = slots[q].obj,
         refcount' = refcount, life' = life, victims' = victims,
         ticket' \in [Threads -> Reservation], \A u \in Threads \ {th} : ticket'[u] = ticket[u],
         ticket'[th] # NoTicket => ticket'[th].slot \in Slots,
         lastNonce' = lastNonce, pc[th] \in {"using", "insert"}
  PROVE  IInv'
<1>1. pc'[th] = "idle" /\ reg'[th] = NoReg /\ OthersKeepPlace(th)
  BY GotoFrame DEF IInv, Rest
<1>2. TypeOK'
  BY ResetTypes DEF IInv, TypeOK, Rest, Goto, HoldRef, PCs, Resting
<1>3. held'[th] = NULL /\ \A u \in Threads \ {th} : held'[u] = held[u]
  BY HeldCount DEF IInv
<1>4. LocalsOK'
  <2>1. victims[th] = NoVictims
    BY DEF IInv, LocalsOK, ThreadOK, Releasing
  <2>2. ThreadOK(th)'
    BY <1>1, <1>3, <2>1
    DEF ThreadOK, Owning, Busy, Pinned, Closers, Releasing, InDrain, NoTicket, NoVictims
  <2> QED BY <1>1, <1>3, <2>2, LocalsFrame DEF IInv
<1>5. TableInv'
  BY <1>1, TableKeep DEF IInv, Busy, Pinned, Closers
<1>6. DrainOK'
  BY <1>1, DrainKeep DEF IInv, InDrain, Releasing
<1>7. CountsExact'
  BY SwapRef DEF IInv
<1>8. LifeOK'
  <2>1. DestroyAt' = DestroyAt
    BY <1>1 DEF DestroyAt, OthersKeepPlace
  <2> QED BY <2>1, CountPrimes DEF IInv, LifeOK
<1> QED BY <1>2, <1>4, <1>5, <1>6, <1>7, <1>8 DEF IInv

-----------------------------------------------------------------------------
(* Insert, reserve, publish, abort, replace *)

\* HandleTableInsert before its lock: only the caller moves.
LEMMA InsertCheckStep ==
  ASSUME IInv, NEW th \in Threads, NEW t \in Tables, NEW rights \in RequestableRights,
         InsertCheck(th, t, rights), spent' \subseteq Tokens
  PROVE  IInv'
<1> DEFINE l == [NoReg EXCEPT !.tab = t, !.want = rights, !.cont = "using", !.lineage = rights]
<1>1. l \in Locals /\ l.tab = t /\ l.cont = "using"
  BY ConstantsAssumption, ResetTypes DEF NoReg, Locals, PCs, Resting
<1>2. Goto(th, "insert", l) /\ pc[th] = "using"
  BY DEF InsertCheck
<1> HIDE DEF l
<1>3. pc'[th] = "insert" /\ reg'[th] = l
  BY <1>2, GotoFrame DEF IInv
<1>4. ThreadOK(th)'
  BY <1>1, <1>2, <1>3 DEF InsertCheck, IInv, LocalsOK, ThreadOK, Owning, Busy, Pinned, Closers, Releasing, InDrain,
     NoTicket, NoVictims
<1> QED BY <1>1, <1>2, <1>3, <1>4, QuietStep, UnchangedKeeps
        DEF InsertCheck, objVars, tableVars, IInv, TypeOK, PCs, Busy, Pinned, Closers, Releasing, InDrain

\* HandleTableInsert under its lock: a row adopts the caller's reference.
LEMMA InsertCommitStep ==
  ASSUME IInv, NEW th \in Threads, InsertCommit(th), spent' \subseteq Tokens
  PROVE  IInv'
<1> DEFINE t == reg[th].tab
           o == held[th]
           s == [FreshSlot EXCEPT !.obj = o, !.rights = reg[th].want, !.state = "Live",
                                  !.lineage = reg[th].lineage \cap reg[th].want]
<1>1. PICK i \in Slots : FirstUsable(t, i) /\ ClaimRow(t, i, s)
  BY DEF InsertCommit
<1>2. pc[th] = "insert" /\ IsOpen(t) /\ HoldRef(th, NULL) /\ Rest(th, "idle")
  BY DEF InsertCommit
<1>3. t \in Tables /\ o \in Objects /\ reg[th] \in Locals
  BY <1>2 DEF IInv, LocalsOK, ThreadOK, Owning, TypeOK
<1>4. s \in HandleSlot /\ s.pins = 0 /\ s.state = "Live" /\ s.obj = o /\ o # NULL
  BY <1>3, ResetTypes, ConstantFacts DEF FreshSlot, HandleSlot, Locals, SlotStates
<1> HIDE DEF t, s
<1>6. /\ slots' \in [Rows -> HandleSlot] /\ tab' \in [Tables -> TableHeader]
      /\ KeepRows /\ KeepTables /\ DrainSafe /\ RowsOK'
      /\ <<t, i>> \in Rows /\ slots[<<t, i>>].obj = NULL /\ slots'[<<t, i>>].obj = s.obj
      /\ \A q \in Rows \ {<<t, i>>} : slots'[q].obj = slots[q].obj
  BY <1>1, <1>2, <1>3, <1>4, ClaimKeeps
<1>7. ticket' = ticket /\ lastNonce' = lastNonce /\ refcount' = refcount /\ life' = life /\ victims' = victims
  BY DEF InsertCommit, objVars
<1>8. ticket' \in [Threads -> Reservation] /\ (ticket'[th] # NoTicket => ticket'[th].slot \in Slots)
  BY <1>7 DEF IInv, TypeOK, LocalsOK, ThreadOK
<1> QED BY <1>2, <1>4, <1>6, <1>7, <1>8, FillStep

\* A refused insert leaves the caller its reference.
LEMMA InsertFailStep ==
  ASSUME IInv, NEW th \in Threads, InsertFail(th), spent' \subseteq Tokens
  PROVE  IInv'
<1> DEFINE t == reg[th].tab
           to == reg[th].cont
<1>1. pc[th] = "insert" /\ Goto(th, to, NoReg) /\ to \in {"using", "release"} /\ t \in Tables
  BY DEF InsertFail, Rest, IInv, LocalsOK, ThreadOK
<1>2. /\ refcount' = refcount /\ life' = life /\ held' = held /\ victims' = victims
      /\ ticket' = ticket /\ lastNonce' = lastNonce
  BY DEF InsertFail, objVars
<1>3. /\ slots' \in [Rows -> HandleSlot] /\ tab' \in [Tables -> TableHeader]
      /\ KeepRows /\ KeepTables /\ DrainSafe /\ RowsOK' /\ RowObj' = RowObj
  <2>1. CASE slots' = slots /\ tab' = tab
    BY <2>1, UnchangedKeeps
  <2>2. CASE ScanFails(t)
    <3> DEFINE all == [j \in Slots |-> TRUE]
    <3>1. slots' = RetirePassed(t, all) /\ tab' = tab
      BY <2>2 DEF ScanFails
    <3> HIDE DEF all
    <3>2. slots' = [q \in Rows |-> slots'[q]]
      BY <3>1 DEF RetirePassed
    <3>3. slots' \in [Rows -> HandleSlot]
      BY <1>1, <3>1, <3>2, RetireKeeps
    <3>4. KeepRows /\ DrainSafe /\ RowsOK' /\ RowObj' = RowObj
      BY <1>1, <3>1, RetireKeeps DEF KeepRows, DrainSafe, RowsOK, RowObj, IInv, TableInv
    <3> QED BY <3>1, <3>3, <3>4 DEF IInv, TypeOK, KeepTables
  <2> QED BY <2>1, <2>2 DEF InsertFail, tableVars
<1> HIDE DEF to, t
<1>4. pc'[th] = to /\ reg'[th] = NoReg
  BY <1>1, GotoFrame DEF IInv
<1>5. ThreadOK(th)'
  BY <1>1, <1>2, <1>4 DEF IInv, LocalsOK, ThreadOK, Owning, Busy, Pinned, Closers, Releasing, InDrain,
     NoTicket, NoVictims
<1> QED BY <1>1, <1>2, <1>3, <1>4, <1>5, QuietStep, ResetTypes
        DEF IInv, TypeOK, PCs, Resting, Busy, Pinned, Closers, Releasing, InDrain

\* A step that leaves every thread where it is.
LEMMA StayPut ==
  ASSUME IInv, NEW th \in Threads, pc' = pc, reg' = reg
  PROVE  Goto(th, pc[th], reg[th]) /\ pc[th] \in PCs /\ reg[th] \in Locals
BY DEF IInv, TypeOK, Goto

\* HandleTableReserve claims a row that owns no object.
LEMMA HandleTableReserveStep ==
  ASSUME IInv, NEW th \in Threads, NEW t \in Tables, NEW type \in TypesInPlay, NEW rights \in RequestableRights,
         HandleTableReserve(th, t, type, rights), spent' \subseteq Tokens
  PROVE  IInv'
<1> DEFINE s == [FreshSlot EXCEPT !.rights = rights, !.nonce = lastNonce + 1, !.rtype = type, !.state = "Reserved"]
           tk(i) == [slot |-> i, generation |-> slots[<<t, i>>].generation + 1, nonce |-> lastNonce + 1, home |-> t]
<1>1. PICK i \in Slots : FirstUsable(t, i) /\ ClaimRow(t, i, s) /\ ticket' = [ticket EXCEPT ![th] = tk(i)]
  BY DEF HandleTableReserve
<1>2. /\ pc[th] \in {"idle", "using"} /\ IsOpen(t) /\ lastNonce # kNonceMax /\ lastNonce' = lastNonce + 1
      /\ refcount' = refcount /\ life' = life /\ held' = held /\ victims' = victims
      /\ pc' = pc /\ reg' = reg
  BY DEF HandleTableReserve, objVars
<1>3. lastNonce' \in 0..kNonceMax
  BY <1>2, ConstantsAssumption DEF IInv, TypeOK
<1>4. type \in ConcreteTypes \cup {"Invalid"} /\ rights \in SUBSET kHandleRightAll
  BY ConstantsAssumption DEF TypesInPlay
<1>5. s \in HandleSlot /\ s.pins = 0 /\ s.state = "Reserved" /\ s.obj = NULL
  <2>1. lastNonce + 1 \in 0..kNonceMax /\ "Reserved" \in SlotStates
    BY <1>2, <1>3 DEF SlotStates
  <2>2. s \in HandleSlot
    BY <1>4, <2>1, ResetTypes, Zenon DEF HandleSlot
  <2> QED BY <2>2 DEF FreshSlot
<1> HIDE DEF s
<1>6. /\ slots' \in [Rows -> HandleSlot] /\ tab' \in [Tables -> TableHeader]
      /\ KeepRows /\ KeepTables /\ DrainSafe /\ RowsOK'
      /\ slots[<<t, i>>].obj = NULL /\ slots'[<<t, i>>].obj = s.obj
      /\ \A q \in Rows \ {<<t, i>>} : slots'[q].obj = slots[q].obj
      /\ slots[<<t, i>>].generation + 1 \in 0..kHandleGenerationMax
  BY <1>1, <1>2, <1>5, ClaimKeeps
<1>7. RowObj' = RowObj
  BY <1>5, <1>6 DEF RowObj
<1>8. tk(i) \in Reservation /\ tk(i).slot = i
  BY <1>2, <1>3, <1>6, ConstantFacts DEF Reservation
<1> HIDE DEF tk
<1>9. /\ ticket' \in [Threads -> Reservation] /\ ticket'[th].slot \in Slots
      /\ \A u \in Threads \ {th} : ticket'[u] = ticket[u]
  BY <1>1, <1>8 DEF IInv, TypeOK
<1>10. ThreadOK(th)'
  BY <1>2, <1>9 DEF IInv, LocalsOK, ThreadOK, Releasing, InDrain, NoVictims
<1> QED BY <1>2, <1>3, <1>6, <1>7, <1>9, <1>10, StayPut, QuietStep
        DEF Busy, Pinned, Closers, Releasing, InDrain

\* HandleTablePublish fills the reserved row with the caller's reference.
LEMMA HandleTablePublishStep ==
  ASSUME IInv, NEW th \in Threads, NEW t \in Tables, HandleTablePublish(th, t), spent' \subseteq Tokens
  PROVE  IInv'
<1> DEFINE r == <<t, ticket[th].slot>>
           o == held[th]
           s == [slots[r] EXCEPT !.obj = o, !.nonce = 0, !.rtype = "Invalid", !.state = "Live",
                                 !.lineage = slots[r].rights]
<1>1. /\ pc[th] = "using" /\ ticket[th] # NoTicket /\ IsOpen(t) /\ ReservationMatches(slots[r], ticket[th])
      /\ slots' = [slots EXCEPT ![r] = s]
      /\ ticket' = [ticket EXCEPT ![th] = NoTicket]
      /\ HoldRef(th, NULL) /\ Rest(th, "idle")
      /\ refcount' = refcount /\ life' = life /\ tab' = tab /\ victims' = victims /\ lastNonce' = lastNonce
  BY DEF HandleTablePublish, objVars
<1>2. r \in Rows /\ o \in Objects /\ o # NULL
  BY <1>1, ConstantFacts DEF IInv, LocalsOK, ThreadOK, Rows, Owning, TypeOK
<1>3. slots[r] \in HandleSlot /\ slots[r].obj = NULL /\ slots[r].state = "Reserved"
  BY <1>1, <1>2 DEF IInv, TypeOK, ReservationMatches
<1>4. /\ s \in HandleSlot /\ s.obj = o /\ s.state = "Live" /\ s.pins = slots[r].pins
      /\ slots[r].rights \in SUBSET kHandleRightAll /\ tab[r[1]].state = "Open"
  <2>1. s.obj = o /\ s.state = "Live" /\ s.pins = slots[r].pins
    BY <1>3 DEF HandleSlot
  <2>2. /\ 0 \in 0..kNonceMax /\ o \in Objects \cup {NULL} /\ "Live" \in SlotStates
        /\ "Invalid" \in ConcreteTypes \cup {"Invalid"} /\ slots[r].rights \in SUBSET kHandleRightAll
    BY <1>2, <1>3, ConstantsAssumption DEF SlotStates, HandleSlot
  <2>3. s \in HandleSlot
    BY <1>3, <2>2, Zenon DEF HandleSlot
  <2> QED BY <1>1, <1>3, <2>1, <2>3 DEF HandleSlot, IsOpen
<1> HIDE DEF r, s
<1>5. slots'[r] = s /\ slots' \in [Rows -> HandleSlot] /\ \A q \in Rows \ {r} : slots'[q] = slots[q]
  BY <1>1, <1>2, <1>4 DEF IInv, TypeOK
<1>6. KeepRows /\ DrainSafe /\ RowsOK'
  BY <1>1, <1>2, <1>3, <1>4, <1>5 DEF KeepRows, DrainSafe, RowsOK, IInv, TableInv
<1>7. KeepTables /\ tab' \in [Tables -> TableHeader]
  BY <1>1 DEF KeepTables, IInv, TypeOK
<1>9. /\ ticket' \in [Threads -> Reservation] /\ ticket'[th] = NoTicket
      /\ \A u \in Threads \ {th} : ticket'[u] = ticket[u]
  BY <1>1, ResetTypes DEF IInv, TypeOK
<1> QED BY <1>1, <1>2, <1>3, <1>4, <1>5, <1>6, <1>7, <1>9, FillStep

\* What an emptied row contains.
LEMMA ClearedFacts ==
  ASSUME NEW s \in HandleSlot
  PROVE  /\ Cleared(s) \in HandleSlot /\ Cleared(s).obj = NULL /\ Cleared(s).pins = s.pins
         /\ Cleared(s).rights = {} /\ Cleared(s).nonce = 0 /\ Cleared(s).rtype = "Invalid"
         /\ Cleared(s).state \in {"Free", "Retired"} /\ Cleared(s).generation = s.generation
<1>1. ClosedStateFor(s) \in {"Free", "Retired"}
  BY DEF ClosedStateFor
<1>2. /\ Cleared(s).obj = NULL /\ Cleared(s).pins = s.pins /\ Cleared(s).state = ClosedStateFor(s)
      /\ Cleared(s).rights = {} /\ Cleared(s).nonce = 0 /\ Cleared(s).rtype = "Invalid"
      /\ Cleared(s).generation = s.generation
  BY DEF Cleared, HandleSlot
<1>3. /\ 0 \in 0..kNonceMax /\ NULL \in Objects \cup {NULL} /\ {} \in SUBSET kHandleRightAll
      /\ "Invalid" \in ConcreteTypes \cup {"Invalid"} /\ ClosedStateFor(s) \in SlotStates
  BY <1>1, ConstantsAssumption DEF SlotStates
<1>4. Cleared(s) \in HandleSlot
  BY <1>3, Zenon DEF Cleared, HandleSlot
<1> QED BY <1>1, <1>2, <1>4

\* HandleTableAbort empties the reserved row.
LEMMA HandleTableAbortStep ==
  ASSUME IInv, NEW th \in Threads, NEW t \in Tables, HandleTableAbort(th, t), spent' \subseteq Tokens
  PROVE  IInv'
<1> DEFINE r == <<t, ticket[th].slot>>
<1>1. /\ pc[th] \in {"idle", "using"} /\ ticket[th] # NoTicket /\ ReservationMatches(slots[r], ticket[th])
      /\ slots' = [slots EXCEPT ![r] = Cleared(slots[r])]
      /\ ticket' = [ticket EXCEPT ![th] = NoTicket]
      /\ refcount' = refcount /\ life' = life /\ tab' = tab /\ victims' = victims /\ lastNonce' = lastNonce
      /\ held' = held /\ pc' = pc /\ reg' = reg
  BY DEF HandleTableAbort, objVars
<1>2. r \in Rows
  BY <1>1 DEF IInv, LocalsOK, ThreadOK, Rows
<1>3. slots[r] \in HandleSlot /\ slots[r].obj = NULL /\ slots[r].state = "Reserved"
  BY <1>1, <1>2 DEF IInv, TypeOK, ReservationMatches
<1> HIDE DEF r
<1>4. slots'[r] = Cleared(slots[r]) /\ slots' \in [Rows -> HandleSlot] /\ \A q \in Rows \ {r} : slots'[q] = slots[q]
  BY <1>1, <1>2, <1>3, ClearedFacts DEF IInv, TypeOK
<1>5. KeepRows /\ DrainSafe /\ RowsOK' /\ RowObj' = RowObj
  BY <1>1, <1>2, <1>3, <1>4, ClearedFacts DEF KeepRows, DrainSafe, RowsOK, RowObj, IInv, TableInv
<1>6. KeepTables /\ tab' \in [Tables -> TableHeader] /\ lastNonce' \in 0..kNonceMax
  BY <1>1 DEF KeepTables, IInv, TypeOK
<1>7. /\ ticket' \in [Threads -> Reservation] /\ ticket'[th] = NoTicket
      /\ \A u \in Threads \ {th} : ticket'[u] = ticket[u]
  BY <1>1, ResetTypes DEF IInv, TypeOK
<1>8. ThreadOK(th)'
  BY <1>1, <1>7 DEF IInv, LocalsOK, ThreadOK, Releasing, InDrain, NoVictims, NoTicket
<1> QED BY <1>1, <1>4, <1>5, <1>6, <1>7, <1>8, StayPut, QuietStep
        DEF Busy, Pinned, Closers, Releasing, InDrain

\* Giving a dead ticket up touches no table.
LEMMA AbandonTicketStep ==
  ASSUME IInv, NEW th \in Threads, AbandonTicket(th), spent' \subseteq Tokens
  PROVE  IInv'
<1>1. /\ pc[th] \in {"idle", "using"} /\ ticket' = [ticket EXCEPT ![th] = NoTicket]
      /\ refcount' = refcount /\ life' = life /\ slots' = slots /\ tab' = tab /\ victims' = victims
      /\ lastNonce' = lastNonce /\ held' = held /\ pc' = pc /\ reg' = reg
  BY DEF AbandonTicket, objVars, tableVars
<1>2. /\ ticket' \in [Threads -> Reservation] /\ ticket'[th] = NoTicket
      /\ \A u \in Threads \ {th} : ticket'[u] = ticket[u]
  BY <1>1, ResetTypes DEF IInv, TypeOK
<1>3. ThreadOK(th)'
  BY <1>1, <1>2 DEF IInv, LocalsOK, ThreadOK, Releasing, InDrain, NoVictims, NoTicket
<1>4. lastNonce' \in 0..kNonceMax
  BY <1>1 DEF IInv, TypeOK
<1> QED BY <1>1, <1>2, <1>3, <1>4, UnchangedKeeps, StayPut, QuietStep
        DEF Busy, Pinned, Closers, Releasing, InDrain

\* HandleReplace narrows a row in place.
LEMMA HandleReplaceStep ==
  ASSUME IInv, NEW th \in Threads, NEW t \in Tables, NEW h \in Handles, NEW rights \in RequestableRights,
         HandleReplace(th, t, h, rights), spent' \subseteq Tokens
  PROVE  IInv'
<1> DEFINE r == <<t, h[1]>>
           s == [slots[r] EXCEPT !.generation = @ + 1, !.rights = rights, !.lineage = @ \cap rights]
<1>1. /\ pc[th] = "idle" /\ SlotMatches(slots[r], h[2]) /\ slots[r].generation # kHandleGenerationMax
      /\ slots' = [slots EXCEPT ![r].generation = @ + 1, ![r].rights = rights, ![r].lineage = @ \cap rights]
      /\ ticket' = ticket /\ refcount' = refcount /\ life' = life /\ tab' = tab /\ victims' = victims
      /\ lastNonce' = lastNonce /\ held' = held /\ pc' = pc /\ reg' = reg
  BY DEF HandleReplace, objVars, threadVars
<1>2. r \in Rows
  BY DEF Rows, Handles
<1>3. slots[r] \in HandleSlot /\ slots[r].state = "Live"
  BY <1>1, <1>2 DEF IInv, TypeOK, SlotMatches
<1>4. s \in HandleSlot /\ s.obj = slots[r].obj /\ s.pins = slots[r].pins /\ s.state = "Live"
  <2>1. slots[r].generation + 1 \in 0..kHandleGenerationMax /\ rights \in SUBSET kHandleRightAll
    BY <1>1, <1>3, ConstantsAssumption DEF HandleSlot
  <2> QED BY <1>3, <2>1 DEF HandleSlot
<1>9. slots' = [slots EXCEPT ![r] = s]
  BY <1>1, <1>2 DEF IInv, TypeOK
<1> HIDE DEF r, s
<1>5. slots'[r] = s /\ slots' \in [Rows -> HandleSlot] /\ \A q \in Rows \ {r} : slots'[q] = slots[q]
  BY <1>9, <1>2, <1>4 DEF IInv, TypeOK
<1>6. KeepRows /\ DrainSafe /\ RowsOK' /\ RowObj' = RowObj
  BY <1>1, <1>2, <1>3, <1>4, <1>5 DEF KeepRows, DrainSafe, RowsOK, RowObj, IInv, TableInv
<1>7. /\ KeepTables /\ tab' \in [Tables -> TableHeader] /\ lastNonce' \in 0..kNonceMax
      /\ ticket' \in [Threads -> Reservation]
  BY <1>1 DEF KeepTables, IInv, TypeOK
<1>8. ThreadOK(th)'
  BY <1>1 DEF IInv, LocalsOK, ThreadOK, Releasing, InDrain, NoVictims, NoTicket
<1> QED BY <1>1, <1>5, <1>6, <1>7, <1>8, StayPut, QuietStep
        DEF Busy, Pinned, Closers, Releasing, InDrain

\* The rights check of a duplicate goes on to the insert or to the release.
LEMMA DuplicateCheckStep ==
  ASSUME IInv, NEW th \in Threads, DuplicateCheck(th), spent' \subseteq Tokens
  PROVE  IInv'
<1> DEFINE keep == [reg[th] EXCEPT !.src = {}]
<1>1. /\ pc[th] = "dup" /\ refcount' = refcount /\ life' = life /\ slots' = slots /\ tab' = tab
      /\ victims' = victims /\ ticket' = ticket /\ lastNonce' = lastNonce /\ held' = held
      /\ Goto(th, "insert", keep) \/ Goto(th, "release", NoReg)
  BY DEF DuplicateCheck, Rest, objVars, tableVars
<1>2. PICK to \in {"insert", "release"}, l \in {keep, NoReg} :
        Goto(th, to, l) /\ (to = "insert" => l = keep)
  BY <1>1
<1>3. reg[th] \in Locals /\ reg[th].tab \in Tables /\ reg[th].cont \in {"using", "release"}
  BY <1>1 DEF IInv, TypeOK, LocalsOK, ThreadOK
<1>4. keep \in Locals /\ keep.tab \in Tables /\ keep.cont \in {"using", "release"}
  BY <1>3 DEF Locals, kHandleRightAll
<1>5. l \in Locals
  BY <1>4, ResetTypes
<1> HIDE DEF keep
<1>6. pc'[th] = to /\ reg'[th] = l
  BY <1>2, GotoFrame DEF IInv
<1>7. ThreadOK(th)'
  BY <1>1, <1>2, <1>4, <1>6 DEF IInv, LocalsOK, ThreadOK, Owning, Busy, Pinned, Closers, Releasing, InDrain,
     NoTicket, NoVictims
<1>8. lastNonce' \in 0..kNonceMax /\ ticket' \in [Threads -> Reservation]
  BY <1>1 DEF IInv, TypeOK
<1> QED BY <1>1, <1>2, <1>5, <1>6, <1>7, <1>8, UnchangedKeeps, QuietStep
        DEF Busy, Pinned, Closers, Releasing, InDrain, PCs

-----------------------------------------------------------------------------
(* RetainSnapshot *)

\* The counters, in the current state, as numbers.
LEMMA Counters ==
  ASSUME IInv
  PROVE  /\ \A r \in Rows : slots[r].pins \in 0..kU32Max /\ slots[r] \in HandleSlot
         /\ \A t \in Tables : tab[t].ops \in 0..kU32Max /\ tab[t] \in TableHeader
         /\ kU32Max \in Nat
BY ConstantsAssumption DEF IInv, TypeOK, HandleSlot, TableHeader

\* A thread enters table t: one operation more.
LEMMA BusyEnter ==
  ASSUME IInv, NEW th \in Threads, OthersKeepPlace(th), NEW t \in Tables,
         pc[th] \notin Busy, pc'[th] \in Busy, reg'[th].tab = t,
         tab[t].ops # kU32Max, tab' = BeginOperation(t)
  PROVE  /\ OpsExact' /\ tab' \in [Tables -> TableHeader]
         /\ \A u \in Tables : /\ tab'[u].state = tab[u].state
                              /\ tab'[u].ops = IF u = t THEN tab[t].ops + 1 ELSE tab[u].ops
<1>1. tab[t].ops + 1 \in 0..kU32Max
  BY Counters
<1>2. /\ tab' \in [Tables -> TableHeader]
      /\ \A u \in Tables : /\ tab'[u].state = tab[u].state
                           /\ tab'[u].ops = IF u = t THEN tab[t].ops + 1 ELSE tab[u].ops
  <2>1. tab \in [Tables -> TableHeader]
    BY DEF IInv, TypeOK
  <2> QED BY <1>1, <2>1 DEF TableHeader, BeginOperation
<1>3. BusyAt[th] = NULL /\ BusyAt'[th] = t
  BY DEF BusyAt
<1>4. OpsExact'
  <2> SUFFICES ASSUME NEW u \in Tables PROVE tab'[u].ops = Count(BusyAt', Threads, u)
    BY CountPrimes
  <2>1. One(NULL, u) = 0 /\ Count(BusyAt', Threads, u) \in Nat
    BY ConstantFacts, CountNat DEF One
  <2>2. Count(BusyAt', Threads, u) + One(NULL, u) = Count(BusyAt, Threads, u) + One(t, u)
    BY <1>3, ThreadCounts
  <2>3. tab[u].ops = Count(BusyAt, Threads, u) /\ tab[u].ops \in Nat
    BY Counters DEF IInv, TableInv, OpsExact
  <2> QED BY <1>2, <2>1, <2>2, <2>3 DEF One
<1> QED BY <1>2, <1>4

\* A thread leaves its table: one operation less, and there was one.
LEMMA BusyLeave ==
  ASSUME IInv, NEW th \in Threads, OthersKeepPlace(th), pc[th] \in Busy, pc'[th] \notin Busy,
         tab' = EndOperation(reg[th].tab)
  PROVE  /\ OpsExact' /\ tab' \in [Tables -> TableHeader]
         /\ \A u \in Tables : tab'[u].state = tab[u].state /\ (tab[u].ops = 0 => tab'[u].ops = 0)
<1> DEFINE t == reg[th].tab
<1>1. t \in Tables
  BY BusyRows DEF IInv
<1>2. BusyAt[th] = t /\ BusyAt'[th] = NULL
  BY DEF BusyAt
<1>3. tab' = [tab EXCEPT ![t].ops = @ - 1]
  BY DEF EndOperation
<1> HIDE DEF t
<1>4. tab[t].ops # 0
  <2>1. Count(BusyAt, Threads, t) # 0
    BY <1>2, CountNat, ConstantFacts
  <2> QED BY <1>1, <2>1 DEF IInv, TableInv, OpsExact
<1>5. tab[t].ops - 1 \in 0..kU32Max
  BY <1>1, <1>4, Counters
<1>6. /\ tab' \in [Tables -> TableHeader]
      /\ \A u \in Tables : /\ tab'[u].state = tab[u].state
                           /\ tab'[u].ops = IF u = t THEN tab[t].ops - 1 ELSE tab[u].ops
  <2>1. tab \in [Tables -> TableHeader]
    BY DEF IInv, TypeOK
  <2> QED BY <1>1, <1>3, <1>5, <2>1 DEF TableHeader
<1>7. OpsExact'
  <2> SUFFICES ASSUME NEW u \in Tables PROVE tab'[u].ops = Count(BusyAt', Threads, u)
    BY CountPrimes
  <2>1. One(NULL, u) = 0 /\ Count(BusyAt', Threads, u) \in Nat
    BY ConstantFacts, CountNat DEF One
  <2>2. Count(BusyAt', Threads, u) + One(t, u) = Count(BusyAt, Threads, u) + One(NULL, u)
    BY <1>2, ThreadCounts
  <2>3. tab[u].ops = Count(BusyAt, Threads, u) /\ tab[u].ops \in Nat
    BY Counters DEF IInv, TableInv, OpsExact
  <2> QED BY <1>6, <2>1, <2>2, <2>3 DEF One
<1> QED BY <1>4, <1>6, <1>7

\* A step that neither pins nor unpins.
LEMMA PinsKept ==
  ASSUME IInv, NEW th \in Threads, OthersKeepPlace(th), pc[th] \notin Pinned, pc'[th] \notin Pinned,
         \A r \in Rows : slots'[r].pins = slots[r].pins
  PROVE  PinsExact'
<1>1. PinAt' = PinAt
  BY DEF OthersKeepPlace, PinAt, Row
<1> QED BY <1>1, CountPrimes DEF IInv, TableInv, PinsExact

\* The first critical section of RetainSnapshot: one pin, one operation.
LEMMA PinStep ==
  ASSUME IInv, NEW th \in Threads, NEW t \in Tables, NEW h \in Handles, NEW required, NEW locals \in Locals,
         pc[th] = "idle", PinnedBy(th, t, h, required, locals), spent' \subseteq Tokens,
         locals.retained = FALSE,
         locals.cont = "using" \/ (locals.cont = "dup" /\ locals.dst \in Tables)
  PROVE  IInv'
<1> DEFINE r == <<t, h[1]>>
           l == [locals EXCEPT !.tab = t, !.slot = h[1], !.gen = h[2], !.src = slots[r].rights, !.ptr = slots[r].obj,
                               !.lineage = slots[r].lineage]
<1>1. /\ tab[t].state = "Open" /\ SlotMatches(slots[r], h[2]) /\ slots[r].pins # kU32Max /\ tab[t].ops # kU32Max
      /\ slots' = [slots EXCEPT ![r].pins = @ + 1] /\ tab' = BeginOperation(t)
      /\ Goto(th, "acquire", l)
      /\ refcount' = refcount /\ life' = life /\ held' = held /\ victims' = victims /\ ticket' = ticket
      /\ lastNonce' = lastNonce
  BY DEF PinnedBy, objVars
<1>2. r \in Rows /\ h[1] \in Slots
  BY DEF Rows, Handles
<1>3. slots[r] \in HandleSlot /\ slots[r].obj \in Objects /\ slots[r].state = "Live"
  BY <1>1, <1>2, Counters DEF SlotMatches, HandleSlot
<1>4. l \in Locals
  <2>1. /\ h[1] \in 0..(kHandleTableCapacity - 1) /\ h[2] \in 0..kHandleGenerationMax
        /\ t \in Tables \cup {NULL} /\ slots[r].rights \in SUBSET kHandleRightAll
        /\ slots[r].obj \in Objects \cup {NULL} /\ slots[r].lineage \in SUBSET kHandleRightAll
    <3>1. slots[r].rights \in SUBSET kHandleRightAll /\ slots[r].lineage \in SUBSET kHandleRightAll
      BY <1>3 DEF HandleSlot
    <3> QED BY <1>3, <3>1, HandleRange
  <2> QED BY <2>1, Zenon DEF Locals
<1>5. /\ l.tab = t /\ l.slot = h[1] /\ l.ptr = slots[r].obj /\ l.retained = FALSE
      /\ l.cont = locals.cont /\ l.dst = locals.dst
  BY DEF Locals
<1> HIDE DEF l
<1>6. pc'[th] = "acquire" /\ reg'[th] = l /\ OthersKeepPlace(th)
  BY <1>1, GotoFrame DEF IInv
<1>7. Row(th)' = r
  BY <1>5, <1>6 DEF Row
<1> HIDE DEF r
<1>8. /\ OpsExact' /\ tab' \in [Tables -> TableHeader]
      /\ \A u \in Tables : /\ tab'[u].state = tab[u].state
                           /\ tab'[u].ops = IF u = t THEN tab[t].ops + 1 ELSE tab[u].ops
  <2>1. pc[th] \notin Busy /\ pc'[th] \in Busy /\ reg'[th].tab = t
    BY <1>5, <1>6 DEF Busy, Pinned, Closers
  <2> QED BY <1>1, <1>6, <2>1, BusyEnter
<1>9. /\ slots' \in [Rows -> HandleSlot]
      /\ slots'[r].pins = slots[r].pins + 1
      /\ \A q \in Rows : q # r => slots'[q].pins = slots[q].pins
      /\ \A q \in Rows : /\ slots'[q].obj = slots[q].obj /\ slots'[q].state = slots[q].state
                         /\ slots'[q].generation = slots[q].generation /\ slots'[q].rights = slots[q].rights
                         /\ slots'[q].nonce = slots[q].nonce /\ slots'[q].rtype = slots[q].rtype
  <2>1. slots[r].pins \in 0..kU32Max /\ kU32Max \in Nat
    BY <1>2, Counters
  <2>2. slots[r].pins + 1 \in 0..kU32Max
    BY <1>1, <2>1
  <2>3. slots \in [Rows -> HandleSlot]
    BY DEF IInv, TypeOK
  <2> QED BY <1>1, <1>2, <2>2, <2>3 DEF HandleSlot
<1>10. TypeOK'
  BY <1>1, <1>4, <1>8, <1>9 DEF IInv, TypeOK, Goto, PCs, Pinned
<1>11. LocalsOK'
  <2>1. ThreadOK(th)'
    BY <1>1, <1>2, <1>3, <1>5, <1>6
    DEF IInv, LocalsOK, ThreadOK, Owning, Busy, Pinned, Closers, Releasing, InDrain, NoTicket, NoVictims
  <2> QED BY <1>1, <1>6, <2>1, LocalsFrame DEF IInv
<1>12. PinsExact'
  <2>1. PinAt[th] = NoRow /\ PinAt'[th] = r
    BY <1>6, <1>7 DEF PinAt, Pinned
  <2> SUFFICES ASSUME NEW q \in Rows PROVE slots'[q].pins = Count(PinAt', Threads, q)
    BY CountPrimes
  <2>2. One(NoRow, q) = 0 /\ Count(PinAt', Threads, q) \in Nat
    BY ConstantFacts, CountNat DEF One
  <2>3. Count(PinAt', Threads, q) + One(NoRow, q) = Count(PinAt, Threads, q) + One(r, q)
    BY <1>6, <2>1, ThreadCounts
  <2>4. slots[q].pins = Count(PinAt, Threads, q) /\ slots[q].pins \in Nat
    BY Counters DEF IInv, TableInv, PinsExact
  <2> QED BY <1>9, <2>2, <2>3, <2>4 DEF One
<1>13. RowsOK'
  BY <1>9 DEF IInv, TableInv, RowsOK
<1>14. PinnedRows'
  <2> SUFFICES ASSUME NEW u \in Threads, pc'[u] \in Pinned PROVE slots'[Row(u)'].obj = reg'[u].ptr
    BY DEF PinnedRows
  <2>1. CASE u = th
    BY <1>2, <1>5, <1>6, <1>7, <1>9, <2>1 DEF r
  <2>2. CASE u # th
    <3>1. pc[u] \in Pinned /\ reg'[u] = reg[u] /\ Row(u)' = Row(u)
      BY <1>6, <2>2 DEF OthersKeepPlace, Row
    <3>2. Row(u) \in Rows
      BY <3>1, BusyRows DEF IInv, Busy
    <3> QED BY <1>9, <3>1, <3>2 DEF IInv, TableInv, PinnedRows
  <2> QED BY <2>1, <2>2
<1>15. ClosingRows'
  <2>1. \A u \in Threads : pc'[u] \in Closers <=> pc[u] \in Closers
    BY <1>1, <1>6 DEF OthersKeepPlace, Closers
  <2>2. \A u \in Threads : pc[u] \in Closers =>
          pc'[u] = pc[u] /\ reg'[u] = reg[u] /\ Row(u)' = Row(u) /\ Row(u) \in Rows
    BY <1>1, <1>6, BusyRows DEF OthersKeepPlace, Closers, Row, IInv, Busy
  <2> QED BY <1>9, <2>1, <2>2 DEF IInv, TableInv, ClosingRows
<1>16. DrainOK'
  <2>1. DrainSafe
    BY <1>1, <1>8, <1>9 DEF DrainSafe
  <2> QED BY <1>6, <2>1, DrainKeep DEF IInv, InDrain, Releasing
<1>17. CountsExact' /\ LifeOK'
  <2>1. RowObj' = RowObj
    BY <1>9 DEF RowObj
  <2> QED BY <1>1, <1>6, <2>1, RefFrame DEF IInv
<1> QED BY <1>8, <1>10, <1>11, <1>12, <1>13, <1>14, <1>15, <1>16, <1>17 DEF IInv, TableInv

\* HandleTableLookupRef begins with RetainSnapshot.
LEMMA HandleTableLookupRefStep ==
  ASSUME IInv, NEW th \in Threads, NEW t \in Tables, NEW h \in Handles, NEW type, NEW required,
         HandleTableLookupRef(th, t, h, type, required), spent' \subseteq Tokens
  PROVE  IInv'
<1> DEFINE locals == [NoReg EXCEPT !.cont = "using"]
<1>1. locals \in Locals /\ locals.retained = FALSE /\ locals.cont = "using"
  BY ResetTypes DEF NoReg, Locals, PCs, Resting
<1>2. pc[th] = "idle" /\ PinnedBy(th, t, h, required, locals)
  BY DEF HandleTableLookupRef
<1> QED BY <1>1, <1>2, PinStep

\* HandleTableDuplicate begins with RetainSnapshot.
LEMMA HandleTableDuplicateStep ==
  ASSUME IInv, NEW th \in Threads, NEW t \in Tables, NEW h \in Handles, NEW dst \in Tables,
         NEW want \in RequestableRights \cup {{}}, HandleTableDuplicate(th, t, h, dst, want), spent' \subseteq Tokens
  PROVE  IInv'
<1> DEFINE locals == [NoReg EXCEPT !.cont = "dup", !.dst = dst, !.want = want]
<1>1. locals \in Locals /\ locals.retained = FALSE /\ locals.cont = "dup" /\ locals.dst = dst
  BY ResetTypes, ConstantsAssumption DEF NoReg, Locals, PCs, Resting
<1>2. pc[th] = "idle" /\ PinnedBy(th, t, h, {"Duplicate"}, locals)
  BY DEF HandleTableDuplicate
<1> QED BY <1>1, <1>2, PinStep

\* The last critical section of RetainSnapshot: the pin and the operation go, the row still there.
LEMMA UnpinStep ==
  ASSUME IInv, NEW th \in Threads, Unpin(th), spent' \subseteq Tokens
  PROVE  IInv'
<1> DEFINE r == Row(th)
           m == reg[th]
           dup == [NoReg EXCEPT !.tab = m.dst, !.src = m.src, !.cont = "release",
                                !.want = IF m.want = {} THEN m.src ELSE m.want, !.lineage = m.lineage]
           to == IF ~m.retained THEN "idle" ELSE IF m.cont = "using" THEN "using" ELSE "dup"
           l == IF m.retained /\ m.cont # "using" THEN dup ELSE NoReg
<1>1. /\ pc[th] = "unpin" /\ slots' = [slots EXCEPT ![r].pins = PinsAfterLookup(th)] /\ tab' = EndOperation(m.tab)
      /\ refcount' = refcount /\ life' = life /\ held' = held /\ victims' = victims /\ ticket' = ticket
      /\ lastNonce' = lastNonce
  BY DEF Unpin, objVars
<1>2. Goto(th, to, l)
  BY DEF Unpin, Rest
<1>3. r \in Rows /\ m.tab \in Tables /\ m \in Locals /\ ThreadOK(th) /\ slots[r].obj = m.ptr
  BY <1>1, BusyRows DEF IInv, TypeOK, LocalsOK, Busy, Pinned, TableInv, PinnedRows
<1>4. dup \in Locals /\ dup.tab = m.dst /\ dup.cont = "release"
  <2>1. /\ m.dst \in Tables \cup {NULL} /\ m.src \in SUBSET kHandleRightAll /\ m.want \in SUBSET kHandleRightAll
        /\ "release" \in PCs /\ m.lineage \in SUBSET kHandleRightAll
    BY <1>3 DEF Locals, PCs
  <2>2. (IF m.want = {} THEN m.src ELSE m.want) \in SUBSET kHandleRightAll
    BY <2>1
  <2>3. dup \in Locals
    BY <2>1, <2>2, ResetTypes, Zenon DEF Locals
  <2> QED BY <2>3 DEF NoReg
<1>5. l \in Locals /\ to \in PCs /\ to \in {"idle", "using", "dup"}
  BY <1>4, ResetTypes DEF PCs, Resting
<1>6. /\ to = "idle" <=> ~m.retained
      /\ to = "dup" => l = dup /\ m.dst \in Tables
  BY <1>1, <1>3 DEF ThreadOK, Pinned
<1> HIDE DEF l, to, dup
<1>7. pc'[th] = to /\ reg'[th] = l /\ OthersKeepPlace(th)
  BY <1>2, GotoFrame DEF IInv
<1>8. pc[th] \in Busy /\ pc'[th] \notin Busy /\ pc'[th] \notin Pinned /\ pc'[th] \notin Closers
  BY <1>1, <1>5, <1>7 DEF Busy, Pinned, Closers
<1>9. /\ OpsExact' /\ tab' \in [Tables -> TableHeader]
      /\ \A u \in Tables : tab'[u].state = tab[u].state /\ (tab[u].ops = 0 => tab'[u].ops = 0)
  BY <1>1, <1>7, <1>8, BusyLeave
<1>10. PinAt[th] = r /\ PinAt'[th] = NoRow
  BY <1>1, <1>8 DEF PinAt, Pinned
<1> HIDE DEF r, m
<1>11. PinsAfterLookup(th) \in 0..kU32Max /\ PinsAfterLookup(th) + 1 = slots[r].pins
  <2>1. Count(PinAt, Threads, r) # 0
    BY <1>10, CountNat, ConstantFacts
  <2>2. slots[r].pins # 0 /\ slots[r].pins \in 0..kU32Max /\ kU32Max \in Nat
    BY <1>3, <2>1, Counters DEF IInv, TableInv, PinsExact
  <2>3. PinsAfterLookup(th) = slots[r].pins - 1
    BY DEF PinsAfterLookup, r
  <2> QED BY <2>2, <2>3
<1>12. /\ slots' \in [Rows -> HandleSlot]
       /\ slots'[r].pins = PinsAfterLookup(th)
       /\ \A q \in Rows : q # r => slots'[q].pins = slots[q].pins
       /\ \A q \in Rows : /\ slots'[q].obj = slots[q].obj /\ slots'[q].state = slots[q].state
                          /\ slots'[q].generation = slots[q].generation /\ slots'[q].rights = slots[q].rights
                          /\ slots'[q].nonce = slots[q].nonce /\ slots'[q].rtype = slots[q].rtype
  <2>1. slots \in [Rows -> HandleSlot]
    BY DEF IInv, TypeOK
  <2> QED BY <1>1, <1>3, <1>11, <2>1 DEF HandleSlot
<1>13. TypeOK'
  BY <1>1, <1>2, <1>5, <1>9, <1>12 DEF IInv, TypeOK, Goto
<1>14. LocalsOK'
  <2>1. ThreadOK(th)'
    BY <1>1, <1>3, <1>4, <1>5, <1>6, <1>7
    DEF ThreadOK, Owning, Busy, Pinned, Closers, Releasing, InDrain, NoTicket, NoVictims, m
  <2> QED BY <1>1, <1>7, <2>1, LocalsFrame DEF IInv
<1>15. PinsExact'
  <2> SUFFICES ASSUME NEW q \in Rows PROVE slots'[q].pins = Count(PinAt', Threads, q)
    BY CountPrimes
  <2>1. One(NoRow, q) = 0 /\ Count(PinAt', Threads, q) \in Nat
    BY ConstantFacts, CountNat DEF One
  <2>2. Count(PinAt', Threads, q) + One(r, q) = Count(PinAt, Threads, q) + One(NoRow, q)
    BY <1>7, <1>10, ThreadCounts
  <2>3. slots[q].pins = Count(PinAt, Threads, q) /\ slots[q].pins \in Nat
    BY Counters DEF IInv, TableInv, PinsExact
  <2> QED BY <1>11, <1>12, <2>1, <2>2, <2>3 DEF One
<1>16. RowsOK'
  BY <1>12 DEF IInv, TableInv, RowsOK
<1>17. PinnedRows'
  <2> SUFFICES ASSUME NEW u \in Threads, pc'[u] \in Pinned PROVE slots'[Row(u)'].obj = reg'[u].ptr
    BY DEF PinnedRows
  <2>1. pc[u] \in Pinned /\ reg'[u] = reg[u] /\ Row(u)' = Row(u)
    BY <1>7, <1>8 DEF OthersKeepPlace, Row
  <2>2. Row(u) \in Rows
    BY <2>1, BusyRows DEF IInv, Busy
  <2> QED BY <1>12, <2>1, <2>2 DEF IInv, TableInv, PinnedRows
<1>18. ClosingRows'
  <2>1. \A u \in Threads : pc'[u] \in Closers <=> pc[u] \in Closers
    BY <1>1, <1>7, <1>8 DEF OthersKeepPlace, Closers
  <2>2. \A u \in Threads : pc[u] \in Closers =>
          pc'[u] = pc[u] /\ reg'[u] = reg[u] /\ Row(u)' = Row(u) /\ Row(u) \in Rows
    BY <1>1, <1>7, BusyRows DEF OthersKeepPlace, Closers, Row, IInv, Busy
  <2> QED BY <1>12, <2>1, <2>2 DEF IInv, TableInv, ClosingRows
<1>19. DrainOK'
  <2>1. DrainSafe
    BY <1>9, <1>12 DEF DrainSafe
  <2> QED BY <1>1, <1>5, <1>7, <2>1, DrainKeep DEF IInv, InDrain, Releasing
<1>20. CountsExact' /\ LifeOK'
  <2>1. RowObj' = RowObj
    BY <1>12 DEF RowObj
  <2> QED BY <1>1, <1>5, <1>7, <2>1, RefFrame DEF IInv
<1> QED BY <1>9, <1>13, <1>14, <1>15, <1>16, <1>17, <1>18, <1>19, <1>20 DEF IInv, TableInv

-----------------------------------------------------------------------------
(* Detach, remove and adopt-replace *)

\* The linearization point of a close: the row is Closing and belongs to this thread.
LEMMA CloseStart ==
  ASSUME IInv, NEW th \in Threads, NEW t \in Tables, NEW h \in Handles, NEW to \in Closers, NEW l \in Locals,
         StartClosing(t, h), Goto(th, to, l), spent' \subseteq Tokens,
         l.tab = t, l.slot = h[1], l.gen = h[2],
         \/ pc[th] = "idle" /\ to = "closing" /\ l.cont \in {"using", "release"}
         \/ pc[th] = "using" /\ to = "adopting" /\ h[2] # kHandleGenerationMax,
         refcount' = refcount, life' = life, held' = held, victims' = victims, ticket' = ticket,
         lastNonce' = lastNonce
  PROVE  IInv'
<1> DEFINE r == <<t, h[1]>>
<1>1. /\ tab[t].state = "Open" /\ SlotMatches(slots[r], h[2]) /\ tab[t].ops # kU32Max
      /\ slots' = [slots EXCEPT ![r].state = "Closing"] /\ tab' = BeginOperation(t)
  BY DEF StartClosing, IsOpen
<1>2. r \in Rows /\ h[1] \in Slots
  BY DEF Rows, Handles
<1>3. slots[r].obj # NULL /\ slots[r].state = "Live" /\ slots[r].generation = h[2]
  BY <1>1 DEF SlotMatches
<1>4. pc'[th] = to /\ reg'[th] = l /\ OthersKeepPlace(th)
  BY GotoFrame DEF IInv
<1>5. Row(th)' = r
  BY <1>4 DEF Row
<1> HIDE DEF r
<1>6. /\ OpsExact' /\ tab' \in [Tables -> TableHeader]
      /\ \A u \in Tables : /\ tab'[u].state = tab[u].state
                           /\ tab'[u].ops = IF u = t THEN tab[t].ops + 1 ELSE tab[u].ops
  <2>1. pc[th] \notin Busy /\ pc'[th] \in Busy /\ reg'[th].tab = t
    BY <1>4 DEF Busy, Pinned, Closers
  <2> QED BY <1>1, <1>4, <2>1, BusyEnter
<1>7. /\ slots' \in [Rows -> HandleSlot]
      /\ slots'[r].state = "Closing"
      /\ \A q \in Rows : q # r => slots'[q].state = slots[q].state
      /\ \A q \in Rows : /\ slots'[q].obj = slots[q].obj /\ slots'[q].pins = slots[q].pins
                         /\ slots'[q].generation = slots[q].generation /\ slots'[q].rights = slots[q].rights
                         /\ slots'[q].nonce = slots[q].nonce /\ slots'[q].rtype = slots[q].rtype
  <2>1. slots \in [Rows -> HandleSlot]
    BY DEF IInv, TypeOK
  <2> QED BY <1>1, <1>2, <2>1 DEF HandleSlot, SlotStates
<1>8. TypeOK'
  BY <1>6, <1>7 DEF IInv, TypeOK, Goto, PCs
<1>9. LocalsOK'
  <2>1. ThreadOK(th)'
    BY <1>2, <1>4
    DEF IInv, LocalsOK, ThreadOK, Owning, Busy, Pinned, Closers, Releasing, InDrain, NoTicket, NoVictims
  <2> QED BY <1>4, <2>1, LocalsFrame DEF IInv
<1>10. PinsExact'
  BY <1>4, <1>7, PinsKept DEF Pinned, Closers
<1>11. RowsOK'
  BY <1>3, <1>7 DEF IInv, TableInv, RowsOK
<1>12. PinnedRows'
  <2> SUFFICES ASSUME NEW u \in Threads, pc'[u] \in Pinned PROVE slots'[Row(u)'].obj = reg'[u].ptr
    BY DEF PinnedRows
  <2>1. pc[u] \in Pinned /\ reg'[u] = reg[u] /\ Row(u)' = Row(u)
    BY <1>4 DEF OthersKeepPlace, Row, Pinned, Closers
  <2>2. Row(u) \in Rows
    BY <2>1, BusyRows DEF IInv, Busy
  <2> QED BY <1>7, <2>1, <2>2 DEF IInv, TableInv, PinnedRows
<1>13. ClosingRows'
  <2>1. \A u \in Threads : u # th /\ pc'[u] \in Closers =>
          /\ pc'[u] = pc[u] /\ reg'[u] = reg[u] /\ Row(u)' = Row(u) /\ Row(u) \in Rows
          /\ Row(u) # r /\ slots[Row(u)].state = "Closing" /\ slots[Row(u)].generation = reg[u].gen
          /\ pc[u] = "adopting" => reg[u].gen # kHandleGenerationMax
    BY <1>3, <1>4, BusyRows DEF OthersKeepPlace, Row, IInv, Busy, TableInv, ClosingRows
  <2>2. \A u \in Threads : pc'[u] \in Closers =>
          /\ slots'[Row(u)'].state = "Closing" /\ slots'[Row(u)'].generation = reg'[u].gen
          /\ pc'[u] = "adopting" => reg'[u].gen # kHandleGenerationMax
    BY <1>2, <1>3, <1>4, <1>5, <1>7, <2>1
  <2>3. \A u, w \in Threads : pc'[u] \in Closers /\ pc'[w] \in Closers /\ Row(w)' = Row(u)' => w = u
    <3> SUFFICES ASSUME NEW u \in Threads, NEW w \in Threads, pc'[u] \in Closers, pc'[w] \in Closers,
                        Row(w)' = Row(u)', w # u
                 PROVE FALSE
      OBVIOUS
    <3>1. CASE u = th \/ w = th
      BY <1>5, <2>1, <3>1
    <3>2. CASE u # th /\ w # th
      BY <2>1, <3>2 DEF IInv, TableInv, ClosingRows
    <3> QED BY <3>1, <3>2
  <2>4. \A q \in Rows : slots'[q].state = "Closing" => \E u \in Threads : pc'[u] \in Closers /\ Row(u)' = q
    <3> SUFFICES ASSUME NEW q \in Rows, slots'[q].state = "Closing"
                 PROVE \E u \in Threads : pc'[u] \in Closers /\ Row(u)' = q
      OBVIOUS
    <3>1. CASE q = r
      BY <1>4, <1>5, <3>1
    <3>2. CASE q # r
      <4>1. PICK u \in Threads : pc[u] \in Closers /\ Row(u) = q
        BY <1>7, <3>2 DEF IInv, TableInv, ClosingRows
      <4>2. u # th
        BY <4>1 DEF Closers
      <4> QED BY <1>4, <4>1, <4>2 DEF OthersKeepPlace, Row
    <3> QED BY <3>1, <3>2
  <2> QED BY <2>2, <2>3, <2>4 DEF ClosingRows
<1>14. DrainOK'
  <2>1. DrainSafe
    BY <1>1, <1>6, <1>7 DEF DrainSafe
  <2> QED BY <1>4, <2>1, DrainKeep DEF IInv, InDrain, Releasing, Closers
<1>15. CountsExact' /\ LifeOK'
  <2>1. RowObj' = RowObj
    BY <1>7 DEF RowObj
  <2> QED BY <1>4, <2>1, RefFrame DEF IInv, Closers
<1> QED BY <1>6, <1>8, <1>9, <1>10, <1>11, <1>12, <1>13, <1>14, <1>15 DEF IInv, TableInv

\* HandleTableDetach begins a close.
LEMMA HandleTableDetachStep ==
  ASSUME IInv, NEW th \in Threads, NEW t \in Tables, NEW h \in Handles, NEW type, NEW required,
         NEW after \in {"using", "release"},
         HandleTableDetach(th, t, h, type, required, after), spent' \subseteq Tokens
  PROVE  IInv'
<1> DEFINE l == [NoReg EXCEPT !.tab = t, !.slot = h[1], !.gen = h[2], !.cont = after]
<1>1. /\ pc[th] = "idle" /\ StartClosing(t, h) /\ Goto(th, "closing", l)
      /\ refcount' = refcount /\ life' = life /\ held' = held /\ victims' = victims /\ ticket' = ticket
      /\ lastNonce' = lastNonce
  BY DEF HandleTableDetach, objVars
<1>3. h[1] \in 0..(kHandleTableCapacity - 1) /\ h[2] \in 0..kHandleGenerationMax
  BY HandleRange
<1>4. after \in PCs /\ t \in Tables \cup {NULL} /\ "closing" \in Closers
  BY DEF PCs, Resting, Closers
<1>5. l \in Locals
  BY <1>3, <1>4, ResetTypes, Zenon DEF Locals
<1>6. l.tab = t /\ l.slot = h[1] /\ l.gen = h[2] /\ l.cont = after
  BY DEF NoReg
<1> HIDE DEF l
<1> QED BY <1>1, <1>4, <1>5, <1>6, CloseStart

\* HandleTableAdoptReplace begins a close.
LEMMA HandleTableAdoptReplaceStep ==
  ASSUME IInv, NEW th \in Threads, NEW t \in Tables, NEW h \in Handles, NEW rights \in RequestableRights, NEW type,
         HandleTableAdoptReplace(th, t, h, rights, type), spent' \subseteq Tokens
  PROVE  IInv'
<1> DEFINE l == [NoReg EXCEPT !.tab = t, !.slot = h[1], !.gen = h[2], !.want = rights]
<1>1. /\ pc[th] = "using" /\ StartClosing(t, h) /\ Goto(th, "adopting", l) /\ h[2] # kHandleGenerationMax
      /\ refcount' = refcount /\ life' = life /\ held' = held /\ victims' = victims /\ ticket' = ticket
      /\ lastNonce' = lastNonce
  BY DEF HandleTableAdoptReplace, objVars
<1>3. h[1] \in 0..(kHandleTableCapacity - 1) /\ h[2] \in 0..kHandleGenerationMax
  BY HandleRange
<1>4. rights \in SUBSET kHandleRightAll /\ t \in Tables \cup {NULL} /\ "adopting" \in Closers
  BY ConstantsAssumption DEF Closers
<1>5. l \in Locals
  BY <1>3, <1>4, ResetTypes, Zenon DEF Locals
<1>6. l.tab = t /\ l.slot = h[1] /\ l.gen = h[2]
  BY DEF NoReg
<1> HIDE DEF l
<1> QED BY <1>1, <1>4, <1>5, <1>6, CloseStart

\* A close ends: the row takes what the thread held and the thread gets what the row held.
LEMMA CloseEnd ==
  ASSUME IInv, NEW th \in Threads, pc[th] \in Closers, PinsGone(Row(th)),
         NEW s \in HandleSlot, slots' = [slots EXCEPT ![Row(th)] = s],
         s.obj = held[th], s.obj # NULL <=> s.state = "Live", s.state # "Closing", s.pins = slots[Row(th)].pins,
         s.state = "Free" => s.rights = {} /\ s.nonce = 0 /\ s.rtype = "Invalid",
         tab' = EndOperation(reg[th].tab), HoldRef(th, DetachedRef(Row(th))),
         NEW to \in {"using", "release"}, Rest(th, to), spent' \subseteq Tokens,
         refcount' = refcount, life' = life, victims' = victims, ticket' = ticket, lastNonce' = lastNonce
  PROVE  IInv'
<1> DEFINE r == Row(th)
<1>1. /\ r \in Rows /\ slots[r] \in HandleSlot /\ slots[r].state = "Closing" /\ slots[r].pins = 0
      /\ slots[r].obj \in Objects /\ slots[r].obj # NULL
  <2>1. r \in Rows
    BY BusyRows DEF IInv, Busy
  <2>2. slots[r] \in HandleSlot /\ slots[r].state = "Closing" /\ slots[r].pins = 0
    BY <2>1 DEF IInv, TypeOK, TableInv, ClosingRows, PinsGone
  <2> QED BY <2>1, <2>2, ConstantFacts DEF IInv, TableInv, RowsOK, HandleSlot
<1>2. pc'[th] = to /\ reg'[th] = NoReg /\ OthersKeepPlace(th)
  BY GotoFrame DEF IInv, Rest
<1>3. HoldRef(th, slots[r].obj)
  BY DEF DetachedRef
<1> HIDE DEF r
<1>4. held'[th] = slots[r].obj /\ \A u \in Threads \ {th} : held'[u] = held[u]
  BY <1>3, HeldCount DEF IInv
<1>5. slots'[r] = s /\ slots' \in [Rows -> HandleSlot] /\ \A q \in Rows : q # r => slots'[q] = slots[q]
  <2>1. slots \in [Rows -> HandleSlot] /\ slots' = [slots EXCEPT ![r] = s]
    BY DEF IInv, TypeOK, r
  <2> QED BY <1>1, <2>1
<1>6. pc[th] \in Busy /\ pc'[th] \notin Busy /\ pc'[th] \notin Pinned /\ pc'[th] \notin Closers /\ pc[th] \notin Pinned
  BY <1>2 DEF Busy, Pinned, Closers
<1>7. /\ OpsExact' /\ tab' \in [Tables -> TableHeader]
      /\ \A u \in Tables : tab'[u].state = tab[u].state /\ (tab[u].ops = 0 => tab'[u].ops = 0)
  BY <1>2, <1>6, BusyLeave
<1>8. TypeOK'
  BY <1>1, <1>3, <1>5, <1>7, ResetTypes DEF IInv, TypeOK, Rest, Goto, HoldRef, PCs, Resting
<1>9. LocalsOK'
  <2>1. victims[th] = NoVictims /\ (ticket[th] # NoTicket => ticket[th].slot \in Slots)
    BY DEF IInv, LocalsOK, ThreadOK, Releasing, Closers
  <2>2. ThreadOK(th)'
    BY <1>1, <1>2, <1>4, <2>1
    DEF ThreadOK, Owning, Busy, Pinned, Closers, Releasing, InDrain, NoTicket, NoVictims
  <2> QED BY <1>2, <1>4, <2>2, LocalsFrame DEF IInv
<1>10. \A q \in Rows : slots'[q].pins = slots[q].pins
  BY <1>5 DEF r
<1>11. PinsExact'
  BY <1>2, <1>6, <1>10, PinsKept
<1>12. RowsOK'
  BY <1>5 DEF IInv, TableInv, RowsOK
<1>13. PinnedRows'
  <2> SUFFICES ASSUME NEW u \in Threads, pc'[u] \in Pinned PROVE slots'[Row(u)'].obj = reg'[u].ptr
    BY DEF PinnedRows
  <2>1. pc[u] \in Pinned /\ reg'[u] = reg[u] /\ Row(u)' = Row(u)
    BY <1>2, <1>6 DEF OthersKeepPlace, Row
  <2>2. Row(u) \in Rows /\ slots[Row(u)].obj = reg[u].ptr
    BY <2>1, BusyRows DEF IInv, Busy, TableInv, PinnedRows
  <2>3. Row(u) # r
    <3>1. Count(PinAt, Threads, r) = 0
      BY <1>1 DEF IInv, TableInv, PinsExact
    <3>2. PinAt[u] # r
      BY <3>1, CountNat, ConstantFacts
    <3> QED BY <2>1, <3>2 DEF PinAt
  <2> QED BY <1>5, <2>1, <2>2, <2>3
<1>14. ClosingRows'
  <2>1. \A u \in Threads : pc'[u] \in Closers => u # th /\ pc'[u] = pc[u] /\ reg'[u] = reg[u] /\ Row(u)' = Row(u)
    BY <1>2, <1>6 DEF OthersKeepPlace, Row
  <2>2. \A u \in Threads : pc'[u] \in Closers =>
          /\ Row(u) \in Rows /\ Row(u) # r
          /\ slots[Row(u)].state = "Closing" /\ slots[Row(u)].generation = reg[u].gen
          /\ pc[u] = "adopting" => reg[u].gen # kHandleGenerationMax
    BY <2>1, BusyRows DEF IInv, Busy, TableInv, ClosingRows, r
  <2>3. \A u, w \in Threads : pc'[u] \in Closers /\ pc'[w] \in Closers /\ Row(w)' = Row(u)' => w = u
    BY <2>1 DEF IInv, TableInv, ClosingRows
  <2>4. \A q \in Rows : slots'[q].state = "Closing" => \E u \in Threads : pc'[u] \in Closers /\ Row(u)' = q
    <3> SUFFICES ASSUME NEW q \in Rows, slots'[q].state = "Closing"
                 PROVE \E u \in Threads : pc'[u] \in Closers /\ Row(u)' = q
      OBVIOUS
    <3>1. q # r /\ slots[q].state = "Closing"
      BY <1>5
    <3>2. PICK u \in Threads : pc[u] \in Closers /\ Row(u) = q
      BY <3>1 DEF IInv, TableInv, ClosingRows
    <3>3. u # th
      BY <3>1, <3>2 DEF r
    <3> QED BY <1>2, <3>2, <3>3 DEF OthersKeepPlace, Row
  <2>5. \A u \in Threads : pc'[u] \in Closers =>
          /\ slots'[Row(u)'].state = "Closing" /\ slots'[Row(u)'].generation = reg'[u].gen
          /\ pc'[u] = "adopting" => reg'[u].gen # kHandleGenerationMax
    BY <1>5, <2>1, <2>2
  <2> QED BY <2>3, <2>4, <2>5 DEF ClosingRows
<1>15. DrainOK'
  <2>1. DrainSafe
    BY <1>1, <1>5, <1>7 DEF DrainSafe
  <2> QED BY <1>2, <2>1, DrainKeep DEF IInv, InDrain, Releasing, Closers
<1>16. CountsExact'
  BY <1>1, <1>3, <1>5, SwapRef DEF IInv
<1>17. LifeOK'
  <2>1. DestroyAt' = DestroyAt
    BY <1>2 DEF DestroyAt, OthersKeepPlace, Closers
  <2> QED BY <2>1, CountPrimes DEF IInv, LifeOK
<1> QED BY <1>7, <1>8, <1>9, <1>11, <1>12, <1>13, <1>14, <1>15, <1>16, <1>17 DEF IInv, TableInv

\* The close ends: the row's reference becomes the caller's.
LEMMA FinishDetachStep ==
  ASSUME IInv, NEW th \in Threads, FinishDetach(th), spent' \subseteq Tokens
  PROVE  IInv'
<1> DEFINE s == Cleared(slots[Row(th)])
<1>1. /\ pc[th] \in Closers /\ PinsGone(Row(th)) /\ slots' = [slots EXCEPT ![Row(th)] = s]
      /\ tab' = EndOperation(reg[th].tab) /\ HoldRef(th, DetachedRef(Row(th))) /\ Rest(th, reg[th].cont)
      /\ refcount' = refcount /\ life' = life /\ victims' = victims /\ ticket' = ticket
      /\ lastNonce' = lastNonce
  BY DEF FinishDetach, objVars, Closers
<1>2. reg[th].cont \in {"using", "release"} /\ held[th] = NULL
  BY DEF FinishDetach, IInv, LocalsOK, ThreadOK, Owning
<1>3. slots[Row(th)] \in HandleSlot
  BY <1>1, BusyRows DEF IInv, TypeOK, Busy
<1>4. /\ s \in HandleSlot /\ s.obj = held[th] /\ s.obj = NULL /\ s.state \in {"Free", "Retired"}
      /\ s.pins = slots[Row(th)].pins /\ s.rights = {} /\ s.nonce = 0 /\ s.rtype = "Invalid"
  BY <1>2, <1>3, ClearedFacts
<1> HIDE DEF s
<1> QED BY <1>1, <1>2, <1>4, CloseEnd

\* The replace ends: the row and the caller exchange references.
LEMMA FinishAdoptReplaceStep ==
  ASSUME IInv, NEW th \in Threads, FinishAdoptReplace(th), spent' \subseteq Tokens
  PROVE  IInv'
<1> DEFINE r == Row(th)
           s == [slots[r] EXCEPT !.obj = held[th], !.rights = reg[th].want,
                                 !.generation = NextGeneration(r), !.state = "Live", !.lineage = reg[th].want]
<1>1. /\ pc[th] = "adopting" /\ pc[th] \in Closers /\ PinsGone(r) /\ slots' = [slots EXCEPT ![r] = s]
      /\ tab' = EndOperation(reg[th].tab) /\ HoldRef(th, DetachedRef(r)) /\ Rest(th, "using")
      /\ refcount' = refcount /\ life' = life /\ victims' = victims /\ ticket' = ticket /\ lastNonce' = lastNonce
  BY DEF FinishAdoptReplace, objVars, Closers
<1>2. held[th] \in Objects /\ held[th] # NULL /\ reg[th] \in Locals
  BY <1>1, ConstantFacts DEF IInv, LocalsOK, ThreadOK, Owning, TypeOK
<1>3. slots[r] \in HandleSlot /\ slots[r].generation # kHandleGenerationMax
  BY <1>1, BusyRows DEF IInv, TypeOK, Busy, TableInv, ClosingRows
<1>4. NextGeneration(r) \in 0..kHandleGenerationMax
  BY <1>3, ConstantsAssumption DEF NextGeneration, HandleSlot
<1>5. reg[th].want \in SUBSET kHandleRightAll /\ held[th] \in Objects \cup {NULL} /\ "Live" \in SlotStates
  BY <1>2 DEF Locals, SlotStates
<1>6. s \in HandleSlot
  BY <1>3, <1>4, <1>5, Zenon DEF HandleSlot
<1>7. s.obj = held[th] /\ s.state = "Live" /\ s.pins = slots[r].pins
  BY <1>3 DEF HandleSlot
<1> HIDE DEF s
<1> QED BY <1>1, <1>2, <1>6, <1>7, CloseEnd

-----------------------------------------------------------------------------
(* HandleTableDrain *)

\* An idle table has no operation in it.
LEMMA NoOperation ==
  ASSUME IInv, NEW t \in Tables, tab[t].ops = 0
  PROVE  /\ \A th \in Threads : pc[th] \in Busy => reg[th].tab # t
         /\ \A i \in Slots : slots[<<t, i>>].state # "Closing"
<1>1. \A th \in Threads : pc[th] \in Busy => reg[th].tab # t
  <2>1. Count(BusyAt, Threads, t) = 0
    BY DEF IInv, TableInv, OpsExact
  <2>2. \A th \in Threads : BusyAt[th] # t
    BY <2>1, CountNat, ConstantFacts
  <2> QED BY <2>2 DEF BusyAt
<1>2. \A i \in Slots : <<t, i>> \in Rows
  BY DEF Rows
<1> QED BY <1>1, <1>2 DEF IInv, TableInv, ClosingRows, Busy, Row

\* HandleTableDrain makes one owner, or joins the drain in progress.
LEMMA DrainBeginStep ==
  ASSUME IInv, NEW th \in Threads, NEW t \in Tables, DrainBegin(th, t), spent' \subseteq Tokens
  PROVE  IInv'
<1> DEFINE l == [NoReg EXCEPT !.tab = t]
           to == IF tab[t].state = "Open" THEN "drainwait" ELSE "drainjoin"
<1>1. /\ pc[th] = "idle" /\ tab[t].state # "Closed" /\ tab' = [tab EXCEPT ![t].state = "Draining"] /\ Goto(th, to, l)
      /\ slots' = slots /\ refcount' = refcount /\ life' = life /\ held' = held /\ victims' = victims
      /\ ticket' = ticket /\ lastNonce' = lastNonce
  BY DEF DrainBegin, objVars
<1>2. l \in Locals /\ l.tab = t /\ to \in {"drainwait", "drainjoin"}
  BY ResetTypes DEF NoReg, Locals
<1> HIDE DEF l
<1>3. pc'[th] = to /\ reg'[th] = l /\ OthersKeepPlace(th)
  BY <1>1, GotoFrame DEF IInv
<1>4. /\ tab' \in [Tables -> TableHeader]
      /\ \A u \in Tables : /\ tab'[u].ops = tab[u].ops
                           /\ tab'[u].state = IF u = t THEN "Draining" ELSE tab[u].state
  <2>1. tab \in [Tables -> TableHeader]
    BY DEF IInv, TypeOK
  <2> QED BY <1>1, <2>1 DEF TableHeader
<1>5. TypeOK'
  BY <1>1, <1>2, <1>4 DEF IInv, TypeOK, Goto, PCs
<1>6. LocalsOK'
  <2>1. ThreadOK(th)'
    BY <1>1, <1>2, <1>3
    DEF IInv, LocalsOK, ThreadOK, Owning, Busy, Pinned, Closers, Releasing, InDrain, NoTicket, NoVictims
  <2> QED BY <1>1, <1>3, <2>1, LocalsFrame DEF IInv
<1>7. TableInv'
  <2>1. KeepRows /\ KeepTables /\ RowsOK'
    BY <1>1, <1>4 DEF KeepRows, KeepTables, RowsOK, IInv, TableInv
  <2> QED BY <1>1, <1>2, <1>3, <2>1, TableKeep DEF IInv, Busy, Pinned, Closers
<1>8. DrainOK'
  <2>1. \A u \in Threads : u # th => /\ InDrain(u)' <=> InDrain(u)
                                     /\ Releasing(u)' <=> Releasing(u)
                                     /\ pc'[u] = pc[u] /\ reg'[u] = reg[u]
    BY <1>3 DEF OthersKeepPlace, InDrain, Releasing
  <2>2. ~Releasing(th)' /\ (InDrain(th)' <=> tab[t].state = "Open")
    BY <1>3 DEF InDrain, Releasing
  <2>3. \A u \in Threads : InDrain(u) => reg[u].tab \in Tables
    BY DEF IInv, LocalsOK, ThreadOK
  <2>4. \A u \in Threads : InDrain(u)' =>
          /\ tab'[reg'[u].tab].state = "Draining"
          /\ pc'[u] # "drainwait" => tab'[reg'[u].tab].ops = 0
          /\ Releasing(u)' => \A i \in Slots : slots'[<<reg'[u].tab, i>>].obj = NULL
    <3> SUFFICES ASSUME NEW u \in Threads, InDrain(u)'
                 PROVE  /\ tab'[reg'[u].tab].state = "Draining"
                        /\ pc'[u] # "drainwait" => tab'[reg'[u].tab].ops = 0
                        /\ Releasing(u)' => \A i \in Slots : slots'[<<reg'[u].tab, i>>].obj = NULL
      OBVIOUS
    <3>1. CASE u = th
      BY <1>2, <1>3, <1>4, <2>2, <3>1
    <3>2. CASE u # th
      BY <1>1, <1>4, <2>1, <2>3, <3>2 DEF IInv, DrainOK
    <3> QED BY <3>1, <3>2
  <2>5. \A u, w \in Threads : InDrain(u)' /\ InDrain(w)' /\ reg'[w].tab = reg'[u].tab => w = u
    BY <1>2, <1>3, <2>1, <2>2 DEF IInv, DrainOK
  <2>6. \A u \in Tables : tab'[u].state = "Closed" =>
          tab'[u].ops = 0 /\ \A i \in Slots : slots'[<<u, i>>].obj = NULL
    BY <1>1, <1>4 DEF IInv, DrainOK
  <2> QED BY <2>4, <2>5, <2>6 DEF DrainOK
<1>9. CountsExact' /\ LifeOK'
  <2>1. RowObj' = RowObj
    BY <1>1 DEF RowObj
  <2> QED BY <1>1, <1>2, <1>3, <2>1, RefFrame DEF IInv
<1> QED BY <1>5, <1>6, <1>7, <1>8, <1>9 DEF IInv

\* A joined drain returns once the table is Closed.
LEMMA DrainJoinedStep ==
  ASSUME IInv, NEW th \in Threads, DrainJoined(th), spent' \subseteq Tokens
  PROVE  IInv'
<1>1. /\ pc[th] = "drainjoin" /\ Goto(th, "idle", NoReg) /\ slots' = slots /\ tab' = tab
      /\ refcount' = refcount /\ life' = life /\ held' = held /\ victims' = victims
      /\ ticket' = ticket /\ lastNonce' = lastNonce
  BY DEF DrainJoined, Rest, objVars, tableVars
<1>2. pc'[th] = "idle" /\ reg'[th] = NoReg
  BY <1>1, GotoFrame DEF IInv
<1>3. ThreadOK(th)'
  BY <1>1, <1>2
  DEF IInv, LocalsOK, ThreadOK, Owning, Busy, Pinned, Closers, Releasing, InDrain, NoTicket, NoVictims
<1>4. lastNonce' \in 0..kNonceMax /\ ticket' \in [Threads -> Reservation]
  BY <1>1 DEF IInv, TypeOK
<1> QED BY <1>1, <1>2, <1>3, <1>4, ResetTypes, UnchangedKeeps, QuietStep
        DEF Busy, Pinned, Closers, Releasing, InDrain, PCs, Resting

\* No operation in flight means no pin and no closing row.
LEMMA DrainQuiescentStep ==
  ASSUME IInv, NEW th \in Threads, DrainQuiescent(th), spent' \subseteq Tokens
  PROVE  IInv'
<1>1. /\ pc[th] = "drainwait" /\ tab[reg[th].tab].ops = 0 /\ Goto(th, "drainsweep", reg[th])
      /\ slots' = slots /\ tab' = tab /\ refcount' = refcount /\ life' = life /\ held' = held
      /\ victims' = victims /\ ticket' = ticket /\ lastNonce' = lastNonce
  BY DEF DrainQuiescent, Quiescent, objVars, tableVars
<1>2. pc'[th] = "drainsweep" /\ reg'[th] = reg[th] /\ OthersKeepPlace(th)
  BY <1>1, GotoFrame DEF IInv
<1>3. TypeOK'
  BY <1>1 DEF IInv, TypeOK, Goto, PCs
<1>4. LocalsOK'
  <2>1. ThreadOK(th)'
    BY <1>1, <1>2
    DEF IInv, LocalsOK, ThreadOK, Owning, Busy, Pinned, Closers, Releasing, InDrain, NoTicket, NoVictims
  <2> QED BY <1>1, <1>2, <2>1, LocalsFrame DEF IInv
<1>5. TableInv'
  BY <1>1, <1>2, TableFrame DEF IInv, Busy, Pinned, Closers
<1>6. DrainOK'
  <2>1. \A u \in Threads : /\ InDrain(u)' <=> InDrain(u)
                           /\ Releasing(u)' => Releasing(u)
                           /\ u # th => pc'[u] = pc[u]
    BY <1>1, <1>2 DEF OthersKeepPlace, InDrain, Releasing
  <2>2. reg' = reg
    BY <1>1 DEF IInv, TypeOK, Goto
  <2> QED BY <1>1, <2>1, <2>2 DEF IInv, DrainOK
<1>7. CountsExact' /\ LifeOK'
  <2>1. RowObj' = RowObj
    BY <1>1 DEF RowObj
  <2> QED BY <1>1, <1>2, <2>1, RefFrame DEF IInv
<1> QED BY <1>3, <1>4, <1>5, <1>6, <1>7 DEF IInv

\* Closed is published with nothing left to release.
LEMMA DrainClosedStep ==
  ASSUME IInv, NEW th \in Threads, DrainClosed(th), spent' \subseteq Tokens
  PROVE  IInv'
<1> DEFINE t == reg[th].tab
<1>1. /\ pc[th] = "drainrelease" /\ victims[th] = NoVictims /\ tab' = [tab EXCEPT ![t].state = "Closed"]
      /\ Goto(th, "idle", NoReg) /\ slots' = slots
      /\ refcount' = refcount /\ life' = life /\ held' = held /\ victims' = victims
      /\ ticket' = ticket /\ lastNonce' = lastNonce
  BY DEF DrainClosed, Rest, objVars
<1>2. t \in Tables /\ held[th] = NULL /\ InDrain(th) /\ Releasing(th)
  BY <1>1 DEF IInv, LocalsOK, ThreadOK, InDrain, Releasing, Owning
<1>3. tab[t].ops = 0 /\ \A i \in Slots : slots[<<t, i>>].obj = NULL
  BY <1>1, <1>2 DEF IInv, DrainOK
<1>4. \A u \in Threads : InDrain(u) /\ u # th => reg[u].tab # t /\ reg[u].tab \in Tables
  BY <1>2 DEF IInv, DrainOK, LocalsOK, ThreadOK
<1> HIDE DEF t
<1>5. pc'[th] = "idle" /\ reg'[th] = NoReg /\ OthersKeepPlace(th)
  BY <1>1, GotoFrame DEF IInv
<1>6. /\ tab' \in [Tables -> TableHeader]
      /\ \A u \in Tables : /\ tab'[u].ops = tab[u].ops
                           /\ tab'[u].state = IF u = t THEN "Closed" ELSE tab[u].state
  <2>1. tab \in [Tables -> TableHeader]
    BY DEF IInv, TypeOK
  <2> QED BY <1>1, <2>1 DEF TableHeader
<1>7. TypeOK'
  BY <1>1, <1>6, ResetTypes DEF IInv, TypeOK, Goto, PCs, Resting
<1>8. LocalsOK'
  <2>1. ThreadOK(th)'
    BY <1>1, <1>2, <1>5
    DEF IInv, LocalsOK, ThreadOK, Owning, Busy, Pinned, Closers, Releasing, InDrain, NoTicket, NoVictims
  <2> QED BY <1>1, <1>5, <2>1, LocalsFrame DEF IInv
<1>9. TableInv'
  <2>1. KeepRows /\ KeepTables /\ RowsOK'
    BY <1>1, <1>6 DEF KeepRows, KeepTables, RowsOK, IInv, TableInv
  <2> QED BY <1>1, <1>5, <2>1, TableKeep DEF IInv, Busy, Pinned, Closers
<1>10. DrainOK'
  <2>1. \A u \in Threads : InDrain(u)' => u # th /\ InDrain(u)
    BY <1>5 DEF OthersKeepPlace, InDrain, Releasing
  <2>2. \A u \in Threads : u # th => pc'[u] = pc[u] /\ reg'[u] = reg[u] /\ (Releasing(u)' <=> Releasing(u))
    BY <1>5 DEF OthersKeepPlace, Releasing
  <2> QED BY <1>1, <1>3, <1>4, <1>6, <2>1, <2>2 DEF IInv, DrainOK
<1>11. CountsExact' /\ LifeOK'
  <2>1. RowObj' = RowObj
    BY <1>1 DEF RowObj
  <2> QED BY <1>1, <1>5, <2>1, RefFrame DEF IInv
<1> QED BY <1>7, <1>8, <1>9, <1>10, <1>11 DEF IInv

\* A column of pairs has as many elements as its index set.
LEMMA ColumnSize ==
  ASSUME NEW A, IsFiniteSet(A), NEW x
  PROVE  LET C == {<<x, i>> : i \in A} IN IsFiniteSet(C) /\ Cardinality(C) = Cardinality(A)
<1> DEFINE C == {<<x, i>> : i \in A}
           f == [i \in A |-> <<x, i>>]
<1>1. f \in Bijection(A, C)
  BY DEF Bijection, Injection, Surjection, IsInjective
<1>2. ExistsBijection(A, C)
  BY <1>1 DEF ExistsBijection
<1> QED BY <1>2, FS_Bijection

\* On the rectangle P = X \X S, f and g differ in column x alone, where f has
\* the value p at the rows in A and g nowhere.
ColumnEmptied(f, g, X, S, P, x, A, p) ==
  /\ IsFiniteSet(S) /\ IsFiniteSet(P) /\ P = X \X S /\ x \in X
  /\ A = {i \in S : f[<<x, i>>] = p}
  /\ \A i \in S : g[<<x, i>>] # p
  /\ \A y \in X, i \in S : y # x => g[<<y, i>>] = f[<<y, i>>]

\* Emptying a column takes away what the column counted.
LEMMA ColumnCount ==
  ASSUME NEW f, NEW g, NEW X, NEW S, NEW P, NEW x, NEW A, NEW p, ColumnEmptied(f, g, X, S, P, x, A, p)
  PROVE  /\ Count(f, P, p) = Count(g, P, p) + Cardinality(A)
         /\ Cardinality(A) \in Nat
<1> DEFINE C == {<<x, i>> : i \in A}
           F == {v \in P : f[v] = p}
           G == {v \in P : g[v] = p}
<1> USE DEF ColumnEmptied
<1>1. IsFiniteSet(A) /\ IsFiniteSet(G)
  BY FS_Subset
<1>2. IsFiniteSet(C) /\ Cardinality(C) = Cardinality(A)
  BY ONLY <1>1, ColumnSize
<1>3. F = G \cup C
  <2>1. F \subseteq G \cup C
    <3> SUFFICES ASSUME NEW v \in F, v \notin G PROVE v \in C
      OBVIOUS
    <3>1. PICK y \in X, i \in S : v = <<y, i>>
      OBVIOUS
    <3>2. y = x
      BY <3>1
    <3> QED BY <3>1, <3>2
  <2>2. G \subseteq F
    <3> SUFFICES ASSUME NEW v \in G PROVE v \in F
      OBVIOUS
    <3>1. PICK y \in X, i \in S : v = <<y, i>>
      OBVIOUS
    <3>2. y # x
      BY <3>1
    <3>3. f[v] = p
      BY <3>1, <3>2
    <3> QED BY <3>3
  <2>3. C \subseteq F
    <3> SUFFICES ASSUME NEW i \in A PROVE <<x, i>> \in P /\ f[<<x, i>>] = p
      OBVIOUS
    <3> QED OBVIOUS
  <2> QED BY <2>1, <2>2, <2>3
<1>4. G \cap C = {}
  OBVIOUS
<1>5. Count(f, P, p) = Cardinality(F) /\ Count(g, P, p) = Cardinality(G)
  BY DEF Count
<1> HIDE DEF C, F, G
<1>6. Cardinality(F) = Cardinality(G) + Cardinality(C) /\ Cardinality(G) \in Nat /\ Cardinality(C) \in Nat
  <2>1. Cardinality(G \cup C) = Cardinality(G) + Cardinality(C) - Cardinality(G \cap C)
    BY ONLY <1>1, <1>2, FS_Union
  <2>2. Cardinality(G \cap C) = 0
    BY ONLY <1>4, FS_EmptySet
  <2>3. Cardinality(G) \in Nat /\ Cardinality(C) \in Nat
    BY ONLY <1>1, <1>2, FS_CardinalityType
  <2> QED BY ONLY <1>3, <2>1, <2>2, <2>3
<1>7. Cardinality(F) = Cardinality(G) + Cardinality(A) /\ Cardinality(A) \in Nat
  BY <1>2, <1>6
<1> QED BY <1>5, <1>7

\* Sweeping a table moves its references, whatever their number, to the victims.
LEMMA SweepRefs ==
  ASSUME TypeOK, CountsExact, NEW th \in Threads, NEW t \in Tables, victims[th] = NoVictims,
         \A i \in Slots : slots'[<<t, i>>].obj = NULL /\ victims'[th][i] = slots[<<t, i>>].obj,
         \A r \in Rows : r[1] # t => slots'[r].obj = slots[r].obj,
         \A u \in Threads \ {th} : victims'[u] = victims[u],
         held' = held, refcount' = refcount
  PROVE  CountsExact'
<1> SUFFICES ASSUME NEW p \in Objects
             PROVE refcount'[p] = Count(RowObj', Rows, p) + Count(held', Threads, p)
                                    + Count(VictimObj', VictimPlaces, p)
  BY CountPrimes
<1> DEFINE moved == {i \in Slots : slots[<<t, i>>].obj = p}
<1>1. \A u \in Tables, i \in Slots :
        /\ <<u, i>> \in Rows /\ RowObj[<<u, i>>] = slots[<<u, i>>].obj /\ RowObj'[<<u, i>>] = slots'[<<u, i>>].obj
        /\ u # t => slots'[<<u, i>>].obj = slots[<<u, i>>].obj
  BY DEF RowObj, Rows
<1>2. \A u \in Threads, i \in Slots :
        VictimObj[<<u, i>>] = victims[u][i] /\ VictimObj'[<<u, i>>] = victims'[u][i]
  BY DEF VictimObj, VictimPlaces
<1>3. moved = {i \in Slots : RowObj[<<t, i>>] = p} /\ moved = {i \in Slots : VictimObj'[<<th, i>>] = p}
  BY <1>1, <1>2
<1>4. Count(RowObj, Rows, p) = Count(RowObj', Rows, p) + Cardinality(moved) /\ Cardinality(moved) \in Nat
  <2>1. \A i \in Slots : RowObj'[<<t, i>>] # p
    BY <1>1, ConstantFacts
  <2>2. \A u \in Tables, i \in Slots : u # t => RowObj'[<<u, i>>] = RowObj[<<u, i>>]
    BY <1>1
  <2>3. IsFiniteSet(Rows) /\ IsFiniteSet(Slots) /\ Rows = Tables \X Slots
    BY ConstantFacts DEF Rows
  <2> HIDE DEF moved
  <2>4. ColumnEmptied(RowObj, RowObj', Tables, Slots, Rows, t, moved, p)
    BY <1>3, <2>1, <2>2, <2>3 DEF ColumnEmptied
  <2> QED BY <2>4, ColumnCount
<1>5. Count(VictimObj', VictimPlaces, p) = Count(VictimObj, VictimPlaces, p) + Cardinality(moved)
  <2>1. \A i \in Slots : VictimObj[<<th, i>>] # p
    BY <1>2, ConstantFacts DEF NoVictims
  <2>2. \A u \in Threads, i \in Slots : u # th => VictimObj[<<u, i>>] = VictimObj'[<<u, i>>]
    BY <1>2
  <2>3. IsFiniteSet(VictimPlaces) /\ IsFiniteSet(Slots) /\ VictimPlaces = Threads \X Slots
    BY ConstantFacts DEF VictimPlaces
  <2> HIDE DEF moved
  <2>4. ColumnEmptied(VictimObj', VictimObj, Threads, Slots, VictimPlaces, th, moved, p)
    BY <1>3, <2>1, <2>2, <2>3 DEF ColumnEmptied
  <2> QED BY <2>4, ColumnCount
<1> HIDE DEF moved
<1>6. refcount[p] = Count(RowObj, Rows, p) + Count(held, Threads, p) + Count(VictimObj, VictimPlaces, p)
  BY DEF CountsExact
<1>7. Count(RowObj', Rows, p) \in Nat
  BY CountNat, ConstantFacts
<1> QED BY <1>4, <1>5, <1>6, <1>7, CountFacts

\* The sweep moves every row's reference to the victim array.
LEMMA DrainSweepStep ==
  ASSUME IInv, NEW th \in Threads, DrainSweep(th), spent' \subseteq Tokens
  PROVE  IInv'
<1> DEFINE t == reg[th].tab
           swept == [i \in Slots |-> IF slots[<<t, i>>].state = "Live" THEN slots[<<t, i>>].obj ELSE NULL]
<1>1. /\ pc[th] = "drainsweep" /\ victims' = [victims EXCEPT ![th] = swept]
      /\ slots' = [r \in Rows |-> IF r[1] = t /\ slots[r].state \in {"Live", "Reserved"}
                                  THEN Cleared(slots[r]) ELSE slots[r]]
      /\ Goto(th, "drainrelease", reg[th])
      /\ tab' = tab /\ refcount' = refcount /\ life' = life /\ held' = held
      /\ ticket' = ticket /\ lastNonce' = lastNonce
  BY DEF DrainSweep, objVars
<1>2. InDrain(th) /\ ~Releasing(th)
  BY <1>1 DEF InDrain, Releasing
<1>3. t \in Tables /\ held[th] = NULL /\ victims[th] = NoVictims
  BY <1>1, <1>2 DEF IInv, LocalsOK, ThreadOK, Owning
<1>4. tab[t].ops = 0 /\ \A u \in Threads : InDrain(u) /\ reg[u].tab = t => u = th
  BY <1>1, <1>2 DEF IInv, DrainOK
<1>5. \A i \in Slots : <<t, i>> \in Rows
  BY <1>3 DEF Rows
<1>6. \A r \in Rows : r = <<r[1], r[2]>> /\ r[2] \in Slots /\ slots[r] \in HandleSlot
  BY Counters DEF Rows
<1>7. /\ \A u \in Threads : pc[u] \in Busy => reg[u].tab # t
      /\ \A i \in Slots : slots[<<t, i>>].state # "Closing"
  BY <1>3, <1>4, NoOperation
<1> HIDE DEF t
<1>8. pc'[th] = "drainrelease" /\ reg'[th] = reg[th] /\ OthersKeepPlace(th)
  BY <1>1, GotoFrame DEF IInv
<1>9. \A r \in Rows : /\ slots'[r] \in HandleSlot /\ slots'[r].pins = slots[r].pins
                      /\ slots'[r].generation = slots[r].generation
                      /\ slots'[r] = slots[r] \/ (/\ r[1] = t /\ slots'[r].obj = NULL
                                                  /\ slots'[r].state \in {"Free", "Retired"}
                                                  /\ slots'[r].rights = {} /\ slots'[r].nonce = 0
                                                  /\ slots'[r].rtype = "Invalid")
                      /\ r[1] = t /\ slots[r].state = "Live" => slots'[r].obj = NULL
  BY <1>1, <1>6, ClearedFacts
<1>10. slots' \in [Rows -> HandleSlot]
  <2>1. slots' = [r \in Rows |-> slots'[r]]
    BY <1>1
  <2> QED BY <1>9, <2>1
<1>11. \A i \in Slots : slots'[<<t, i>>].obj = NULL /\ swept[i] = slots[<<t, i>>].obj
  <2> TAKE i \in Slots
  <2>1. slots[<<t, i>>].obj # NULL => slots[<<t, i>>].state = "Live"
    BY <1>5, <1>7 DEF IInv, TableInv, RowsOK
  <2>2. slots[<<t, i>>].state = "Live" => slots'[<<t, i>>].obj = NULL
    BY <1>5, <1>9
  <2>3. slots[<<t, i>>].obj = NULL => slots'[<<t, i>>].obj = NULL
    BY <1>5, <1>9
  <2> QED BY <2>1, <2>2, <2>3
<1>12. swept \in [Slots -> Objects \cup {NULL}]
  <2>1. \A i \in Slots : slots[<<t, i>>].obj \in Objects \cup {NULL}
    BY <1>5, <1>6 DEF HandleSlot
  <2> QED BY <2>1
<1> HIDE DEF swept
<1>13. TypeOK'
  BY <1>1, <1>10, <1>12 DEF IInv, TypeOK, Goto, PCs
<1>14. victims'[th] = swept /\ \A u \in Threads \ {th} : victims'[u] = victims[u]
  BY <1>1 DEF IInv, TypeOK
<1>15. LocalsOK'
  <2>1. ThreadOK(th)'
    BY <1>1, <1>3, <1>8
    DEF IInv, LocalsOK, ThreadOK, Owning, Busy, Pinned, Closers, Releasing, InDrain, NoTicket, NoVictims, t
  <2> QED BY <1>1, <1>8, <1>14, <2>1, LocalsFrame DEF IInv
<1>16. PinsExact'
  BY <1>1, <1>8, <1>9, PinsKept DEF Pinned
<1>17. OpsExact'
  <2>1. BusyAt' = BusyAt
    BY <1>1, <1>8 DEF BusyAt, OthersKeepPlace, Busy, Pinned, Closers
  <2> QED BY <1>1, <2>1, CountPrimes DEF IInv, TableInv, OpsExact
<1>18. RowsOK'
  BY <1>9 DEF IInv, TableInv, RowsOK
<1>19. \A u \in Threads : pc'[u] \in Busy =>
         /\ pc'[u] = pc[u] /\ reg'[u] = reg[u] /\ Row(u)' = Row(u) /\ Row(u) \in Rows
         /\ slots'[Row(u)] = slots[Row(u)]
  <2> SUFFICES ASSUME NEW u \in Threads, pc'[u] \in Busy
               PROVE /\ pc'[u] = pc[u] /\ reg'[u] = reg[u] /\ Row(u)' = Row(u) /\ Row(u) \in Rows
                     /\ slots'[Row(u)] = slots[Row(u)]
    OBVIOUS
  <2>1. pc'[u] = pc[u] /\ reg'[u] = reg[u]
    BY <1>8 DEF OthersKeepPlace, Busy, Pinned, Closers
  <2>2. Row(u)' = Row(u) /\ Row(u) \in Rows /\ Row(u)[1] # t
    BY <1>7, <2>1, BusyRows DEF IInv, Row
  <2> QED BY <1>9, <2>1, <2>2
<1>20. PinnedRows'
  BY <1>19 DEF IInv, TableInv, PinnedRows, Busy
<1>21. ClosingRows'
  <2>1. \A u \in Threads : pc'[u] \in Closers <=> pc[u] \in Closers
    BY <1>1, <1>8 DEF OthersKeepPlace, Closers
  <2>2. \A r \in Rows : slots'[r].state = "Closing" => \E u \in Threads : pc'[u] \in Closers /\ Row(u)' = r
    BY <1>9, <1>19, <2>1 DEF IInv, TableInv, ClosingRows, Busy
  <2>3. \A u \in Threads : pc'[u] \in Closers =>
          /\ slots'[Row(u)'].state = "Closing" /\ slots'[Row(u)'].generation = reg'[u].gen
          /\ pc'[u] = "adopting" => reg'[u].gen # kHandleGenerationMax
    BY <1>19, <2>1 DEF IInv, TableInv, ClosingRows, Busy
  <2>4. \A u, w \in Threads : pc'[u] \in Closers /\ pc'[w] \in Closers /\ Row(w)' = Row(u)' => w = u
    BY <1>19, <2>1 DEF IInv, TableInv, ClosingRows, Busy
  <2> QED BY <2>2, <2>3, <2>4 DEF ClosingRows
<1>22. DrainOK'
  <2>1. \A u \in Threads : /\ InDrain(u)' <=> InDrain(u)
                           /\ u # th => (Releasing(u)' <=> Releasing(u)) /\ pc'[u] = pc[u]
    BY <1>1, <1>8 DEF OthersKeepPlace, InDrain, Releasing
  <2>2. reg' = reg
    BY <1>1 DEF IInv, TypeOK, Goto
  <2>3. \A u \in Tables, i \in Slots : slots[<<u, i>>].obj = NULL => slots'[<<u, i>>].obj = NULL
    BY <1>9 DEF Rows
  <2>4. \A u \in Threads : InDrain(u) => reg[u].tab \in Tables
    BY DEF IInv, LocalsOK, ThreadOK
  <2>5. \A u \in Threads : InDrain(u)' =>
          /\ tab'[reg'[u].tab].state = "Draining"
          /\ pc'[u] # "drainwait" => tab'[reg'[u].tab].ops = 0
          /\ Releasing(u)' => \A i \in Slots : slots'[<<reg'[u].tab, i>>].obj = NULL
    <3> SUFFICES ASSUME NEW u \in Threads, InDrain(u)'
                 PROVE  /\ tab'[reg'[u].tab].state = "Draining"
                        /\ pc'[u] # "drainwait" => tab'[reg'[u].tab].ops = 0
                        /\ Releasing(u)' => \A i \in Slots : slots'[<<reg'[u].tab, i>>].obj = NULL
      OBVIOUS
    <3>1. CASE u = th
      BY <1>1, <1>2, <1>4, <1>11, <2>2, <3>1 DEF IInv, DrainOK, t
    <3>2. CASE u # th
      BY <1>1, <2>1, <2>2, <2>3, <2>4, <3>2 DEF IInv, DrainOK
    <3> QED BY <3>1, <3>2
  <2>6. \A u, w \in Threads : InDrain(u)' /\ InDrain(w)' /\ reg'[w].tab = reg'[u].tab => w = u
    BY <2>1, <2>2 DEF IInv, DrainOK
  <2>7. \A u \in Tables : tab'[u].state = "Closed" =>
          tab'[u].ops = 0 /\ \A i \in Slots : slots'[<<u, i>>].obj = NULL
    BY <1>1, <2>3 DEF IInv, DrainOK
  <2> QED BY <2>5, <2>6, <2>7 DEF DrainOK
<1>23. CountsExact'
  <2>1. \A r \in Rows : r[1] # t => slots'[r].obj = slots[r].obj
    BY <1>9
  <2> QED BY <1>1, <1>3, <1>11, <1>14, <2>1, SweepRefs DEF IInv
<1>24. LifeOK'
  <2>1. DestroyAt' = DestroyAt
    BY <1>1, <1>8 DEF DestroyAt, OthersKeepPlace
  <2> QED BY <1>1, <2>1, CountPrimes DEF IInv, LifeOK
<1> QED BY <1>13, <1>15, <1>16, <1>17, <1>18, <1>20, <1>21, <1>22, <1>23, <1>24 DEF IInv, TableInv

\* A drain drops the reference in one place of its victim array.
LEMMA LoseVictim ==
  ASSUME TypeOK, CountsExact, NEW th \in Threads, NEW i \in Slots, NEW o \in Objects, victims[th][i] = o,
         victims' = [victims EXCEPT ![th][i] = NULL],
         slots' = slots, held' = held, refcount' = [refcount EXCEPT ![o] = @ - 1]
  PROVE  CountsExact'
<1> SUFFICES ASSUME NEW p \in Objects
             PROVE refcount'[p] = Count(RowObj', Rows, p) + Count(held', Threads, p)
                                    + Count(VictimObj', VictimPlaces, p)
  BY CountPrimes
<1> DEFINE v == <<th, i>>
<1>1. RowObj' = RowObj
  BY DEF RowObj
<1>2. v \in VictimPlaces /\ IsFiniteSet(VictimPlaces)
  BY ConstantFacts DEF VictimPlaces
<1>3. VictimObj[v] = o /\ VictimObj'[v] = NULL
  BY <1>2 DEF VictimObj, TypeOK
<1>4. \A y \in VictimPlaces : y # v => VictimObj'[y] = VictimObj[y]
  <2> SUFFICES ASSUME NEW u \in Threads, NEW j \in Slots, <<u, j>> # v
               PROVE  VictimObj'[<<u, j>>] = VictimObj[<<u, j>>]
    BY DEF VictimPlaces
  <2>1. <<u, j>> \in VictimPlaces
    BY DEF VictimPlaces
  <2>2. victims'[u][j] = victims[u][j]
    BY DEF TypeOK
  <2> QED BY <2>1, <2>2 DEF VictimObj
<1> HIDE DEF v
<1>5. Count(VictimObj', VictimPlaces, p) + One(o, p) = Count(VictimObj, VictimPlaces, p) + One(NULL, p)
  <2>1. Count(VictimObj', VictimPlaces, p) + One(VictimObj[v], p)
          = Count(VictimObj, VictimPlaces, p) + One(VictimObj'[v], p)
    <3>1. OneChange(VictimObj, VictimObj', VictimPlaces, v)
      BY <1>2, <1>4 DEF OneChange
    <3> QED BY <3>1, CountUpdate
  <2> QED BY <1>3, <2>1
<1>6. One(NULL, p) = 0 /\ One(o, p) \in Nat
  BY ConstantFacts DEF One
<1>7. refcount'[p] = refcount[p] - One(o, p)
  BY DEF TypeOK, One
<1>8. Count(VictimObj', VictimPlaces, p) \in Nat
  BY <1>2, CountNat
<1> QED BY <1>1, <1>5, <1>6, <1>7, <1>8, CountFacts DEF CountsExact

\* The next victim is released.
LEMMA DrainReleaseStep ==
  ASSUME IInv, NEW th \in Threads, DrainRelease(th), spent' \subseteq Tokens
  PROVE  IInv'
<1>1. PICK i \in Slots : /\ victims[th][i] # NULL
                         /\ DropRef(th, victims[th][i], "drainrelease")
                         /\ victims' = [victims EXCEPT ![th][i] = NULL]
  BY DEF DrainRelease
<1> DEFINE o == victims[th][i]
           l == IF ReachesZero(o) THEN [reg[th] EXCEPT !.ptr = o, !.cont = "drainrelease"]
                                  ELSE [reg[th] EXCEPT !.ptr = NULL]
           to == IF ReachesZero(o) THEN "destroy" ELSE "drainrelease"
<1>2. /\ pc[th] = "drainrelease" /\ slots' = slots /\ tab' = tab /\ life' = life /\ held' = held
      /\ ticket' = ticket /\ lastNonce' = lastNonce
  BY DEF DrainRelease, tableVars
<1>3. InDrain(th) /\ Releasing(th)
  BY <1>2 DEF InDrain, Releasing
<1>4. o \in Objects /\ held[th] = NULL /\ reg[th].tab \in Tables
  <2>1. o \in Objects
    BY <1>1 DEF IInv, TypeOK
  <2>2. held[th] = NULL /\ reg[th].tab \in Tables
    BY <1>2, <1>3 DEF IInv, LocalsOK, ThreadOK, Owning
  <2> QED BY <2>1, <2>2
<1>5. refcount[o] # 0 /\ refcount[o] \in Nat /\ life[o] = "alive"
  BY <1>4, OwnedIsAlive
<1>6. refcount' = [refcount EXCEPT ![o] = @ - 1] /\ Goto(th, to, l)
  BY <1>1, <1>5 DEF DropRef
<1>7. reg[th] \in Locals
  BY DEF IInv, TypeOK
<1>8. /\ l \in Locals /\ l.tab = reg[th].tab
      /\ to = "destroy" => l.ptr = o /\ l.cont = "drainrelease"
      /\ to \in {"destroy", "drainrelease"} /\ (to = "destroy" <=> refcount[o] = 1)
  <2>1. o \in Objects \cup {NULL} /\ NULL \in Objects \cup {NULL} /\ "drainrelease" \in PCs
    BY <1>4 DEF PCs
  <2>2. /\ [reg[th] EXCEPT !.ptr = o, !.cont = "drainrelease"] \in Locals
        /\ [reg[th] EXCEPT !.ptr = NULL] \in Locals
    BY <1>7, <2>1, Zenon DEF Locals
  <2>3. /\ [reg[th] EXCEPT !.ptr = o, !.cont = "drainrelease"].ptr = o
        /\ [reg[th] EXCEPT !.ptr = o, !.cont = "drainrelease"].cont = "drainrelease"
        /\ [reg[th] EXCEPT !.ptr = o, !.cont = "drainrelease"].tab = reg[th].tab
        /\ [reg[th] EXCEPT !.ptr = NULL].tab = reg[th].tab
    BY <1>7, Zenon DEF Locals
  <2>4. l \in Locals /\ l.tab = reg[th].tab /\ (to = "destroy" => l.ptr = o /\ l.cont = "drainrelease")
    BY <2>2, <2>3
  <2> QED BY <2>4 DEF ReachesZero
<1>9. pc'[th] = to /\ reg'[th] = l /\ OthersKeepPlace(th)
  BY <1>6, GotoFrame DEF IInv
<1> HIDE DEF l, to
<1>10. InDrain(th)' /\ Releasing(th)'
  BY <1>8, <1>9 DEF InDrain, Releasing
<1>11. CountsExact'
  BY <1>1, <1>2, <1>4, <1>6, LoseVictim DEF IInv
<1> HIDE DEF o
<1>12. victims' \in [Threads -> [Slots -> Objects \cup {NULL}]] /\ \A u \in Threads \ {th} : victims'[u] = victims[u]
  BY <1>1 DEF IInv, TypeOK
<1>13. TypeOK'
  <2>1. refcount \in [Objects -> 0..kU32Max] /\ kU32Max \in Nat
    BY ConstantsAssumption DEF IInv, TypeOK
  <2>2. refcount' \in [Objects -> 0..kU32Max]
    BY <1>4, <1>5, <1>6, <2>1
  <2> QED BY <1>2, <1>6, <1>8, <1>12, <2>2 DEF IInv, TypeOK, Goto, PCs
<1>14. LocalsOK'
  <2>1. ThreadOK(th)'
    BY <1>2, <1>4, <1>8, <1>9, <1>10
    DEF IInv, LocalsOK, ThreadOK, Owning, Busy, Pinned, Closers, NoTicket
  <2> QED BY <1>2, <1>9, <1>12, <2>1, LocalsFrame DEF IInv
<1>15. TableInv'
  BY <1>2, <1>8, <1>9, TableFrame DEF IInv, Busy, Pinned, Closers
<1>16. DrainOK'
  BY <1>2, <1>3, <1>8, <1>9, <1>10, DrainFrame DEF IInv
<1>17. LifeOK'
  <2> SUFFICES ASSUME NEW p \in Objects
               PROVE /\ refcount'[p] # 0 => life'[p] = "alive"
                     /\ Count(DestroyAt', Threads, p) = IF life'[p] = "alive" /\ refcount'[p] = 0 THEN 1 ELSE 0
    BY CountPrimes
  <2>1. DestroyAt[th] = NULL /\ DestroyAt'[th] = IF to = "destroy" THEN o ELSE NULL
    BY <1>2, <1>8, <1>9 DEF DestroyAt
  <2>2. Count(DestroyAt', Threads, p) = Count(DestroyAt, Threads, p) + IF to = "destroy" /\ p = o THEN 1 ELSE 0
    <3>1. Count(DestroyAt', Threads, p) \in Nat /\ Count(DestroyAt, Threads, p) \in Nat
      BY CountNat, ConstantFacts
    <3> QED BY <1>9, <2>1, <3>1, ThreadCounts, ConstantFacts DEF One
  <2>3. /\ refcount[p] # 0 => life[p] = "alive"
        /\ Count(DestroyAt, Threads, p) = IF life[p] = "alive" /\ refcount[p] = 0 THEN 1 ELSE 0
    BY DEF IInv, LifeOK
  <2>4. refcount'[p] = IF p = o THEN refcount[o] - 1 ELSE refcount[p]
    BY <1>6 DEF IInv, TypeOK
  <2> QED BY <1>2, <1>5, <1>8, <2>2, <2>3, <2>4
<1> QED BY <1>11, <1>13, <1>14, <1>15, <1>16, <1>17 DEF IInv

\* A closed table is empty, so starting its storage afresh loses nothing.
LEMMA TableReuseStep ==
  ASSUME IInv, NEW t \in Tables, TableReuse(t), spent' \subseteq Tokens
  PROVE  IInv'
<1>1. /\ tab[t].state = "Closed" /\ \A th \in Threads : reg[th].tab # t
      /\ slots' = [r \in Rows |-> IF r[1] = t THEN FreshSlot ELSE slots[r]]
      /\ tab' = [tab EXCEPT ![t] = [hint |-> 0, ops |-> 0, state |-> "Open"]]
      /\ refcount' = refcount /\ life' = life /\ pc' = pc /\ reg' = reg /\ held' = held
      /\ victims' = victims /\ ticket' = ticket /\ lastNonce' = lastNonce
  BY DEF TableReuse, objVars, threadVars
<1>2. tab[t].ops = 0 /\ \A i \in Slots : slots[<<t, i>>].obj = NULL
  BY <1>1 DEF IInv, DrainOK
<1>3. \A r \in Rows : r = <<r[1], r[2]>> /\ r[1] \in Tables /\ r[2] \in Slots
  BY DEF Rows
<1>4. \A r \in Rows : r[1] = t => slots[r].obj = NULL /\ slots[r].pins = 0
  BY <1>2, <1>3, EmptyUnpinned
<1>5. \A r \in Rows : /\ r[1] # t => slots'[r] = slots[r]
                      /\ r[1] = t => slots'[r] = FreshSlot
  BY <1>1
<1>6. \A u \in Tables : /\ u # t => tab'[u] = tab[u]
                        /\ tab'[u].ops = tab[u].ops
                        /\ u = t => tab'[u].state = "Open"
  BY <1>1, <1>2 DEF IInv, TypeOK
<1>7. \A r \in Rows : slots'[r].pins = slots[r].pins /\ slots'[r].obj = slots[r].obj
  BY <1>4, <1>5 DEF FreshSlot
<1>8. TypeOK'
  <2>1. slots' \in [Rows -> HandleSlot]
    BY <1>1, ResetTypes DEF IInv, TypeOK
  <2>2. tab' \in [Tables -> TableHeader]
    <3>1. [hint |-> 0, ops |-> 0, state |-> "Open"] \in TableHeader
      BY ConstantsAssumption DEF TableHeader
    <3> QED BY <1>1, <3>1 DEF IInv, TypeOK
  <2> QED BY <1>1, <2>1, <2>2 DEF IInv, TypeOK
<1>9. LocalsOK'
  BY <1>1 DEF IInv, LocalsOK, ThreadOK, Releasing, InDrain, NoTicket, NoVictims
<1>10. PinsExact' /\ OpsExact'
  <2>1. PinAt' = PinAt /\ BusyAt' = BusyAt
    BY <1>1 DEF PinAt, BusyAt, Row
  <2> QED BY <1>6, <1>7, <2>1, CountPrimes DEF IInv, TableInv, PinsExact, OpsExact
<1>11. RowsOK'
  <2>1. \A r \in Rows : r[1] = t => slots'[r].state = "Free" /\ slots'[r].obj = NULL /\ slots'[r].rights = {}
                                      /\ slots'[r].nonce = 0 /\ slots'[r].rtype = "Invalid"
    BY <1>5 DEF FreshSlot
  <2> QED BY <1>5, <2>1 DEF IInv, TableInv, RowsOK
<1>12. \A u \in Threads : pc[u] \in Busy => Row(u)' = Row(u) /\ Row(u) \in Rows /\ slots'[Row(u)] = slots[Row(u)]
  <2> SUFFICES ASSUME NEW u \in Threads, pc[u] \in Busy
               PROVE  Row(u)' = Row(u) /\ Row(u) \in Rows /\ slots'[Row(u)] = slots[Row(u)]
    OBVIOUS
  <2>1. Row(u)' = Row(u) /\ Row(u) \in Rows /\ Row(u)[1] # t
    BY <1>1, BusyRows DEF Row, IInv
  <2> QED BY <1>5, <2>1
<1>13. PinnedRows'
  BY <1>1, <1>12 DEF IInv, TableInv, PinnedRows, Busy
<1>14. ClosingRows'
  <2>1. \A r \in Rows : slots'[r].state = "Closing" => \E u \in Threads : pc'[u] \in Closers /\ Row(u)' = r
    <3> SUFFICES ASSUME NEW r \in Rows, slots'[r].state = "Closing"
                 PROVE  \E u \in Threads : pc'[u] \in Closers /\ Row(u)' = r
      OBVIOUS
    <3>1. slots[r].state = "Closing"
      BY <1>5 DEF FreshSlot
    <3> QED BY <1>1, <1>12, <3>1 DEF IInv, TableInv, ClosingRows, Busy
  <2>2. \A u \in Threads : pc'[u] \in Closers =>
          /\ slots'[Row(u)'].state = "Closing" /\ slots'[Row(u)'].generation = reg'[u].gen
          /\ pc'[u] = "adopting" => reg'[u].gen # kHandleGenerationMax
    BY <1>1, <1>12 DEF IInv, TableInv, ClosingRows, Busy
  <2>3. \A u, w \in Threads : pc'[u] \in Closers /\ pc'[w] \in Closers /\ Row(w)' = Row(u)' => w = u
    <3>1. \A u \in Threads : Row(u)' = Row(u)
      BY <1>1 DEF Row
    <3> QED BY <1>1, <3>1 DEF IInv, TableInv, ClosingRows
  <2> QED BY <2>1, <2>2, <2>3 DEF ClosingRows
<1>15. DrainOK'
  <2>1. \A u \in Threads : (InDrain(u)' <=> InDrain(u)) /\ (Releasing(u)' <=> Releasing(u))
    BY <1>1 DEF InDrain, Releasing
  <2>2. \A u \in Threads : InDrain(u) => reg[u].tab \in Tables /\ reg[u].tab # t
    BY <1>1 DEF IInv, LocalsOK, ThreadOK
  <2>3. \A u \in Tables, i \in Slots : slots'[<<u, i>>].obj = slots[<<u, i>>].obj
    BY <1>7 DEF Rows
  <2>4. \A u \in Threads : InDrain(u)' =>
          /\ tab'[reg'[u].tab].state = "Draining"
          /\ \A w \in Threads : InDrain(w)' /\ reg'[w].tab = reg'[u].tab => w = u
          /\ pc'[u] # "drainwait" => tab'[reg'[u].tab].ops = 0
          /\ Releasing(u)' => \A i \in Slots : slots'[<<reg'[u].tab, i>>].obj = NULL
    BY <1>1, <1>6, <2>1, <2>2, <2>3 DEF IInv, DrainOK
  <2>5. \A u \in Tables : tab'[u].state = "Closed" =>
          tab'[u].ops = 0 /\ \A i \in Slots : slots'[<<u, i>>].obj = NULL
    BY <1>6, <2>3 DEF IInv, DrainOK
  <2> QED BY <2>4, <2>5 DEF DrainOK
<1>16. CountsExact' /\ LifeOK'
  <2>1. RowObj' = RowObj /\ VictimObj' = VictimObj /\ DestroyAt' = DestroyAt
    BY <1>1, <1>7 DEF RowObj, VictimObj, DestroyAt
  <2> QED BY <1>1, <2>1, CountPrimes DEF IInv, CountsExact, LifeOK
<1> QED BY <1>8, <1>9, <1>10, <1>11, <1>13, <1>14, <1>15, <1>16 DEF IInv, TableInv

-----------------------------------------------------------------------------
(* The specification *)

\* Nothing is counted at the start.
LEMMA InitIInv ==
  ASSUME Init
  PROVE  IInv
<1>1. TypeOK
  <2>1. [hint |-> 0, ops |-> 0, state |-> "Open"] \in TableHeader
    BY ConstantsAssumption DEF TableHeader
  <2> QED BY <2>1, ResetTypes, ConstantsAssumption DEF Init, TypeOK, PCs, Resting
<1>2. \A th \in Threads : /\ pc[th] = "idle" /\ held[th] = NULL /\ victims[th] = NoVictims
                          /\ ticket[th] = NoTicket
  BY DEF Init
<1>3. \A r \in Rows : /\ slots[r].obj = NULL /\ slots[r].pins = 0 /\ slots[r].state = "Free"
                      /\ slots[r].rights = {} /\ slots[r].nonce = 0 /\ slots[r].rtype = "Invalid"
  BY DEF Init, FreshSlot
<1>4. \A t \in Tables : tab[t].ops = 0 /\ tab[t].state = "Open"
  BY DEF Init
<1>5. \A o \in Objects : refcount[o] = 0 /\ life[o] = "unborn"
  BY DEF Init
<1>6. LocalsOK
  BY <1>2 DEF LocalsOK, ThreadOK, Owning, Busy, Pinned, Closers, InDrain, Releasing
<1>7. PinsExact /\ OpsExact
  <2>1. \A th \in Threads : PinAt[th] = NoRow /\ BusyAt[th] = NULL
    BY <1>2 DEF PinAt, BusyAt, Pinned, Busy, Closers
  <2>2. \A r \in Rows : Count(PinAt, Threads, r) = 0
    BY <2>1, CountNat, ConstantFacts
  <2>3. \A t \in Tables : Count(BusyAt, Threads, t) = 0
    BY <2>1, CountNat, ConstantFacts
  <2> QED BY <1>3, <1>4, <2>2, <2>3 DEF PinsExact, OpsExact
<1>8. RowsOK /\ PinnedRows /\ ClosingRows
  BY <1>2, <1>3 DEF RowsOK, PinnedRows, ClosingRows, Pinned, Closers
<1>9. DrainOK
  BY <1>2, <1>4 DEF DrainOK, InDrain, Releasing
<1>10. CountsExact /\ LifeOK
  <2>1. \A o \in Objects : Count(RowObj, Rows, o) = 0
    <3>1. \A r \in Rows : RowObj[r] = NULL
      BY <1>3 DEF RowObj
    <3> QED BY <3>1, CountNat, ConstantFacts
  <2>2. \A o \in Objects : Count(held, Threads, o) = 0
    BY <1>2, CountNat, ConstantFacts
  <2>3. \A o \in Objects : Count(VictimObj, VictimPlaces, o) = 0
    <3>1. \A v \in VictimPlaces : VictimObj[v] = NULL
      BY <1>2 DEF VictimObj, VictimPlaces, NoVictims
    <3> QED BY <3>1, CountNat, ConstantFacts
  <2>4. \A o \in Objects : Count(DestroyAt, Threads, o) = 0
    <3>1. \A th \in Threads : DestroyAt[th] = NULL
      BY <1>2 DEF DestroyAt
    <3> QED BY <3>1, CountNat, ConstantFacts
  <2> QED BY <1>5, <2>1, <2>2, <2>3, <2>4 DEF CountsExact, LifeOK
<1> QED BY <1>1, <1>6, <1>7, <1>8, <1>9, <1>10 DEF IInv, TableInv

\* A new call preserves the invariant.
LEMMA CallStep ==
  ASSUME IInv, NEW th \in Threads, Call(th), spent' \subseteq Tokens
  PROVE  IInv'
<1>1. CASE KObjectInit(th)
  BY <1>1, KObjectInitStep
<1>2. CASE KObjectRelease(th)
  BY <1>2, KObjectReleaseStep
<1>3. CASE AbandonTicket(th)
  BY <1>3, AbandonTicketStep
<1>4. ASSUME NEW t \in Tables, HandleTablePublish(th, t) PROVE IInv'
  BY <1>4, HandleTablePublishStep
<1>5. ASSUME NEW t \in Tables, HandleTableAbort(th, t) PROVE IInv'
  BY <1>5, HandleTableAbortStep
<1>6. ASSUME NEW t \in Tables, DrainBegin(th, t) PROVE IInv'
  BY <1>6, DrainBeginStep
<1>7. ASSUME NEW t \in Tables, NEW rights \in RequestableRights, InsertCheck(th, t, rights) PROVE IInv'
  BY <1>7, InsertCheckStep
<1>8. ASSUME NEW t \in Tables, NEW rights \in RequestableRights, NEW type \in TypesInPlay,
             HandleTableReserve(th, t, type, rights)
      PROVE  IInv'
  BY <1>8, HandleTableReserveStep
<1>9. ASSUME NEW t \in Tables, NEW rights \in RequestableRights, NEW h \in Handles, HandleReplace(th, t, h, rights)
      PROVE  IInv'
  BY <1>9, HandleReplaceStep
<1>10. ASSUME NEW t \in Tables, NEW rights \in RequestableRights, NEW h \in Handles, NEW type \in ExpectedTypes,
              HandleTableAdoptReplace(th, t, h, rights, type)
       PROVE  IInv'
  BY <1>10, HandleTableAdoptReplaceStep
<1>11. ASSUME NEW t \in Tables, NEW h \in Handles, NEW rights \in RequestableRights \cup {{}}, NEW dst \in Tables,
              HandleTableDuplicate(th, t, h, dst, rights)
       PROVE  IInv'
  BY <1>11, HandleTableDuplicateStep
<1>12. ASSUME NEW t \in Tables, NEW h \in Handles, NEW rights \in RequestableRights \cup {{}}, NEW type \in ExpectedTypes,
              HandleTableLookupRef(th, t, h, type, rights)
       PROVE  IInv'
  BY <1>12, HandleTableLookupRefStep
<1>13. ASSUME NEW t \in Tables, NEW h \in Handles, NEW rights \in RequestableRights \cup {{}}, NEW type \in ExpectedTypes,
              HandleTableDetach(th, t, h, type, rights, "using")
       PROVE  IInv'
  BY <1>13, HandleTableDetachStep
<1>14. ASSUME NEW t \in Tables, NEW h \in Handles, HandleTableDetach(th, t, h, "Invalid", {}, "release") PROVE IInv'
  BY <1>14, HandleTableDetachStep
<1> QED BY <1>1, <1>2, <1>3, <1>4, <1>5, <1>6, <1>7, <1>8, <1>9, <1>10, <1>11, <1>12, <1>13, <1>14, Zenon DEF Call

\* The rest of a call preserves the invariant.
LEMMA ContinueStep ==
  ASSUME IInv, NEW th \in Threads, Continue(th), spent' \subseteq Tokens
  PROVE  IInv'
<1>1. CASE KObjectAcquire(th) \/ Unpin(th) \/ DuplicateCheck(th)
  BY <1>1, KObjectAcquireStep, UnpinStep, DuplicateCheckStep
<1>2. CASE InsertCommit(th) \/ InsertFail(th)
  BY <1>2, InsertCommitStep, InsertFailStep
<1>3. CASE FinishDetach(th) \/ FinishAdoptReplace(th)
  BY <1>3, FinishDetachStep, FinishAdoptReplaceStep
<1>4. CASE KObjectRelease(th) \/ DestroyCallback(th)
  BY <1>4, KObjectReleaseStep, DestroyCallbackStep
<1>5. CASE DrainJoined(th) \/ DrainQuiescent(th) \/ DrainSweep(th)
  BY <1>5, DrainJoinedStep, DrainQuiescentStep, DrainSweepStep
<1>6. CASE DrainRelease(th) \/ DrainClosed(th)
  BY <1>6, DrainReleaseStep, DrainClosedStep
<1> QED BY <1>1, <1>2, <1>3, <1>4, <1>5, <1>6 DEF Continue

\* A step that changes nothing.
LEMMA Stutter ==
  ASSUME IInv, UNCHANGED vars
  PROVE  IInv'
<1>1. UNCHANGED <<refcount, life, slots, tab, pc, reg, held, victims, ticket, lastNonce, spent>>
  BY DEF vars
<1>2. TypeOK'
  BY <1>1 DEF IInv, TypeOK
<1>3. LocalsOK'
  BY <1>1 DEF IInv, LocalsOK, ThreadOK, Releasing, InDrain, NoTicket, NoVictims
<1>4. TableInv'
  <2>1. PinAt' = PinAt /\ BusyAt' = BusyAt
    BY <1>1 DEF PinAt, BusyAt, Row
  <2>2. PinsExact' /\ OpsExact'
    BY <1>1, <2>1, CountPrimes DEF IInv, TableInv, PinsExact, OpsExact
  <2> QED BY <1>1, <2>2 DEF IInv, TableInv, RowsOK, PinnedRows, ClosingRows, Row
<1>5. DrainOK'
  BY <1>1 DEF IInv, DrainOK, InDrain, Releasing
<1>6. CountsExact' /\ LifeOK'
  <2>1. RowObj' = RowObj /\ VictimObj' = VictimObj /\ DestroyAt' = DestroyAt
    BY <1>1 DEF RowObj, VictimObj, DestroyAt
  <2> QED BY <1>1, <2>1, CountPrimes DEF IInv, CountsExact, LifeOK
<1> QED BY <1>2, <1>3, <1>4, <1>5, <1>6 DEF IInv

(***************************************************************************)
(* The invariant holds in every state of every run of the object and       *)
(* handle-table code, whatever the numbers of threads, tables, objects and *)
(* slots and the widths of the counters.                                   *)
(***************************************************************************)
THEOREM Inductive == Spec => []IInv
<1>1. Init => IInv
  BY InitIInv
<1>2. IInv /\ [Next]_vars => IInv'
  <2> SUFFICES ASSUME IInv, [Next]_vars PROVE IInv'
    OBVIOUS
  <2>1. CASE UNCHANGED vars
    BY <2>1, Stutter
  <2>2. ASSUME NEW th \in Threads, Step(Call(th) \/ Continue(th)) PROVE IInv'
    <3>1. spent' \subseteq Tokens
      BY <2>2 DEF Step, RecordSpent, IInv, TypeOK
    <3>2. Call(th) \/ Continue(th)
      BY <2>2 DEF Step
    <3> QED BY <3>1, <3>2, CallStep, ContinueStep
  <2>3. ASSUME NEW t \in Tables, TableReuse(t), spent' = {tok \in spent : tok[1][1] # t} PROVE IInv'
    <3>1. spent' \subseteq Tokens
      BY <2>3 DEF IInv, TypeOK
    <3> QED BY <2>3, <3>1, TableReuseStep
  <2> QED BY <2>1, <2>2, <2>3 DEF Next
<1> QED BY <1>1, <1>2, PTL DEF Spec

\* Every variable keeps its type; in particular no u32 counter, generation or
\* nonce leaves its range.
THEOREM TypeCorrect == Spec => []TypeOK
<1>1. IInv => TypeOK
  BY DEF IInv
<1> QED BY <1>1, Inductive, PTL

\* kobject.cpp: a reference count is exactly the number of its owners.
THEOREM RefcountCorrect == Spec => []RefcountExact
<1>1. ASSUME IInv PROVE RefcountExact
  <2> SUFFICES ASSUME NEW o \in Objects
               PROVE  refcount[o] = Cardinality(RowOwners(o)) + Cardinality(ThreadOwners(o))
                                      + Cardinality(VictimOwners(o))
    BY DEF RefcountExact
  <2>1. RowOwners(o) = {r \in Rows : RowObj[r] = o}
    BY DEF RowOwners, RowObj
  <2>2. VictimOwners(o) = {v \in VictimPlaces : VictimObj[v] = o}
    BY DEF VictimOwners, VictimObj, VictimPlaces
  <2>3. ThreadOwners(o) = {th \in Threads : held[th] = o}
    BY DEF ThreadOwners
  <2> QED BY <1>1, <2>1, <2>2, <2>3 DEF IInv, CountsExact, Count
<1> QED BY <1>1, Inductive, PTL

\* handle_table.cpp: no pointer that a path may still dereference dangles,
\* the unretained pointer of a lookup between its two locks included.
THEOREM DanglingFree == Spec => []NoUseAfterFree
<1>1. ASSUME IInv PROVE NoUseAfterFree
  <2>1. \A r \in Rows : slots[r].obj # NULL => life[slots[r].obj] = "alive"
    <3>1. \A r \in Rows : slots[r].obj \in Objects \cup {NULL}
      BY <1>1, Counters DEF HandleSlot
    <3> QED BY <1>1, <3>1, OwnedIsAlive
  <2>2. \A th \in Threads : held[th] # NULL => life[held[th]] = "alive"
    <3>1. \A th \in Threads : held[th] \in Objects \cup {NULL}
      BY <1>1 DEF IInv, TypeOK
    <3> QED BY <1>1, <3>1, OwnedIsAlive
  <2>3. \A th \in Threads : \A i \in Slots : victims[th][i] # NULL => life[victims[th][i]] = "alive"
    <3>1. \A th \in Threads, i \in Slots : victims[th][i] \in Objects \cup {NULL}
      BY <1>1 DEF IInv, TypeOK
    <3> QED BY <1>1, <3>1, OwnedIsAlive
  <2>4. \A th \in Threads : pc[th] \in Pinned => life[reg[th].ptr] = "alive" /\ refcount[reg[th].ptr] > 0
    <3> SUFFICES ASSUME NEW th \in Threads, pc[th] \in Pinned
                 PROVE  life[reg[th].ptr] = "alive" /\ refcount[reg[th].ptr] > 0
      OBVIOUS
    <3>1. reg[th].ptr \in Objects /\ pc[th] \in Busy
      BY <1>1 DEF IInv, LocalsOK, ThreadOK, Busy
    <3>2. Row(th) \in Rows
      BY <1>1, <3>1, BusyRows DEF IInv
    <3>3. slots[Row(th)].obj = reg[th].ptr
      BY <1>1 DEF IInv, TableInv, PinnedRows
    <3> QED BY <1>1, <3>1, <3>2, <3>3, OwnedIsAlive
  <2> QED BY <2>1, <2>2, <2>3, <2>4 DEF NoUseAfterFree
<1> QED BY <1>1, Inductive, PTL

\* kobject.cpp: the destroy callback runs for an object at most once, and only
\* by the thread whose release took the count to zero.
THEOREM DestroyedOnce == Spec => []DestroyOnce
<1>1. ASSUME IInv PROVE DestroyOnce
  <2> SUFFICES ASSUME NEW o \in Objects
               PROVE  Cardinality({th \in Threads : pc[th] = "destroy" /\ reg[th].ptr = o})
                        = IF life[o] = "alive" /\ refcount[o] = 0 THEN 1 ELSE 0
    BY DEF DestroyOnce
  <2>1. {th \in Threads : pc[th] = "destroy" /\ reg[th].ptr = o} = {th \in Threads : DestroyAt[th] = o}
    BY ConstantFacts DEF DestroyAt
  <2> QED BY <1>1, <2>1 DEF IInv, LifeOK, Count
<1> QED BY <1>1, Inductive, PTL

\* handle_table.cpp: its KASSERTs never fire.
THEOREM AssertionsHold == Spec => []KernelAssertions
<1>1. ASSUME IInv PROVE KernelAssertions
  <2>1. \A th \in Threads : pc[th] \in Busy => tab[reg[th].tab].ops > 0
    <3> SUFFICES ASSUME NEW th \in Threads, pc[th] \in Busy PROVE tab[reg[th].tab].ops > 0
      OBVIOUS
    <3>1. reg[th].tab \in Tables
      BY <1>1, BusyRows DEF IInv
    <3>2. BusyAt[th] = reg[th].tab
      BY DEF BusyAt
    <3>3. Count(BusyAt, Threads, reg[th].tab) # 0 /\ Count(BusyAt, Threads, reg[th].tab) \in Nat
      BY <3>2, CountNat, ConstantFacts
    <3> QED BY <1>1, <3>1, <3>3 DEF IInv, TableInv, OpsExact
  <2>2. \A th \in Threads : pc[th] \in Pinned => slots[Row(th)].obj = reg[th].ptr /\ slots[Row(th)].pins > 0
    <3> SUFFICES ASSUME NEW th \in Threads, pc[th] \in Pinned
                 PROVE  slots[Row(th)].obj = reg[th].ptr /\ slots[Row(th)].pins > 0
      OBVIOUS
    <3>1. Row(th) \in Rows
      BY <1>1, BusyRows DEF IInv, Busy
    <3>2. PinAt[th] = Row(th)
      BY DEF PinAt
    <3>3. Count(PinAt, Threads, Row(th)) # 0 /\ Count(PinAt, Threads, Row(th)) \in Nat
      BY <3>2, CountNat, ConstantFacts
    <3> QED BY <1>1, <3>1, <3>3 DEF IInv, TableInv, PinsExact, PinnedRows
  <2>3. \A th \in Threads : pc[th] \in Closers =>
          slots[Row(th)].state = "Closing" /\ slots[Row(th)].generation = reg[th].gen
    BY <1>1 DEF IInv, TableInv, ClosingRows
  <2>4. \A th \in Threads : pc[th] = "drainsweep" =>
          \A i \in Slots : slots[<<reg[th].tab, i>>].state # "Closing" /\ slots[<<reg[th].tab, i>>].pins = 0
    <3> SUFFICES ASSUME NEW th \in Threads, pc[th] = "drainsweep", NEW i \in Slots
                 PROVE  slots[<<reg[th].tab, i>>].state # "Closing" /\ slots[<<reg[th].tab, i>>].pins = 0
      OBVIOUS
    <3> DEFINE t == reg[th].tab
    <3>1. t \in Tables /\ tab[t].ops = 0
      BY <1>1 DEF IInv, LocalsOK, ThreadOK, DrainOK, InDrain
    <3>2. <<t, i>> \in Rows
      BY <3>1 DEF Rows
    <3>3. \A u \in Threads : PinAt[u] # <<t, i>>
      <4> SUFFICES ASSUME NEW u \in Threads, PinAt[u] = <<t, i>> PROVE FALSE
        OBVIOUS
      <4>1. pc[u] \in Pinned /\ Row(u) = <<t, i>>
        BY <3>2, ConstantFacts DEF PinAt
      <4> QED BY <1>1, <3>1, <4>1, NoOperation DEF Busy, Row
    <3>4. Count(PinAt, Threads, <<t, i>>) = 0
      BY <3>3, CountNat, ConstantFacts
    <3> QED BY <1>1, <3>1, <3>2, <3>4, NoOperation DEF IInv, TableInv, PinsExact
  <2>5. \A th \in Threads : pc[th] \in {"drainwait", "drainsweep", "drainrelease"} =>
          tab[reg[th].tab].state = "Draining"
    BY <1>1 DEF IInv, DrainOK, InDrain, Releasing
  <2>6. \A r \in Rows : slots[r].state = "Free" =>
          slots[r].obj = NULL /\ slots[r].rights = {} /\ slots[r].nonce = 0
            /\ slots[r].pins = 0 /\ slots[r].rtype = "Invalid"
    <3>1. \A r \in Rows : slots[r].state = "Free" =>
            slots[r].obj = NULL /\ slots[r].rights = {} /\ slots[r].nonce = 0 /\ slots[r].rtype = "Invalid"
      BY <1>1 DEF IInv, TableInv, RowsOK
    <3> QED BY <1>1, <3>1, EmptyUnpinned
  <2> QED BY <2>1, <2>2, <2>3, <2>4, <2>5, <2>6 DEF KernelAssertions, Busy
<1> QED BY <1>1, Inductive, PTL

-----------------------------------------------------------------------------
(* Authority: the invariant of tokens, rights and reservations, on top of  *)
(* IInv, which is used as a fact about both ends of a step.  Every step of *)
(* a thread moves each row along the life cycle RowStep; the results are   *)
(* read off it.                                                            *)

Allowed(o) == TypeAllowedRights(ObjType[o])

\* A thread outside every call names no table.
QuietLocals(th) ==
  pc[th] \in {"idle", "using", "release"} \/ (pc[th] = "destroy" /\ reg[th].cont = "idle") =>
    reg[th].tab = NULL

\* The rights a call in progress carries towards a new handle.
RightsCarried(th) ==
  /\ pc[th] \in Pinned =>
       reg[th].src # {} /\ reg[th].src \subseteq reg[th].lineage \cap Allowed(reg[th].ptr)
  /\ pc[th] = "dup" =>
       reg[th].cont = "release" /\ reg[th].want # {} /\ reg[th].src \subseteq reg[th].lineage \cap Allowed(held[th])
  /\ pc[th] = "insert" =>
       reg[th].want # {} /\ reg[th].want \subseteq reg[th].lineage \cap Allowed(held[th])
  /\ pc[th] = "adopting" =>
       reg[th].want # {} /\ reg[th].want \subseteq Allowed(held[th])

Vacant == {"Free", "Retired"}

\* Past its sweep a drain leaves no row in use, reserved rows included.
Drained ==
  /\ \A th \in Threads : Releasing(th) => \A i \in Slots : slots[<<reg[th].tab, i>>].state \in Vacant
  /\ \A t \in Tables : tab[t].state = "Closed" => \A i \in Slots : slots[<<t, i>>].state \in Vacant

\* The generation of a spent token has passed, or its row is past use in this generation.
Passed(tok) ==
  LET s == slots[tok[1]]
  IN \/ s.generation > tok[2]
     \/ s.generation = tok[2] /\ (~IsOpen(tok[1][1]) \/ s.state \notin {"Live", "Reserved"})
SpentPassed == \A tok \in spent : Passed(tok)

\* Nonces are issued once: the ticket with a reserved row's nonce is for that row.
TicketsMatch ==
  /\ \A r \in Rows : slots[r].state = "Reserved" => slots[r].nonce \in 1..lastNonce
  /\ \A th \in Threads : ticket[th].nonce <= lastNonce
  /\ \A th \in Threads, r \in Rows :
       slots[r].state = "Reserved" /\ ticket[th].nonce = slots[r].nonce =>
         ticket[th].home = r[1] /\ ticket[th].slot = r[2]

AInv ==
  /\ \A th \in Threads : QuietLocals(th) /\ RightsCarried(th)
  /\ NoRightsAmplification
  /\ Drained
  /\ SpentPassed
  /\ TicketsMatch

-----------------------------------------------------------------------------
(* The life cycle of a row, as the steps of thread th move it *)

\* Nothing but the number of pins changes, and that only while there is an object.
RowKept(r) ==
  /\ slots'[r].obj = slots[r].obj /\ slots'[r].rights = slots[r].rights /\ slots'[r].nonce = slots[r].nonce
  /\ slots'[r].generation = slots[r].generation /\ slots'[r].rtype = slots[r].rtype
  /\ slots'[r].state = slots[r].state /\ slots'[r].lineage = slots[r].lineage
  /\ slots[r].obj = NULL => slots'[r] = slots[r]

RowRetired(r) ==
  /\ slots[r].state = "Free" /\ slots'[r].state = "Retired"
  /\ slots'[r].generation = slots[r].generation /\ slots'[r].obj = slots[r].obj

RowInserted(th, r) ==
  /\ pc[th] = "insert" /\ IsOpen(r[1])
  /\ slots[r].state = "Free" /\ slots'[r].state = "Live"
  /\ slots'[r].generation = slots[r].generation + 1
  /\ slots'[r].obj = held[th] /\ slots'[r].rights = reg[th].want
  /\ slots'[r].lineage = reg[th].lineage \cap reg[th].want

RowReserved(th, r) ==
  /\ IsOpen(r[1])
  /\ slots[r].state = "Free" /\ slots'[r].state = "Reserved"
  /\ slots'[r].generation = slots[r].generation + 1 /\ slots'[r].obj = NULL
  /\ slots'[r].nonce = lastNonce + 1 /\ lastNonce' = lastNonce + 1
  /\ ticket'[th].nonce = lastNonce + 1 /\ ticket'[th].home = r[1] /\ ticket'[th].slot = r[2]

TicketUsed(th, r) == ticket[th].nonce = slots[r].nonce /\ ticket'[th] = NoTicket

RowPublished(th, r) ==
  /\ pc[th] = "using" /\ TicketUsed(th, r)
  /\ slots[r].state = "Reserved" /\ slots'[r].state = "Live"
  /\ slots'[r].generation = slots[r].generation
  /\ slots'[r].obj = held[th] /\ ObjType[held[th]] = slots[r].rtype
  /\ slots'[r].rights = slots[r].rights /\ slots[r].rights # {} /\ slots[r].rights \subseteq Allowed(held[th])
  /\ slots'[r].lineage = slots[r].rights

RowNarrowed(r) ==
  /\ slots[r].state = "Live" /\ slots'[r].state = "Live"
  /\ slots'[r].generation = slots[r].generation + 1 /\ slots'[r].obj = slots[r].obj
  /\ slots'[r].rights # {} /\ slots'[r].rights \subseteq slots[r].rights
  /\ slots'[r].lineage = slots[r].lineage \cap slots'[r].rights

RowClosing(r) ==
  /\ slots[r].state = "Live" /\ slots'[r].state = "Closing"
  /\ slots'[r].generation = slots[r].generation /\ slots'[r].obj = slots[r].obj
  /\ slots'[r].rights = slots[r].rights /\ slots'[r].lineage = slots[r].lineage

RowAdopted(th, r) ==
  /\ pc[th] = "adopting" /\ pc'[th] = "using"
  /\ slots[r].state = "Closing" /\ slots'[r].state = "Live"
  /\ slots'[r].generation = slots[r].generation + 1
  /\ slots'[r].obj = held[th] /\ slots'[r].rights = reg[th].want
  /\ slots'[r].lineage = reg[th].want

RowCleared(th, r) ==
  /\ slots'[r].state \in Vacant /\ slots'[r].obj = NULL
  /\ slots'[r].generation = slots[r].generation
  /\ \/ slots[r].state = "Closing"
     \/ tab[r[1]].state = "Draining"
     \/ slots[r].state = "Reserved" /\ TicketUsed(th, r)

RowStep(th, r) ==
  \/ RowKept(r) \/ RowRetired(r) \/ RowInserted(th, r) \/ RowReserved(th, r) \/ RowPublished(th, r)
  \/ RowNarrowed(r) \/ RowClosing(r) \/ RowAdopted(th, r) \/ RowCleared(th, r)

\* A table opens only when it is reused, and closes only for the drain that owns it.
TablesMove(th) ==
  \A t \in Tables :
    /\ tab'[t].state = "Open" => tab[t].state = "Open"
    /\ tab'[t].state = "Closed" => tab[t].state = "Closed" \/ (Releasing(th) /\ reg[th].tab = t)

\* A drain of th begins to release only after a sweep.
DrainMoves(th) ==
  Releasing(th)' =>
    /\ reg'[th].tab \in Tables
    /\ \/ Releasing(th) /\ reg'[th].tab = reg[th].tab
       \/ \A i \in Slots : slots'[<<reg'[th].tab, i>>].state \in Vacant

TicketMoves(th) ==
  \/ ticket'[th] \in {ticket[th], NoTicket} /\ lastNonce' = lastNonce
  \/ ticket'[th].nonce = lastNonce + 1 /\ lastNonce' = lastNonce + 1

OthersKeepRefs(th) == \A u \in Threads \ {th} : held'[u] = held[u] /\ ticket'[u] = ticket[u]

\* What every step of a thread does.
ThreadMove(th) ==
  /\ \A r \in Rows : RowStep(th, r)
  /\ OthersKeepPlace(th) /\ OthersKeepRefs(th)
  /\ TablesMove(th) /\ DrainMoves(th) /\ TicketMoves(th)
  /\ QuietLocals(th)' /\ RightsCarried(th)'

-----------------------------------------------------------------------------
(* The invariant follows from the life cycle *)

\* Rows of a drained table stay vacant.
LEMMA DrainedStep ==
  ASSUME IInv, AInv, NEW th \in Threads, ThreadMove(th)
  PROVE  Drained'
<1>1. \A t \in Tables, i \in Slots : tab[t].state # "Open" /\ slots[<<t, i>>].state \in Vacant =>
        slots'[<<t, i>>].state \in Vacant
  <2> SUFFICES ASSUME NEW t \in Tables, NEW i \in Slots, tab[t].state # "Open", slots[<<t, i>>].state \in Vacant
               PROVE  slots'[<<t, i>>].state \in Vacant
    OBVIOUS
  <2>1. <<t, i>> \in Rows
    BY DEF Rows
  <2>2. RowStep(th, <<t, i>>)
    BY <2>1 DEF ThreadMove
  <2> QED BY <2>2 DEF RowStep, RowKept, RowRetired, RowInserted, RowReserved, RowPublished, RowNarrowed, RowClosing,
             RowAdopted, RowCleared, Vacant, IsOpen
<1>2. \A u \in Threads : Releasing(u) => reg[u].tab \in Tables /\ tab[reg[u].tab].state = "Draining"
  BY DEF IInv, LocalsOK, ThreadOK, DrainOK, InDrain
<1>3. \A u \in Threads : Releasing(u) => \A i \in Slots : slots'[<<reg[u].tab, i>>].state \in Vacant
  BY <1>1, <1>2 DEF AInv, Drained
<1>4. \A u \in Threads : Releasing(u)' => \A i \in Slots : slots'[<<reg'[u].tab, i>>].state \in Vacant
  <2> SUFFICES ASSUME NEW u \in Threads, Releasing(u)'
               PROVE  \A i \in Slots : slots'[<<reg'[u].tab, i>>].state \in Vacant
    OBVIOUS
  <2>1. CASE u = th
    BY <1>3, <2>1 DEF ThreadMove, DrainMoves
  <2>2. CASE u # th
    BY <1>3, <2>2 DEF ThreadMove, OthersKeepPlace, Releasing
  <2> QED BY <2>1, <2>2
<1>5. \A t \in Tables : tab'[t].state = "Closed" => \A i \in Slots : slots'[<<t, i>>].state \in Vacant
  <2> SUFFICES ASSUME NEW t \in Tables, tab'[t].state = "Closed"
               PROVE  \A i \in Slots : slots'[<<t, i>>].state \in Vacant
    OBVIOUS
  <2>1. tab[t].state = "Closed" \/ (Releasing(th) /\ reg[th].tab = t)
    BY DEF ThreadMove, TablesMove
  <2>2. CASE tab[t].state = "Closed"
    BY <1>1, <2>2 DEF AInv, Drained
  <2>3. CASE Releasing(th) /\ reg[th].tab = t
    BY <1>3, <2>3
  <2> QED BY <2>1, <2>2, <2>3
<1> QED BY <1>4, <1>5 DEF Drained

\* Every handle stays within its lineage.
LEMMA RightsStep ==
  ASSUME AInv, NEW th \in Threads, ThreadMove(th)
  PROVE  NoRightsAmplification' /\ \A u \in Threads : RightsCarried(u)'
<1>1. NoRightsAmplification'
  <2> SUFFICES ASSUME NEW r \in Rows, slots'[r].state \in {"Live", "Closing"}
               PROVE  /\ slots'[r].rights # {}
                      /\ slots'[r].rights \subseteq slots'[r].lineage \cap Allowed(slots'[r].obj)
    BY DEF NoRightsAmplification, Allowed
  <2>1. slots[r].state \in {"Live", "Closing"} =>
          slots[r].rights # {} /\ slots[r].rights \subseteq slots[r].lineage \cap Allowed(slots[r].obj)
    BY DEF AInv, NoRightsAmplification, Allowed
  <2>2. CASE RowKept(r) \/ RowNarrowed(r) \/ RowClosing(r)
    BY <2>1, <2>2 DEF RowKept, RowNarrowed, RowClosing
  <2>3. CASE RowInserted(th, r)
    BY <2>3 DEF RowInserted, AInv, RightsCarried
  <2>4. CASE RowPublished(th, r)
    BY <2>4 DEF RowPublished
  <2>5. CASE RowAdopted(th, r)
    BY <2>5 DEF RowAdopted, AInv, RightsCarried
  <2>6. CASE RowRetired(r) \/ RowReserved(th, r) \/ RowCleared(th, r)
    BY <2>6 DEF RowRetired, RowReserved, RowCleared, Vacant
  <2> QED BY <2>2, <2>3, <2>4, <2>5, <2>6 DEF ThreadMove, RowStep
<1>2. ASSUME NEW u \in Threads, u # th PROVE RightsCarried(u)'
  <2>1. pc'[u] = pc[u] /\ reg'[u] = reg[u] /\ held'[u] = held[u] /\ RightsCarried(u)
    BY <1>2 DEF ThreadMove, OthersKeepPlace, OthersKeepRefs, AInv
  <2> QED BY <2>1 DEF RightsCarried
<1> QED BY <1>1, <1>2 DEF ThreadMove

\* A token that has ceased to resolve stays behind its row.
LEMMA SpentStep ==
  ASSUME IInv, AInv, NEW th \in Threads, ThreadMove(th), RecordSpent
  PROVE  SpentPassed'
<1> SUFFICES ASSUME NEW tok \in spent' PROVE Passed(tok)'
  BY DEF SpentPassed
<1> DEFINE r == tok[1]
           g == tok[2]
<1>1. tok \in Tokens /\ (tok \in spent \/ (Resolves(tok) /\ ~Resolves(tok)'))
  BY DEF RecordSpent, IInv, TypeOK
<1>2. r \in Rows /\ g \in Nat /\ r[1] \in Tables
  BY <1>1 DEF Tokens, Rows, Generations
<1>3. slots[r].generation \in Nat
  BY <1>2 DEF IInv, TypeOK, HandleSlot
<1>4. RowStep(th, r) /\ (IsOpen(r[1])' => IsOpen(r[1]))
  BY <1>2 DEF ThreadMove, TablesMove, IsOpen
<1> HIDE DEF r, g
<1>5. CASE Passed(tok)
  <2>1. \/ slots[r].generation > g
        \/ slots[r].generation = g /\ (~IsOpen(r[1]) \/ slots[r].state \notin {"Live", "Reserved"})
    BY <1>5 DEF Passed, r, g
  <2>2. \/ slots'[r].generation > g
        \/ slots'[r].generation = g /\ (~IsOpen(r[1])' \/ slots'[r].state \notin {"Live", "Reserved"})
    BY <1>2, <1>3, <1>4, <2>1 DEF RowStep, RowKept, RowRetired, RowInserted, RowReserved, RowPublished, RowNarrowed,
             RowClosing, RowAdopted, RowCleared, Vacant
  <2> QED BY <2>2 DEF Passed, r, g
<1>6. CASE Resolves(tok) /\ ~Resolves(tok)'
  <2>1. /\ slots[r].generation = g /\ slots[r].state = "Live" /\ IsOpen(r[1])
        /\ slots[r].obj # NULL /\ slots[r].nonce = 0 /\ slots[r].rtype = "Invalid"
    BY <1>6 DEF Resolves, SlotMatches, r, g
  <2>2. CASE RowKept(r)
    <3>1. ~IsOpen(r[1])' /\ slots'[r].generation = g
      BY <1>6, <2>1, <2>2 DEF Resolves, SlotMatches, RowKept, IsOpen, r, g
    <3> QED BY <3>1 DEF Passed, r, g
  <2>3. CASE RowNarrowed(r) \/ RowClosing(r) \/ RowCleared(th, r)
    <3>1. \/ slots'[r].generation > g
          \/ slots'[r].generation = g /\ slots'[r].state \notin {"Live", "Reserved"}
      BY <1>2, <1>3, <2>1, <2>3 DEF RowNarrowed, RowClosing, RowCleared, Vacant
    <3> QED BY <3>1 DEF Passed, r, g
  <2> QED BY <1>4, <2>1, <2>2, <2>3 DEF RowStep, RowRetired, RowInserted, RowReserved, RowPublished, RowAdopted
<1> QED BY <1>1, <1>5, <1>6 DEF AInv, SpentPassed

\* A nonce names one row.
LEMMA TicketStep ==
  ASSUME IInv, AInv, NEW th \in Threads, ThreadMove(th)
  PROVE  TicketsMatch'
<1>1. lastNonce \in Nat /\ \A u \in Threads : ticket[u].nonce \in Nat /\ NoTicket.nonce = 0
  BY DEF IInv, TypeOK, Reservation, NoTicket
<1>2. \A r \in Rows : slots'[r].state = "Reserved" =>
        \/ slots[r].state = "Reserved" /\ slots'[r].nonce = slots[r].nonce
        \/ RowReserved(th, r)
  BY DEF ThreadMove, RowStep, RowKept, RowRetired, RowInserted, RowPublished, RowNarrowed, RowClosing, RowAdopted,
         RowCleared, Vacant
<1>3. lastNonce' \in Nat /\ lastNonce' >= lastNonce
  BY <1>1 DEF ThreadMove, TicketMoves
<1>4. \A r \in Rows : slots'[r].state = "Reserved" => slots'[r].nonce \in 1..lastNonce'
  BY <1>1, <1>2, <1>3 DEF AInv, TicketsMatch, RowReserved
<1>5. \A u \in Threads : ticket'[u].nonce <= lastNonce'
  <2> SUFFICES ASSUME NEW u \in Threads PROVE ticket'[u].nonce <= lastNonce'
    OBVIOUS
  <2>1. ticket[u].nonce <= lastNonce
    BY DEF AInv, TicketsMatch
  <2> QED BY <1>1, <1>3, <2>1 DEF ThreadMove, TicketMoves, OthersKeepRefs
<1>6. ASSUME NEW u \in Threads, NEW r \in Rows, slots'[r].state = "Reserved", ticket'[u].nonce = slots'[r].nonce
      PROVE  ticket'[u].home = r[1] /\ ticket'[u].slot = r[2]
  <2>1. ticket[u].nonce <= lastNonce
    BY DEF AInv, TicketsMatch
  <2>2. CASE RowReserved(th, r)
    <3>1. ticket'[u].nonce = lastNonce + 1
      BY <1>6, <2>2 DEF RowReserved
    <3>2. u = th
      BY <1>1, <2>1, <3>1 DEF ThreadMove, OthersKeepRefs
    <3> QED BY <2>2, <3>2 DEF RowReserved
  <2>3. CASE slots[r].state = "Reserved" /\ slots'[r].nonce = slots[r].nonce
    <3>1. slots[r].nonce \in 1..lastNonce
      BY <2>3 DEF AInv, TicketsMatch
    <3>2. ticket'[u].nonce # 0 /\ ticket'[u].nonce # lastNonce + 1
      BY <1>1, <1>6, <2>3, <3>1
    <3>3. ticket'[u] = ticket[u]
      BY <1>1, <3>2 DEF ThreadMove, TicketMoves, OthersKeepRefs
    <3> QED BY <1>6, <2>3, <3>3 DEF AInv, TicketsMatch
  <2> QED BY <1>2, <1>6, <2>2, <2>3
<1> QED BY <1>4, <1>5, <1>6 DEF TicketsMatch

\* A step of a thread preserves the invariant.
LEMMA MoveKeepsAInv ==
  ASSUME IInv, IInv', AInv, NEW th \in Threads, ThreadMove(th), RecordSpent
  PROVE  AInv'
<1>1. \A u \in Threads : QuietLocals(u)'
  <2> SUFFICES ASSUME NEW u \in Threads PROVE QuietLocals(u)'
    OBVIOUS
  <2>1. QuietLocals(u)
    BY DEF AInv
  <2> QED BY <2>1 DEF ThreadMove, OthersKeepPlace, QuietLocals
<1> QED BY <1>1, DrainedStep, RightsStep, SpentStep, TicketStep DEF AInv

-----------------------------------------------------------------------------
(* Every action moves rows along the life cycle *)

\* Nothing changes in the tables.
LEMMA StillTables ==
  ASSUME NEW th \in Threads, slots' = slots, tab' = tab
  PROVE  (\A r \in Rows : RowStep(th, r)) /\ TablesMove(th)
BY DEF RowStep, RowKept, TablesMove

\* One row changes.
LEMMA OneRow ==
  ASSUME NEW th \in Threads, NEW r \in Rows, \A q \in Rows \ {r} : slots'[q] = slots[q], RowStep(th, r)
  PROVE  \A q \in Rows : RowStep(th, q)
<1>1. \A q \in Rows \ {r} : RowKept(q)
  BY DEF RowKept
<1> QED BY <1>1 DEF RowStep

\* No table changes state.
LEMMA StillStates ==
  ASSUME NEW th \in Threads, \A t \in Tables : tab'[t].state = tab[t].state
  PROVE  TablesMove(th)
BY DEF TablesMove

\* Resting places carry nothing.
LEMMA NoRegFacts ==
  NoReg.tab = NULL /\ NoReg.cont = "idle"
BY DEF NoReg

\* KObjectInit creates the only reference to an object.
LEMMA KObjectInitMove ==
  ASSUME IInv, AInv, NEW th \in Threads, KObjectInit(th)
  PROVE  ThreadMove(th)
<1>1. PICK o \in Objects : life[o] = "unborn" /\ HoldRef(th, o)
  BY DEF KObjectInit
<1>2. /\ pc[th] = "idle" /\ Goto(th, "using", NoReg)
      /\ slots' = slots /\ tab' = tab /\ ticket' = ticket /\ lastNonce' = lastNonce
  BY DEF KObjectInit, Rest, tableVars
<1>3. pc'[th] = "using" /\ reg'[th] = NoReg /\ OthersKeepPlace(th)
  BY <1>2, GotoFrame DEF IInv
<1>4. held'[th] = o /\ \A u \in Threads \ {th} : held'[u] = held[u]
  BY <1>1 DEF HoldRef, IInv, TypeOK
<1>5. OthersKeepRefs(th) /\ TicketMoves(th) /\ DrainMoves(th)
  BY <1>1, <1>2, <1>3, <1>4
     DEF OthersKeepRefs, TicketMoves, DrainMoves, Releasing
<1>6. QuietLocals(th)' /\ RightsCarried(th)'
  BY <1>3, NoRegFacts DEF QuietLocals, RightsCarried, Pinned
<1> QED BY <1>2, <1>3, <1>5, <1>6, StillTables DEF ThreadMove

\* The retain of a lookup.
LEMMA KObjectAcquireMove ==
  ASSUME IInv, AInv, NEW th \in Threads, KObjectAcquire(th)
  PROVE  ThreadMove(th)
<1> DEFINE o == reg[th].ptr
<1>1. PICK ok \in BOOLEAN :
        /\ held' = IF ok THEN [held EXCEPT ![th] = o] ELSE held
        /\ Goto(th, "unpin", [reg[th] EXCEPT !.retained = ok])
  BY DEF KObjectAcquire, Retainable
<1>2. /\ pc[th] = "acquire"
      /\ slots' = slots /\ tab' = tab /\ ticket' = ticket /\ lastNonce' = lastNonce
  BY DEF KObjectAcquire, tableVars
<1>3. pc'[th] = "unpin" /\ reg'[th] = [reg[th] EXCEPT !.retained = ok] /\ OthersKeepPlace(th)
  BY <1>1, GotoFrame DEF IInv
<1>4. reg'[th].src = reg[th].src /\ reg'[th].ptr = reg[th].ptr /\ reg'[th].lineage = reg[th].lineage
  BY <1>3 DEF IInv, TypeOK, Locals
<1>5. Row(th) \in Rows /\ slots[Row(th)].obj = o
  BY <1>2, BusyRows DEF IInv, Busy, Pinned, TableInv, PinnedRows
<1>6. held'[th] \in {held[th], o} /\ \A u \in Threads \ {th} : held'[u] = held[u]
  BY <1>1 DEF IInv, TypeOK
<1>7. OthersKeepRefs(th) /\ TicketMoves(th) /\ DrainMoves(th)
  BY <1>2, <1>3, <1>5, <1>6
     DEF OthersKeepRefs, TicketMoves, DrainMoves, Releasing
<1>8. QuietLocals(th)' /\ RightsCarried(th)'
  BY <1>2, <1>3, <1>4 DEF QuietLocals, RightsCarried, Pinned, AInv
<1> QED BY <1>2, <1>3, <1>7, <1>8, StillTables DEF ThreadMove

\* What a release leaves the thread with.
LEMMA DropRefMove ==
  ASSUME IInv, NEW th \in Threads, NEW o, NEW after \in {"idle", "drainrelease"}, DropRef(th, o, after)
  PROVE  /\ pc'[th] \in {"destroy", after} /\ OthersKeepPlace(th)
         /\ pc'[th] = "destroy" => reg'[th].cont = after /\ reg'[th].tab = reg[th].tab
         /\ pc'[th] = "idle" => reg'[th].tab = NULL
         /\ pc'[th] = "drainrelease" => reg'[th].tab = reg[th].tab
<1>0. reg[th] \in Locals
  BY DEF IInv, TypeOK
<1>1. CASE ReachesZero(o)
  <2>1. pc'[th] = "destroy" /\ reg'[th] = [reg[th] EXCEPT !.ptr = o, !.cont = after] /\ OthersKeepPlace(th)
    BY <1>1, GotoFrame DEF DropRef, IInv
  <2>2. reg'[th].cont = after /\ reg'[th].tab = reg[th].tab
    BY <1>0, <2>1 DEF Locals
  <2> QED BY <2>1, <2>2
<1>2. CASE ~ReachesZero(o)
  <2>1. /\ pc'[th] = after /\ OthersKeepPlace(th)
        /\ reg'[th] = IF after = "drainrelease" THEN [reg[th] EXCEPT !.ptr = NULL] ELSE NoReg
    BY <1>2, GotoFrame DEF DropRef, IInv
  <2> QED BY <1>0, <2>1, NoRegFacts DEF Locals
<1> QED BY <1>1, <1>2

\* KObjectRelease gives a reference up.
LEMMA KObjectReleaseMove ==
  ASSUME IInv, AInv, NEW th \in Threads, KObjectRelease(th)
  PROVE  ThreadMove(th)
<1>1. /\ pc[th] \in {"using", "release"} /\ DropRef(th, held[th], "idle") /\ HoldRef(th, NULL)
      /\ slots' = slots /\ tab' = tab /\ ticket' = ticket /\ lastNonce' = lastNonce
  BY DEF KObjectRelease, tableVars
<1>2. /\ pc'[th] \in {"destroy", "idle"} /\ OthersKeepPlace(th)
      /\ pc'[th] = "destroy" => reg'[th].cont = "idle" /\ reg'[th].tab = reg[th].tab
      /\ pc'[th] = "idle" => reg'[th].tab = NULL
  BY <1>1, DropRefMove
<1>3. held'[th] = NULL /\ \A u \in Threads \ {th} : held'[u] = held[u]
  BY <1>1 DEF HoldRef, IInv, TypeOK
<1>4. OthersKeepRefs(th) /\ TicketMoves(th) /\ DrainMoves(th)
  BY <1>1, <1>2, <1>3
     DEF OthersKeepRefs, TicketMoves, DrainMoves, Releasing
<1>5. QuietLocals(th)' /\ RightsCarried(th)'
  BY <1>1, <1>2 DEF QuietLocals, RightsCarried, Pinned, AInv
<1> QED BY <1>1, <1>2, <1>4, <1>5, StillTables DEF ThreadMove

\* The destroy callback returns to the call it interrupted.
LEMMA DestroyCallbackMove ==
  ASSUME IInv, AInv, NEW th \in Threads, DestroyCallback(th)
  PROVE  ThreadMove(th)
<1> DEFINE l == IF reg[th].cont = "drainrelease" THEN [reg[th] EXCEPT !.ptr = NULL, !.cont = "idle"] ELSE NoReg
<1>1. /\ pc[th] = "destroy" /\ Goto(th, reg[th].cont, l)
      /\ slots' = slots /\ tab' = tab /\ ticket' = ticket /\ lastNonce' = lastNonce
      /\ held' = held
  BY DEF DestroyCallback, tableVars
<1>2. reg[th].cont \in {"idle", "drainrelease"} /\ reg[th] \in Locals /\ (Releasing(th) => reg[th].tab \in Tables)
  BY <1>1 DEF IInv, LocalsOK, ThreadOK, TypeOK, InDrain
<1>3. pc'[th] = reg[th].cont /\ reg'[th] = l /\ OthersKeepPlace(th)
  BY <1>1, GotoFrame DEF IInv
<1>4. reg'[th].tab = IF reg[th].cont = "drainrelease" THEN reg[th].tab ELSE NULL
  BY <1>2, <1>3, NoRegFacts DEF Locals
<1>5. OthersKeepRefs(th) /\ TicketMoves(th) /\ DrainMoves(th)
  BY <1>1, <1>2, <1>3, <1>4
     DEF OthersKeepRefs, TicketMoves, DrainMoves, Releasing
<1>6. QuietLocals(th)' /\ RightsCarried(th)'
  BY <1>2, <1>3, <1>4 DEF QuietLocals, RightsCarried, Pinned
<1> QED BY <1>1, <1>3, <1>5, <1>6, StillTables DEF ThreadMove

\* The checks of HandleTableInsert.
LEMMA InsertCheckMove ==
  ASSUME IInv, AInv, NEW th \in Threads, NEW t \in Tables, NEW rights \in RequestableRights,
         InsertCheck(th, t, rights)
  PROVE  ThreadMove(th)
<1>1. /\ pc[th] = "using" /\ rights \subseteq Allowed(held[th])
      /\ Goto(th, "insert", [NoReg EXCEPT !.tab = t, !.want = rights, !.cont = "using", !.lineage = rights])
      /\ slots' = slots /\ tab' = tab /\ ticket' = ticket /\ lastNonce' = lastNonce
      /\ held' = held
  BY DEF InsertCheck, tableVars, Allowed
<1>2. /\ pc'[th] = "insert" /\ reg'[th] = [NoReg EXCEPT !.tab = t, !.want = rights, !.cont = "using", !.lineage = rights]
      /\ OthersKeepPlace(th)
  BY <1>1, GotoFrame DEF IInv
<1>3. reg'[th].lineage = rights /\ reg'[th].want = rights /\ rights # {}
  BY <1>2, ConstantsAssumption DEF NoReg
<1>4. OthersKeepRefs(th) /\ TicketMoves(th) /\ DrainMoves(th)
  BY <1>1, <1>2, <1>3
     DEF OthersKeepRefs, TicketMoves, DrainMoves, Releasing
<1>5. QuietLocals(th)' /\ RightsCarried(th)'
  BY <1>1, <1>2, <1>3 DEF QuietLocals, RightsCarried, Pinned
<1> QED BY <1>1, <1>2, <1>4, <1>5, StillTables DEF ThreadMove

\* A dead ticket is given up.
LEMMA AbandonTicketMove ==
  ASSUME IInv, AInv, NEW th \in Threads, AbandonTicket(th)
  PROVE  ThreadMove(th)
<1>1. /\ pc[th] \in {"idle", "using"} /\ ticket' = [ticket EXCEPT ![th] = NoTicket]
      /\ slots' = slots /\ tab' = tab /\ lastNonce' = lastNonce
      /\ held' = held /\ pc' = pc /\ reg' = reg
  BY DEF AbandonTicket, tableVars
<1>2. ticket'[th] = NoTicket /\ \A u \in Threads \ {th} : ticket'[u] = ticket[u]
  BY <1>1 DEF IInv, TypeOK
<1>3. OthersKeepRefs(th) /\ TicketMoves(th) /\ DrainMoves(th)
  BY <1>1, <1>2
     DEF OthersKeepRefs, TicketMoves, DrainMoves, Releasing
<1>4. QuietLocals(th)' /\ RightsCarried(th)' /\ OthersKeepPlace(th)
  BY <1>1 DEF QuietLocals, RightsCarried, Pinned, AInv, OthersKeepPlace
<1> QED BY <1>1, <1>3, <1>4, StillTables DEF ThreadMove

\* The narrowing check of HandleTableDuplicateRights.
LEMMA DuplicateCheckMove ==
  ASSUME IInv, AInv, NEW th \in Threads, DuplicateCheck(th)
  PROVE  ThreadMove(th)
<1>1. /\ pc[th] = "dup"
      /\ \/ /\ reg[th].want \subseteq reg[th].src
            /\ Goto(th, "insert", [reg[th] EXCEPT !.src = {}])
         \/ Goto(th, "release", NoReg)
      /\ slots' = slots /\ tab' = tab /\ ticket' = ticket /\ lastNonce' = lastNonce
      /\ held' = held
  BY DEF DuplicateCheck, tableVars, Narrows, Rest
<1>2. reg[th] \in Locals /\ RightsCarried(th)
  BY DEF IInv, TypeOK, AInv
<1>3. /\ reg[th].cont = "release" /\ reg[th].want # {}
      /\ reg[th].src \subseteq reg[th].lineage \cap Allowed(held[th])
  BY <1>1, <1>2 DEF RightsCarried
<1>4. /\ OthersKeepPlace(th)
      /\ \/ /\ pc'[th] = "insert" /\ reg'[th] = [reg[th] EXCEPT !.src = {}] /\ reg[th].want \subseteq reg[th].src
         \/ pc'[th] = "release" /\ reg'[th] = NoReg
  BY <1>1, GotoFrame DEF IInv
<1>5. pc'[th] = "insert" =>
        reg'[th].lineage = reg[th].lineage /\ reg'[th].want = reg[th].want /\ reg[th].want \subseteq reg[th].src
  BY <1>2, <1>3, <1>4 DEF Locals
<1>6. OthersKeepRefs(th) /\ TicketMoves(th) /\ DrainMoves(th)
  BY <1>1, <1>4, <1>5
     DEF OthersKeepRefs, TicketMoves, DrainMoves, Releasing
<1>7. QuietLocals(th)' /\ RightsCarried(th)'
  BY <1>1, <1>3, <1>4, <1>5, NoRegFacts DEF QuietLocals, RightsCarried, Pinned
<1> QED BY <1>1, <1>4, <1>6, <1>7, StillTables DEF ThreadMove

\* A row that the allocation scan passes is kept or retired.
LEMMA PassedRow ==
  ASSUME IInv, NEW th \in Threads, NEW t \in Tables, NEW passed, NEW r \in Rows,
         slots'[r] = RetirePassed(t, passed)[r]
  PROVE  RowStep(th, r) /\ slots'[r].obj = slots[r].obj
<1>1. slots[r] \in HandleSlot
  BY DEF IInv, TypeOK
<1>2. \/ slots'[r] = slots[r]
      \/ slots[r].state = "Free" /\ slots'[r] = [slots[r] EXCEPT !.state = "Retired"]
  BY DEF RetirePassed
<1>3. RowKept(r) \/ RowRetired(r)
  BY <1>1, <1>2 DEF RowKept, RowRetired, HandleSlot
<1> QED BY <1>3 DEF RowStep, RowKept, RowRetired

\* The row an insert or a reserve claims, and the rows its scan passed.
LEMMA ClaimMove ==
  ASSUME IInv, NEW th \in Threads, NEW t \in Tables, NEW i \in Slots, IsOpen(t), FirstUsable(t, i),
         NEW s \in HandleSlot, ClaimRow(t, i, s)
  PROVE  /\ <<t, i>> \in Rows /\ slots[<<t, i>>].state = "Free" /\ slots[<<t, i>>].obj = NULL
         /\ slots'[<<t, i>>].obj = s.obj /\ slots'[<<t, i>>].rights = s.rights /\ slots'[<<t, i>>].nonce = s.nonce
         /\ slots'[<<t, i>>].state = s.state /\ slots'[<<t, i>>].generation = slots[<<t, i>>].generation + 1
         /\ slots'[<<t, i>>].lineage = s.lineage
         /\ \A q \in Rows \ {<<t, i>>} : RowStep(th, q) /\ slots'[q].obj = slots[q].obj
         /\ TablesMove(th)
<1> DEFINE r == <<t, i>>
           passed == [j \in Slots |-> ScanDistance(t, j) < ScanDistance(t, i)]
           s2 == [s EXCEPT !.generation = slots[r].generation + 1]
<1>1. r \in Rows
  BY DEF Rows
<1>2. slots[r].state = "Free" /\ slots[r].obj = NULL
  BY <1>1 DEF FirstUsable, Usable, IInv, TableInv, RowsOK
<1>3. slots' = [RetirePassed(t, passed) EXCEPT ![r] = s2] /\ tab' = [tab EXCEPT ![t].hint = i]
  BY DEF ClaimRow
<1>4. /\ s2.obj = s.obj /\ s2.rights = s.rights /\ s2.nonce = s.nonce /\ s2.state = s.state
      /\ s2.generation = slots[r].generation + 1 /\ s2.lineage = s.lineage
  BY DEF HandleSlot
<1> HIDE DEF r, s2, passed
<1>5. slots'[r] = s2 /\ \A q \in Rows : q # r => slots'[q] = RetirePassed(t, passed)[q]
  BY <1>1, <1>3 DEF RetirePassed
<1>6. \A q \in Rows \ {r} : RowStep(th, q) /\ slots'[q].obj = slots[q].obj
  BY <1>5, PassedRow
<1>7. \A u \in Tables : tab'[u].state = tab[u].state
  BY <1>3 DEF IInv, TypeOK, TableHeader
<1>8. TablesMove(th)
  BY <1>7, StillStates
<1> QED BY <1>1, <1>2, <1>4, <1>5, <1>6, <1>8 DEF r

\* HandleTableInsert fills a row with the caller's reference.
LEMMA InsertCommitMove ==
  ASSUME IInv, AInv, NEW th \in Threads, InsertCommit(th)
  PROVE  ThreadMove(th)
<1> DEFINE t == reg[th].tab
           s == [FreshSlot EXCEPT !.obj = held[th], !.rights = reg[th].want, !.state = "Live",
                              !.lineage = reg[th].lineage \cap reg[th].want]
<1>1. PICK i \in Slots : FirstUsable(t, i) /\ ClaimRow(t, i, s)
  BY DEF InsertCommit
<1>2. /\ pc[th] = "insert" /\ IsOpen(t)
      /\ HoldRef(th, NULL) /\ Goto(th, "idle", NoReg) /\ ticket' = ticket /\ lastNonce' = lastNonce
  BY DEF InsertCommit, Rest
<1>3. t \in Tables /\ held[th] \in Objects /\ reg[th] \in Locals
  BY <1>2, ConstantFacts DEF IInv, LocalsOK, ThreadOK, TypeOK, Owning
<1>4. /\ s \in HandleSlot /\ s.obj = held[th] /\ s.rights = reg[th].want /\ s.state = "Live"
      /\ s.lineage = reg[th].lineage \cap reg[th].want
  <2>1. /\ held[th] \in Objects \cup {NULL} /\ reg[th].want \in SUBSET kHandleRightAll /\ "Live" \in SlotStates
        /\ reg[th].lineage \cap reg[th].want \in SUBSET kHandleRightAll
    BY <1>3 DEF Locals, SlotStates
  <2>2. s \in HandleSlot
    BY <2>1, ResetTypes, Zenon DEF HandleSlot
  <2> QED BY <2>2 DEF FreshSlot
<1> HIDE DEF s
<1>5. /\ <<t, i>> \in Rows /\ slots[<<t, i>>].state = "Free"
      /\ slots'[<<t, i>>].obj = s.obj /\ slots'[<<t, i>>].rights = s.rights /\ slots'[<<t, i>>].lineage = s.lineage
      /\ slots'[<<t, i>>].state = s.state /\ slots'[<<t, i>>].generation = slots[<<t, i>>].generation + 1
      /\ \A q \in Rows \ {<<t, i>>} : RowStep(th, q)
      /\ TablesMove(th)
  BY <1>1, <1>2, <1>3, <1>4, ClaimMove
<1>6. RowInserted(th, <<t, i>>)
  BY <1>2, <1>4, <1>5 DEF RowInserted
<1>7. \A q \in Rows : RowStep(th, q)
  BY <1>5, <1>6 DEF RowStep
<1>8. pc'[th] = "idle" /\ reg'[th] = NoReg /\ OthersKeepPlace(th)
  BY <1>2, GotoFrame DEF IInv
<1>9. held'[th] = NULL /\ \A u \in Threads \ {th} : held'[u] = held[u]
  BY <1>2 DEF HoldRef, IInv, TypeOK
<1>10. OthersKeepRefs(th) /\ TicketMoves(th) /\ DrainMoves(th)
  BY <1>2, <1>8, <1>9
     DEF OthersKeepRefs, TicketMoves, DrainMoves, Releasing
<1>11. QuietLocals(th)' /\ RightsCarried(th)'
  BY <1>8, NoRegFacts DEF QuietLocals, RightsCarried, Pinned
<1> QED BY <1>5, <1>7, <1>8, <1>10, <1>11 DEF ThreadMove

\* A refused insert leaves the reference with its caller.
LEMMA InsertFailMove ==
  ASSUME IInv, AInv, NEW th \in Threads, InsertFail(th)
  PROVE  ThreadMove(th)
<1> DEFINE t == reg[th].tab
<1>1. /\ pc[th] = "insert" /\ Goto(th, reg[th].cont, NoReg)
      /\ held' = held /\ ticket' = ticket /\ lastNonce' = lastNonce
      /\ tab' = tab /\ (slots' = slots \/ slots' = RetirePassed(t, [j \in Slots |-> TRUE]))
  BY DEF InsertFail, Rest, tableVars, ScanFails
<1>2. t \in Tables /\ reg[th].cont \in {"using", "release"}
  BY <1>1 DEF IInv, LocalsOK, ThreadOK
<1>3. \A q \in Rows : RowStep(th, q) /\ slots'[q].obj = slots[q].obj
  BY <1>1, <1>2, PassedRow, StillTables
<1>4. TablesMove(th)
  BY <1>1, StillStates
<1>5. pc'[th] = reg[th].cont /\ reg'[th] = NoReg /\ OthersKeepPlace(th)
  BY <1>1, GotoFrame DEF IInv
<1>6. OthersKeepRefs(th) /\ TicketMoves(th) /\ DrainMoves(th)
  BY <1>1, <1>2, <1>3, <1>5
     DEF OthersKeepRefs, TicketMoves, DrainMoves, Releasing
<1>7. QuietLocals(th)' /\ RightsCarried(th)'
  BY <1>2, <1>5, NoRegFacts DEF QuietLocals, RightsCarried, Pinned
<1> QED BY <1>3, <1>4, <1>5, <1>6, <1>7 DEF ThreadMove

\* HandleTableReserve issues a ticket for the row it claims.
LEMMA HandleTableReserveMove ==
  ASSUME IInv, AInv, NEW th \in Threads, NEW t \in Tables, NEW type \in TypesInPlay, NEW rights \in RequestableRights,
         HandleTableReserve(th, t, type, rights)
  PROVE  ThreadMove(th)
<1> DEFINE s == [FreshSlot EXCEPT !.rights = rights, !.nonce = lastNonce + 1, !.rtype = type, !.state = "Reserved"]
           tk(i) == [slot |-> i, generation |-> slots[<<t, i>>].generation + 1, nonce |-> lastNonce + 1, home |-> t]
<1>1. PICK i \in Slots : FirstUsable(t, i) /\ ClaimRow(t, i, s) /\ ticket' = [ticket EXCEPT ![th] = tk(i)]
  BY DEF HandleTableReserve
<1>2. /\ pc[th] \in {"idle", "using"} /\ IsOpen(t) /\ lastNonce # kNonceMax /\ lastNonce' = lastNonce + 1
      /\ held' = held /\ pc' = pc /\ reg' = reg
  BY DEF HandleTableReserve, objVars
<1>3. s \in HandleSlot /\ s.state = "Reserved" /\ s.obj = NULL /\ s.nonce = lastNonce + 1
  <2>1. type \in ConcreteTypes \cup {"Invalid"} /\ rights \in SUBSET kHandleRightAll
    BY ConstantsAssumption DEF TypesInPlay
  <2>2. lastNonce + 1 \in 0..kNonceMax /\ "Reserved" \in SlotStates
    BY <1>2, ConstantsAssumption DEF SlotStates, IInv, TypeOK
  <2>3. s \in HandleSlot
    BY <2>1, <2>2, ResetTypes, Zenon DEF HandleSlot
  <2> QED BY <2>3 DEF FreshSlot
<1> HIDE DEF s
<1>4. /\ <<t, i>> \in Rows /\ slots[<<t, i>>].state = "Free" /\ slots[<<t, i>>].obj = NULL
      /\ slots'[<<t, i>>].obj = s.obj /\ slots'[<<t, i>>].nonce = s.nonce
      /\ slots'[<<t, i>>].state = s.state /\ slots'[<<t, i>>].generation = slots[<<t, i>>].generation + 1
      /\ \A q \in Rows \ {<<t, i>>} : RowStep(th, q) /\ slots'[q].obj = slots[q].obj
      /\ TablesMove(th)
  BY <1>1, <1>2, <1>3, ClaimMove
<1>5. tk(i).nonce = lastNonce + 1 /\ tk(i).home = t /\ tk(i).slot = i
  OBVIOUS
<1> HIDE DEF tk
<1>6. /\ ticket'[th].nonce = lastNonce + 1 /\ ticket'[th].home = t /\ ticket'[th].slot = i
      /\ \A u \in Threads \ {th} : ticket'[u] = ticket[u]
  BY <1>1, <1>5 DEF IInv, TypeOK
<1>7. RowReserved(th, <<t, i>>)
  BY <1>2, <1>3, <1>4, <1>6 DEF RowReserved
<1>8. \A q \in Rows : RowStep(th, q) /\ slots'[q].obj \in {slots[q].obj, NULL}
  BY <1>3, <1>4, <1>7 DEF RowStep
<1>9. OthersKeepRefs(th) /\ TicketMoves(th) /\ DrainMoves(th)
  BY <1>2, <1>6, <1>8
     DEF OthersKeepRefs, TicketMoves, DrainMoves, Releasing
<1>10. QuietLocals(th)' /\ RightsCarried(th)' /\ OthersKeepPlace(th)
  BY <1>2 DEF QuietLocals, RightsCarried, Pinned, AInv, OthersKeepPlace
<1> QED BY <1>4, <1>8, <1>9, <1>10 DEF ThreadMove

\* HandleTablePublish uses the ticket of the row it fills.
LEMMA HandleTablePublishMove ==
  ASSUME IInv, AInv, NEW th \in Threads, NEW t \in Tables, HandleTablePublish(th, t)
  PROVE  ThreadMove(th)
<1> DEFINE r == <<t, ticket[th].slot>>
           o == held[th]
           s == [slots[r] EXCEPT !.obj = o, !.nonce = 0, !.rtype = "Invalid", !.state = "Live",
                             !.lineage = slots[r].rights]
<1>1. /\ pc[th] = "using" /\ ticket[th] # NoTicket /\ IsOpen(t) /\ ReservationMatches(slots[r], ticket[th])
      /\ slots[r].rtype = ObjType[o] /\ slots[r].rights \subseteq Allowed(o)
      /\ slots' = [slots EXCEPT ![r] = s]
      /\ ticket' = [ticket EXCEPT ![th] = NoTicket]
      /\ HoldRef(th, NULL) /\ Goto(th, "idle", NoReg)
      /\ tab' = tab /\ lastNonce' = lastNonce
  BY DEF HandleTablePublish, Allowed, Rest
<1>2. r \in Rows /\ o \in Objects /\ slots[r] \in HandleSlot
  BY <1>1, ConstantFacts DEF IInv, LocalsOK, ThreadOK, Rows, Owning, TypeOK
<1>3. /\ s.obj = o /\ s.state = "Live" /\ s.rights = slots[r].rights /\ s.generation = slots[r].generation
      /\ s.lineage = slots[r].rights
  BY <1>2 DEF HandleSlot
<1> HIDE DEF r, s
<1>4. slots'[r] = s /\ \A q \in Rows \ {r} : slots'[q] = slots[q]
  BY <1>1, <1>2 DEF IInv, TypeOK
<1>5. ticket'[th] = NoTicket /\ \A u \in Threads \ {th} : ticket'[u] = ticket[u]
  BY <1>1 DEF IInv, TypeOK
<1>6. RowPublished(th, r)
  BY <1>1, <1>3, <1>4, <1>5 DEF RowPublished, TicketUsed, ReservationMatches
<1>7. \A q \in Rows : RowStep(th, q)
  BY <1>2, <1>4, <1>6, OneRow DEF RowStep
<1>8. pc'[th] = "idle" /\ reg'[th] = NoReg /\ OthersKeepPlace(th)
  BY <1>1, GotoFrame DEF IInv
<1>9. held'[th] = NULL /\ \A u \in Threads \ {th} : held'[u] = held[u]
  BY <1>1 DEF HoldRef, IInv, TypeOK
<1>10. OthersKeepRefs(th) /\ TicketMoves(th) /\ DrainMoves(th)
  BY <1>1, <1>5, <1>8, <1>9
     DEF OthersKeepRefs, TicketMoves, DrainMoves, Releasing
<1>11. QuietLocals(th)' /\ RightsCarried(th)'
  BY <1>8, NoRegFacts DEF QuietLocals, RightsCarried, Pinned
<1>12. TablesMove(th)
  BY <1>1, StillStates
<1> QED BY <1>7, <1>8, <1>10, <1>11, <1>12 DEF ThreadMove

\* HandleTableAbort uses the ticket of the row it empties.
LEMMA HandleTableAbortMove ==
  ASSUME IInv, AInv, NEW th \in Threads, NEW t \in Tables, HandleTableAbort(th, t)
  PROVE  ThreadMove(th)
<1> DEFINE r == <<t, ticket[th].slot>>
<1>1. /\ pc[th] \in {"idle", "using"} /\ ticket[th] # NoTicket /\ ReservationMatches(slots[r], ticket[th])
      /\ slots' = [slots EXCEPT ![r] = Cleared(slots[r])]
      /\ ticket' = [ticket EXCEPT ![th] = NoTicket]
      /\ tab' = tab /\ lastNonce' = lastNonce
      /\ held' = held /\ pc' = pc /\ reg' = reg
  BY DEF HandleTableAbort
<1>2. r \in Rows /\ slots[r] \in HandleSlot
  BY <1>1, ConstantFacts DEF IInv, LocalsOK, ThreadOK, Rows, TypeOK
<1> HIDE DEF r
<1>3. slots'[r] = Cleared(slots[r]) /\ \A q \in Rows \ {r} : slots'[q] = slots[q]
  BY <1>1, <1>2 DEF IInv, TypeOK
<1>4. ticket'[th] = NoTicket /\ \A u \in Threads \ {th} : ticket'[u] = ticket[u]
  BY <1>1 DEF IInv, TypeOK
<1>5. RowCleared(th, r)
  BY <1>1, <1>2, <1>3, <1>4, ClearedFacts DEF RowCleared, TicketUsed, ReservationMatches, Vacant
<1>6. \A q \in Rows : RowStep(th, q) /\ slots'[q].obj \in {slots[q].obj, NULL}
  BY <1>2, <1>3, <1>5, OneRow DEF RowStep, RowCleared
<1>7. OthersKeepRefs(th) /\ TicketMoves(th) /\ DrainMoves(th)
  BY <1>1, <1>4, <1>6
     DEF OthersKeepRefs, TicketMoves, DrainMoves, Releasing
<1>8. QuietLocals(th)' /\ RightsCarried(th)' /\ OthersKeepPlace(th)
  BY <1>1 DEF QuietLocals, RightsCarried, Pinned, AInv, OthersKeepPlace
<1>9. TablesMove(th)
  BY <1>1, StillStates
<1> QED BY <1>6, <1>7, <1>8, <1>9 DEF ThreadMove

\* A step that enters or leaves an operation changes the state of no table.
LEMMA OperationStates ==
  ASSUME IInv, NEW th \in Threads, NEW t, tab' = BeginOperation(t) \/ tab' = EndOperation(t)
  PROVE  TablesMove(th)
<1>1. tab \in [Tables -> TableHeader]
  BY DEF IInv, TypeOK
<1>2. \A u \in Tables : tab'[u].state = tab[u].state
  <2>1. CASE tab' = BeginOperation(t)
    BY <1>1, <2>1 DEF BeginOperation, TableHeader
  <2>2. CASE tab' = EndOperation(t)
    BY <1>1, <2>2 DEF EndOperation, TableHeader
  <2> QED BY <2>1, <2>2
<1> QED BY <1>2, StillStates

\* The lookup copies the rights of the row it pins.
LEMMA PinMove ==
  ASSUME IInv, AInv, NEW th \in Threads, NEW t \in Tables, NEW h \in Handles, NEW required, NEW locals \in Locals,
         pc[th] = "idle", PinnedBy(th, t, h, required, locals)
  PROVE  ThreadMove(th)
<1> DEFINE r == <<t, h[1]>>
           l == [locals EXCEPT !.tab = t, !.slot = h[1], !.gen = h[2], !.src = slots[r].rights, !.ptr = slots[r].obj,
                              !.lineage = slots[r].lineage]
<1>1. /\ SlotMatches(slots[r], h[2])
      /\ slots' = [slots EXCEPT ![r].pins = @ + 1] /\ tab' = BeginOperation(t)
      /\ Goto(th, "acquire", l)
      /\ held' = held /\ ticket' = ticket /\ lastNonce' = lastNonce
  BY DEF PinnedBy
<1>2. r \in Rows /\ slots[r] \in HandleSlot
  BY DEF Rows, Handles, IInv, TypeOK
<1>3. l.src = slots[r].rights /\ l.ptr = slots[r].obj /\ l.lineage = slots[r].lineage
  BY DEF Locals
<1> HIDE DEF r, l
<1>4. slots'[r] = [slots[r] EXCEPT !.pins = @ + 1] /\ \A q \in Rows \ {r} : slots'[q] = slots[q]
  BY <1>1, <1>2 DEF IInv, TypeOK
<1>5. slots[r].state = "Live" /\ slots[r].obj # NULL
  BY <1>1 DEF SlotMatches
<1>6. RowKept(r)
  BY <1>2, <1>4, <1>5 DEF RowKept, HandleSlot
<1>7. \A q \in Rows : RowStep(th, q)
  BY <1>2, <1>4, <1>6, OneRow DEF RowStep
<1>8. pc'[th] = "acquire" /\ reg'[th] = l /\ OthersKeepPlace(th)
  BY <1>1, GotoFrame DEF IInv
<1>9. OthersKeepRefs(th) /\ TicketMoves(th) /\ DrainMoves(th)
  BY <1>1, <1>8
     DEF OthersKeepRefs, TicketMoves, DrainMoves, Releasing
<1>10. QuietLocals(th)' /\ RightsCarried(th)'
  BY <1>1, <1>2, <1>3, <1>5, <1>8 DEF QuietLocals, RightsCarried, Pinned, AInv, NoRightsAmplification, Allowed
<1> QED BY <1>1, <1>7, <1>8, <1>9, <1>10, OperationStates DEF ThreadMove

\* HandleTableLookupRef and HandleTableDuplicate begin with the pin.
LEMMA LookupMove ==
  ASSUME IInv, AInv, NEW th \in Threads, NEW t \in Tables, NEW h \in Handles,
         \/ \E type, required : HandleTableLookupRef(th, t, h, type, required)
         \/ \E dst \in Tables, want \in RequestableRights \cup {{}} : HandleTableDuplicate(th, t, h, dst, want)
  PROVE  ThreadMove(th)
<1>1. CASE \E type, required : HandleTableLookupRef(th, t, h, type, required)
  <2>1. PICK type, required : HandleTableLookupRef(th, t, h, type, required)
    BY <1>1
  <2>2. [NoReg EXCEPT !.cont = "using"] \in Locals
    BY ResetTypes DEF Locals, PCs, Resting
  <2> QED BY <2>1, <2>2, PinMove DEF HandleTableLookupRef
<1>2. CASE \E dst \in Tables, want \in RequestableRights \cup {{}} : HandleTableDuplicate(th, t, h, dst, want)
  <2>1. PICK dst \in Tables, want \in RequestableRights \cup {{}} : HandleTableDuplicate(th, t, h, dst, want)
    BY <1>2
  <2>2. [NoReg EXCEPT !.cont = "dup", !.dst = dst, !.want = want] \in Locals
    BY ResetTypes, ConstantsAssumption DEF Locals, PCs
  <2> QED BY <2>1, <2>2, PinMove DEF HandleTableDuplicate
<1> QED BY <1>1, <1>2

\* The unpin hands the copied rights to the duplicate.
LEMMA UnpinMove ==
  ASSUME IInv, AInv, NEW th \in Threads, Unpin(th)
  PROVE  ThreadMove(th)
<1> DEFINE r == Row(th)
           l == [NoReg EXCEPT !.tab = reg[th].dst, !.src = reg[th].src, !.cont = "release",
                              !.want = IF reg[th].want = {} THEN reg[th].src ELSE reg[th].want,
                              !.lineage = reg[th].lineage]
<1>1. /\ pc[th] = "unpin"
      /\ slots' = [slots EXCEPT ![r].pins = PinsAfterLookup(th)] /\ tab' = EndOperation(reg[th].tab)
      /\ \/ Goto(th, "idle", NoReg)
         \/ Goto(th, "using", NoReg)
         \/ reg[th].retained /\ Goto(th, "dup", l)
      /\ held' = held /\ ticket' = ticket /\ lastNonce' = lastNonce
  BY DEF Unpin, Rest
<1>2. r \in Rows /\ slots[r] \in HandleSlot /\ slots[r].obj = reg[th].ptr /\ reg[th].ptr \in Objects
  BY <1>1, BusyRows DEF IInv, Busy, Pinned, TypeOK, TableInv, PinnedRows, LocalsOK, ThreadOK
<1>3. /\ l.cont = "release" /\ l.src = reg[th].src /\ l.lineage = reg[th].lineage
      /\ l.want = IF reg[th].want = {} THEN reg[th].src ELSE reg[th].want
  BY DEF NoReg
<1> HIDE DEF r, l
<1>4. slots'[r] = [slots[r] EXCEPT !.pins = PinsAfterLookup(th)] /\ \A q \in Rows \ {r} : slots'[q] = slots[q]
  BY <1>1, <1>2 DEF IInv, TypeOK
<1>5. RowKept(r)
  BY <1>2, <1>4, ConstantFacts DEF RowKept, HandleSlot
<1>6. \A q \in Rows : RowStep(th, q)
  BY <1>2, <1>4, <1>5, OneRow DEF RowStep
<1>7. /\ OthersKeepPlace(th)
      /\ \/ pc'[th] \in {"idle", "using"} /\ reg'[th] = NoReg
         \/ pc'[th] = "dup" /\ reg'[th] = l /\ reg[th].retained
  BY <1>1, GotoFrame DEF IInv
<1>8. OthersKeepRefs(th) /\ TicketMoves(th) /\ DrainMoves(th)
  BY <1>1, <1>7
     DEF OthersKeepRefs, TicketMoves, DrainMoves, Releasing
<1>9. RightsCarried(th)'
  <2>1. CASE pc'[th] = "dup" /\ reg'[th] = l /\ reg[th].retained
    <3>1. held[th] = reg[th].ptr /\ RightsCarried(th)
      BY <1>1, <2>1 DEF IInv, LocalsOK, ThreadOK, AInv
    <3>2. reg[th].src # {} /\ reg[th].src \subseteq reg[th].lineage \cap Allowed(held[th])
      BY <1>1, <3>1 DEF RightsCarried, Pinned
    <3>3. l.want # {}
      BY <1>3, <3>2
    <3> QED BY <1>1, <1>3, <2>1, <3>2, <3>3 DEF RightsCarried, Pinned
  <2>2. CASE pc'[th] \in {"idle", "using"}
    BY <2>2 DEF RightsCarried, Pinned
  <2> QED BY <1>7, <2>1, <2>2
<1>10. QuietLocals(th)'
  BY <1>7, NoRegFacts DEF QuietLocals
<1> QED BY <1>1, <1>6, <1>7, <1>8, <1>9, <1>10, OperationStates DEF ThreadMove

\* The close linearisation point.
LEMMA StartClosingRow ==
  ASSUME IInv, NEW th \in Threads, NEW t \in Tables, NEW h \in Handles, StartClosing(t, h)
  PROVE  (\A q \in Rows : RowStep(th, q) /\ slots'[q].obj = slots[q].obj) /\ TablesMove(th)
<1> DEFINE r == <<t, h[1]>>
<1>1. SlotMatches(slots[r], h[2]) /\ slots' = [slots EXCEPT ![r].state = "Closing"] /\ tab' = BeginOperation(t)
  BY DEF StartClosing
<1>2. r \in Rows /\ slots[r] \in HandleSlot /\ slots[r].state = "Live"
  BY <1>1 DEF Rows, Handles, IInv, TypeOK, SlotMatches
<1> HIDE DEF r
<1>3. slots'[r] = [slots[r] EXCEPT !.state = "Closing"] /\ \A q \in Rows \ {r} : slots'[q] = slots[q]
  BY <1>1, <1>2 DEF IInv, TypeOK
<1>4. RowClosing(r)
  BY <1>2, <1>3 DEF RowClosing, HandleSlot
<1> QED BY <1>1, <1>2, <1>3, <1>4, OneRow, OperationStates DEF RowStep, RowClosing

\* HandleTableDetach and HandleTableRemove begin with it.
LEMMA HandleTableDetachMove ==
  ASSUME IInv, AInv, NEW th \in Threads, NEW t \in Tables, NEW h \in Handles, NEW type, NEW required, NEW after,
         HandleTableDetach(th, t, h, type, required, after)
  PROVE  ThreadMove(th)
<1>1. /\ StartClosing(t, h) /\ pc[th] = "idle"
      /\ Goto(th, "closing", [NoReg EXCEPT !.tab = t, !.slot = h[1], !.gen = h[2], !.cont = after])
      /\ held' = held /\ ticket' = ticket /\ lastNonce' = lastNonce
  BY DEF HandleTableDetach
<1>2. pc'[th] = "closing" /\ OthersKeepPlace(th)
  BY <1>1, GotoFrame DEF IInv
<1>3. OthersKeepRefs(th) /\ TicketMoves(th) /\ DrainMoves(th)
  BY <1>1, <1>2
     DEF OthersKeepRefs, TicketMoves, DrainMoves, Releasing
<1>4. QuietLocals(th)' /\ RightsCarried(th)'
  BY <1>2 DEF QuietLocals, RightsCarried, Pinned
<1> QED BY <1>1, <1>2, <1>3, <1>4, StartClosingRow DEF ThreadMove

\* HandleTableAdoptReplace begins with it too.
LEMMA HandleTableAdoptReplaceMove ==
  ASSUME IInv, AInv, NEW th \in Threads, NEW t \in Tables, NEW h \in Handles, NEW rights \in RequestableRights, NEW type,
         HandleTableAdoptReplace(th, t, h, rights, type)
  PROVE  ThreadMove(th)
<1> DEFINE l == [NoReg EXCEPT !.tab = t, !.slot = h[1], !.gen = h[2], !.want = rights]
<1>1. /\ StartClosing(t, h) /\ pc[th] = "using" /\ rights \subseteq Allowed(held[th])
      /\ Goto(th, "adopting", l)
      /\ held' = held /\ ticket' = ticket /\ lastNonce' = lastNonce
  BY DEF HandleTableAdoptReplace, Allowed
<1>2. l.want = rights /\ rights # {}
  BY ConstantsAssumption DEF NoReg
<1> HIDE DEF l
<1>3. pc'[th] = "adopting" /\ reg'[th] = l /\ OthersKeepPlace(th)
  BY <1>1, GotoFrame DEF IInv
<1>4. \A q \in Rows : RowStep(th, q) /\ slots'[q].obj = slots[q].obj
  BY <1>1, StartClosingRow
<1>5. OthersKeepRefs(th) /\ TicketMoves(th) /\ DrainMoves(th)
  BY <1>1, <1>3, <1>4
     DEF OthersKeepRefs, TicketMoves, DrainMoves, Releasing
<1>6. QuietLocals(th)' /\ RightsCarried(th)'
  BY <1>1, <1>2, <1>3 DEF QuietLocals, RightsCarried, Pinned
<1> QED BY <1>1, <1>3, <1>4, <1>5, <1>6, StartClosingRow DEF ThreadMove

\* A finished close empties its row.
LEMMA FinishDetachMove ==
  ASSUME IInv, AInv, NEW th \in Threads, FinishDetach(th)
  PROVE  ThreadMove(th)
<1> DEFINE r == Row(th)
<1>1. /\ pc[th] = "closing" /\ slots' = [slots EXCEPT ![r] = Cleared(slots[r])] /\ tab' = EndOperation(reg[th].tab)
      /\ HoldRef(th, slots[r].obj) /\ Goto(th, reg[th].cont, NoReg)
      /\ ticket' = ticket /\ lastNonce' = lastNonce
  BY DEF FinishDetach, Rest, DetachedRef
<1>2. r \in Rows /\ slots[r] \in HandleSlot /\ slots[r].state = "Closing" /\ reg[th].cont \in {"using", "release"}
  BY <1>1, BusyRows DEF IInv, Busy, Closers, TypeOK, TableInv, ClosingRows, LocalsOK, ThreadOK
<1> HIDE DEF r
<1>3. slots'[r] = Cleared(slots[r]) /\ \A q \in Rows \ {r} : slots'[q] = slots[q]
  BY <1>1, <1>2 DEF IInv, TypeOK
<1>4. RowCleared(th, r)
  BY <1>2, <1>3, ClearedFacts DEF RowCleared, Vacant
<1>5. \A q \in Rows : RowStep(th, q)
  BY <1>2, <1>3, <1>4, OneRow DEF RowStep
<1>6. pc'[th] = reg[th].cont /\ reg'[th] = NoReg /\ OthersKeepPlace(th)
  BY <1>1, GotoFrame DEF IInv
<1>7. held'[th] = slots[r].obj /\ \A u \in Threads \ {th} : held'[u] = held[u]
  BY <1>1 DEF HoldRef, IInv, TypeOK
<1>8. OthersKeepRefs(th) /\ TicketMoves(th) /\ DrainMoves(th)
  BY <1>1, <1>2, <1>6, <1>7
     DEF OthersKeepRefs, TicketMoves, DrainMoves, Releasing
<1>9. QuietLocals(th)' /\ RightsCarried(th)'
  BY <1>2, <1>6, NoRegFacts DEF QuietLocals, RightsCarried, Pinned
<1> QED BY <1>1, <1>5, <1>6, <1>8, <1>9, OperationStates DEF ThreadMove

\* HandleReplace narrows a row in place.
LEMMA HandleReplaceMove ==
  ASSUME IInv, AInv, NEW th \in Threads, NEW t \in Tables, NEW h \in Handles, NEW rights \in RequestableRights,
         HandleReplace(th, t, h, rights)
  PROVE  ThreadMove(th)
<1> DEFINE r == <<t, h[1]>>
<1>1. /\ pc[th] = "idle" /\ SlotMatches(slots[r], h[2]) /\ rights \subseteq slots[r].rights
      /\ slots' = [slots EXCEPT ![r].generation = @ + 1, ![r].rights = rights, ![r].lineage = @ \cap rights]
      /\ tab' = tab
      /\ pc' = pc /\ reg' = reg /\ held' = held /\ ticket' = ticket /\ lastNonce' = lastNonce
  BY DEF HandleReplace, threadVars
<1>2. r \in Rows /\ slots[r] \in HandleSlot /\ slots[r].state = "Live" /\ rights # {}
  BY <1>1, ConstantsAssumption DEF Rows, Handles, IInv, TypeOK, SlotMatches
<1> HIDE DEF r
<1>3. /\ slots'[r] = [slots[r] EXCEPT !.generation = slots[r].generation + 1, !.rights = rights,
                                     !.lineage = slots[r].lineage \cap rights]
      /\ \A q \in Rows \ {r} : slots'[q] = slots[q]
  BY <1>1, <1>2 DEF IInv, TypeOK
<1>4. RowNarrowed(r)
  <2>1. /\ slots'[r].generation = slots[r].generation + 1 /\ slots'[r].rights = rights
        /\ slots'[r].state = slots[r].state /\ slots'[r].obj = slots[r].obj
        /\ slots'[r].lineage = slots[r].lineage \cap rights
    BY <1>2, <1>3 DEF HandleSlot
  <2> QED BY <1>1, <1>2, <2>1 DEF RowNarrowed
<1>5. \A q \in Rows : RowStep(th, q) /\ slots'[q].obj = slots[q].obj
  BY <1>2, <1>3, <1>4, OneRow DEF RowStep, RowNarrowed
<1>6. OthersKeepRefs(th) /\ TicketMoves(th) /\ DrainMoves(th)
  BY <1>1, <1>5
     DEF OthersKeepRefs, TicketMoves, DrainMoves, Releasing
<1>7. QuietLocals(th)' /\ RightsCarried(th)' /\ OthersKeepPlace(th)
  BY <1>1 DEF QuietLocals, RightsCarried, Pinned, AInv, OthersKeepPlace
<1>8. TablesMove(th)
  BY <1>1, StillStates
<1> QED BY <1>5, <1>6, <1>7, <1>8 DEF ThreadMove

\* A finished adopt-replace gives the row the caller's object.
LEMMA FinishAdoptReplaceMove ==
  ASSUME IInv, AInv, NEW th \in Threads, FinishAdoptReplace(th)
  PROVE  ThreadMove(th)
<1> DEFINE r == Row(th)
           o == held[th]
           s == [slots[r] EXCEPT !.obj = o, !.rights = reg[th].want, !.generation = NextGeneration(r), !.state = "Live",
                             !.lineage = reg[th].want]
<1>1. /\ pc[th] = "adopting" /\ slots' = [slots EXCEPT ![r] = s] /\ tab' = EndOperation(reg[th].tab)
      /\ HoldRef(th, slots[r].obj) /\ Goto(th, "using", NoReg)
      /\ ticket' = ticket /\ lastNonce' = lastNonce
  BY DEF FinishAdoptReplace, Rest, DetachedRef
<1>2. r \in Rows /\ slots[r] \in HandleSlot /\ slots[r].state = "Closing" /\ o \in Objects
  BY <1>1, BusyRows, ConstantFacts DEF IInv, Busy, Closers, TypeOK, TableInv, ClosingRows, LocalsOK, ThreadOK, Owning
<1>3. /\ s.obj = o /\ s.rights = reg[th].want /\ s.generation = slots[r].generation + 1 /\ s.state = "Live"
      /\ s.lineage = reg[th].want
  BY <1>2 DEF HandleSlot, NextGeneration
<1> HIDE DEF r, s
<1>4. slots'[r] = s /\ \A q \in Rows \ {r} : slots'[q] = slots[q]
  BY <1>1, <1>2 DEF IInv, TypeOK
<1>5. pc'[th] = "using" /\ reg'[th] = NoReg /\ OthersKeepPlace(th)
  BY <1>1, GotoFrame DEF IInv
<1>6. RowAdopted(th, r)
  BY <1>1, <1>2, <1>3, <1>4, <1>5 DEF RowAdopted
<1>7. \A q \in Rows : RowStep(th, q)
  BY <1>2, <1>4, <1>6, OneRow DEF RowStep
<1>8. held'[th] = slots[r].obj /\ \A u \in Threads \ {th} : held'[u] = held[u]
  BY <1>1 DEF HoldRef, IInv, TypeOK
<1>9. OthersKeepRefs(th) /\ TicketMoves(th) /\ DrainMoves(th)
  BY <1>1, <1>2, <1>5, <1>8
     DEF OthersKeepRefs, TicketMoves, DrainMoves, Releasing
<1>10. QuietLocals(th)' /\ RightsCarried(th)'
  BY <1>5, NoRegFacts DEF QuietLocals, RightsCarried, Pinned
<1> QED BY <1>1, <1>5, <1>7, <1>9, <1>10, OperationStates DEF ThreadMove

\* A drain begins, or joins the one in progress.
LEMMA DrainBeginMove ==
  ASSUME IInv, AInv, NEW th \in Threads, NEW t \in Tables, DrainBegin(th, t)
  PROVE  ThreadMove(th)
<1> DEFINE l == [NoReg EXCEPT !.tab = t]
           to == IF tab[t].state = "Open" THEN "drainwait" ELSE "drainjoin"
<1>1. /\ pc[th] = "idle" /\ tab[t].state # "Closed" /\ tab' = [tab EXCEPT ![t].state = "Draining"] /\ Goto(th, to, l)
      /\ slots' = slots /\ held' = held /\ ticket' = ticket /\ lastNonce' = lastNonce
  BY DEF DrainBegin
<1>2. pc'[th] \in {"drainwait", "drainjoin"} /\ OthersKeepPlace(th)
  BY <1>1, GotoFrame DEF IInv
<1>3. TablesMove(th)
  <2>1. tab \in [Tables -> TableHeader]
    BY DEF IInv, TypeOK
  <2> QED BY <1>1, <2>1 DEF TablesMove, TableHeader
<1>4. \A q \in Rows : RowStep(th, q)
  BY <1>1 DEF RowStep, RowKept
<1>5. OthersKeepRefs(th) /\ TicketMoves(th) /\ DrainMoves(th)
  BY <1>1, <1>2
     DEF OthersKeepRefs, TicketMoves, DrainMoves, Releasing
<1>6. QuietLocals(th)' /\ RightsCarried(th)'
  BY <1>2 DEF QuietLocals, RightsCarried, Pinned
<1> QED BY <1>2, <1>3, <1>4, <1>5, <1>6 DEF ThreadMove

\* Waiting drains move without touching a table.
LEMMA DrainWaitMove ==
  ASSUME IInv, AInv, NEW th \in Threads, DrainJoined(th) \/ DrainQuiescent(th)
  PROVE  ThreadMove(th)
<1>1. /\ pc[th] \in {"drainjoin", "drainwait"} /\ (Goto(th, "idle", NoReg) \/ Goto(th, "drainsweep", reg[th]))
      /\ slots' = slots /\ tab' = tab
      /\ held' = held /\ ticket' = ticket /\ lastNonce' = lastNonce
  BY DEF DrainJoined, DrainQuiescent, Rest, tableVars
<1>2. OthersKeepPlace(th) /\ (pc'[th] = "drainsweep" \/ (pc'[th] = "idle" /\ reg'[th] = NoReg))
  BY <1>1, GotoFrame DEF IInv
<1>3. OthersKeepRefs(th) /\ TicketMoves(th) /\ DrainMoves(th)
  BY <1>1, <1>2
     DEF OthersKeepRefs, TicketMoves, DrainMoves, Releasing
<1>4. QuietLocals(th)' /\ RightsCarried(th)'
  BY <1>2, NoRegFacts DEF QuietLocals, RightsCarried, Pinned
<1> QED BY <1>1, <1>2, <1>3, <1>4, StillTables DEF ThreadMove

\* The sweep empties every row, the reserved ones included.
LEMMA DrainSweepMove ==
  ASSUME IInv, AInv, NEW th \in Threads, DrainSweep(th)
  PROVE  ThreadMove(th)
<1> DEFINE t == reg[th].tab
<1>1. /\ pc[th] = "drainsweep" /\ Goto(th, "drainrelease", reg[th])
      /\ slots' = [r \in Rows |-> IF r[1] = t /\ slots[r].state \in {"Live", "Reserved"}
                                  THEN Cleared(slots[r]) ELSE slots[r]]
      /\ tab' = tab /\ held' = held /\ ticket' = ticket /\ lastNonce' = lastNonce
  BY DEF DrainSweep
<1>2. t \in Tables /\ tab[t].state = "Draining" /\ tab[t].ops = 0
  BY <1>1 DEF IInv, LocalsOK, ThreadOK, DrainOK, InDrain
<1>3. pc'[th] = "drainrelease" /\ reg'[th] = reg[th] /\ OthersKeepPlace(th)
  BY <1>1, GotoFrame DEF IInv
<1> HIDE DEF t
<1>4. \A r \in Rows : slots[r] \in HandleSlot
  BY DEF IInv, TypeOK
<1>5. ASSUME NEW q \in Rows PROVE RowStep(th, q) /\ (q[1] = t => slots'[q].state \in Vacant)
  <2>1. CASE q[1] = t /\ slots[q].state \in {"Live", "Reserved"}
    <3>1. slots'[q] = Cleared(slots[q])
      BY <1>1, <2>1
    <3>2. RowCleared(th, q)
      BY <1>2, <1>4, <2>1, <3>1, ClearedFacts DEF RowCleared, Vacant
    <3> QED BY <3>2 DEF RowStep, RowCleared
  <2>2. CASE ~(q[1] = t /\ slots[q].state \in {"Live", "Reserved"})
    <3>1. slots'[q] = slots[q]
      BY <1>1, <2>2
    <3>2. q[1] = t => slots[q].state # "Closing"
      <4>1. q = <<q[1], q[2]>> /\ q[2] \in Slots
        BY DEF Rows
      <4> QED BY <1>2, <4>1, NoOperation
    <3>3. slots[q].state \in SlotStates
      BY <1>4 DEF HandleSlot
    <3> QED BY <2>2, <3>1, <3>2, <3>3 DEF RowStep, RowKept, Vacant, SlotStates
  <2> QED BY <2>1, <2>2
<1>6. \A i \in Slots : slots'[<<t, i>>].state \in Vacant
  BY <1>2, <1>5 DEF Rows
<1>7. OthersKeepRefs(th) /\ TicketMoves(th) /\ DrainMoves(th)
  BY <1>1, <1>2, <1>3, <1>6
     DEF OthersKeepRefs, TicketMoves, DrainMoves, Releasing, t
<1>8. QuietLocals(th)' /\ RightsCarried(th)'
  BY <1>3 DEF QuietLocals, RightsCarried, Pinned
<1>9. TablesMove(th)
  BY <1>1, StillStates
<1> QED BY <1>3, <1>5, <1>7, <1>8, <1>9 DEF ThreadMove

\* A drain releases its victims outside the tables.
LEMMA DrainReleaseMove ==
  ASSUME IInv, AInv, NEW th \in Threads, DrainRelease(th)
  PROVE  ThreadMove(th)
<1>1. PICK i \in Slots : DropRef(th, victims[th][i], "drainrelease")
  BY DEF DrainRelease
<1>2. /\ pc[th] = "drainrelease" /\ slots' = slots /\ tab' = tab
      /\ held' = held /\ ticket' = ticket /\ lastNonce' = lastNonce
  BY DEF DrainRelease, tableVars
<1>3. /\ pc'[th] \in {"destroy", "drainrelease"} /\ OthersKeepPlace(th) /\ reg'[th].tab = reg[th].tab
      /\ pc'[th] = "destroy" => reg'[th].cont = "drainrelease"
  BY <1>1, DropRefMove
<1>4. reg[th].tab \in Tables
  BY <1>2 DEF IInv, LocalsOK, ThreadOK, InDrain, Releasing
<1>5. OthersKeepRefs(th) /\ TicketMoves(th) /\ DrainMoves(th)
  BY <1>2, <1>3, <1>4
     DEF OthersKeepRefs, TicketMoves, DrainMoves, Releasing
<1>6. QuietLocals(th)' /\ RightsCarried(th)'
  BY <1>3 DEF QuietLocals, RightsCarried, Pinned
<1> QED BY <1>2, <1>3, <1>5, <1>6, StillTables DEF ThreadMove

\* The drain that owns the table closes it.
LEMMA DrainClosedMove ==
  ASSUME IInv, AInv, NEW th \in Threads, DrainClosed(th)
  PROVE  ThreadMove(th)
<1>1. /\ pc[th] = "drainrelease" /\ tab' = [tab EXCEPT ![reg[th].tab].state = "Closed"] /\ Goto(th, "idle", NoReg)
      /\ slots' = slots /\ held' = held /\ ticket' = ticket /\ lastNonce' = lastNonce
  BY DEF DrainClosed, Rest
<1>2. pc'[th] = "idle" /\ reg'[th] = NoReg /\ OthersKeepPlace(th)
  BY <1>1, GotoFrame DEF IInv
<1>3. TablesMove(th)
  <2>1. tab \in [Tables -> TableHeader] /\ reg[th].tab \in Tables /\ Releasing(th)
    BY <1>1 DEF IInv, TypeOK, LocalsOK, ThreadOK, InDrain, Releasing
  <2> QED BY <1>1, <2>1 DEF TablesMove, TableHeader
<1>4. \A q \in Rows : RowStep(th, q)
  BY <1>1 DEF RowStep, RowKept
<1>5. OthersKeepRefs(th) /\ TicketMoves(th) /\ DrainMoves(th)
  BY <1>1, <1>2
     DEF OthersKeepRefs, TicketMoves, DrainMoves, Releasing
<1>6. QuietLocals(th)' /\ RightsCarried(th)'
  BY <1>2, NoRegFacts DEF QuietLocals, RightsCarried, Pinned
<1> QED BY <1>2, <1>3, <1>4, <1>5, <1>6 DEF ThreadMove

\* Every step of a thread moves each row along its life cycle.
LEMMA EveryMove ==
  ASSUME IInv, AInv, NEW th \in Threads, Call(th) \/ Continue(th)
  PROVE  ThreadMove(th)
<1>1. CASE Call(th)
  <2>1. CASE KObjectInit(th) \/ KObjectRelease(th) \/ AbandonTicket(th)
    BY <2>1, KObjectInitMove, KObjectReleaseMove, AbandonTicketMove
  <2>2. ASSUME NEW t \in Tables, HandleTablePublish(th, t) \/ HandleTableAbort(th, t) \/ DrainBegin(th, t)
        PROVE  ThreadMove(th)
    BY <2>2, HandleTablePublishMove, HandleTableAbortMove, DrainBeginMove
  <2>3. ASSUME NEW t \in Tables, NEW rights \in RequestableRights, InsertCheck(th, t, rights) PROVE ThreadMove(th)
    BY <2>3, InsertCheckMove
  <2>4. ASSUME NEW t \in Tables, NEW rights \in RequestableRights, NEW type \in TypesInPlay,
               HandleTableReserve(th, t, type, rights)
        PROVE  ThreadMove(th)
    BY <2>4, HandleTableReserveMove
  <2>5. ASSUME NEW t \in Tables, NEW rights \in RequestableRights, NEW h \in Handles, HandleReplace(th, t, h, rights)
        PROVE  ThreadMove(th)
    BY <2>5, HandleReplaceMove
  <2>6. ASSUME NEW t \in Tables, NEW rights \in RequestableRights, NEW h \in Handles, NEW type \in ExpectedTypes,
               HandleTableAdoptReplace(th, t, h, rights, type)
        PROVE  ThreadMove(th)
    BY <2>6, HandleTableAdoptReplaceMove
  <2>7. ASSUME NEW t \in Tables, NEW h \in Handles, NEW rights \in RequestableRights \cup {{}}, NEW dst \in Tables,
               HandleTableDuplicate(th, t, h, dst, rights)
        PROVE  ThreadMove(th)
    BY <2>7, LookupMove
  <2>8. ASSUME NEW t \in Tables, NEW h \in Handles, NEW rights \in RequestableRights \cup {{}}, NEW type \in ExpectedTypes,
               HandleTableLookupRef(th, t, h, type, rights)
        PROVE  ThreadMove(th)
    BY <2>8, LookupMove
  <2>9. ASSUME NEW t \in Tables, NEW h \in Handles, NEW rights \in RequestableRights \cup {{}}, NEW type \in ExpectedTypes,
               HandleTableDetach(th, t, h, type, rights, "using")
        PROVE  ThreadMove(th)
    BY <2>9, HandleTableDetachMove
  <2>10. ASSUME NEW t \in Tables, NEW h \in Handles, HandleTableDetach(th, t, h, "Invalid", {}, "release")
         PROVE  ThreadMove(th)
    BY <2>10, HandleTableDetachMove
  <2> QED BY <1>1, <2>1, <2>2, <2>3, <2>4, <2>5, <2>6, <2>7, <2>8, <2>9, <2>10, Zenon DEF Call
<1>2. CASE Continue(th)
  <2>1. CASE KObjectAcquire(th) \/ Unpin(th) \/ DuplicateCheck(th)
    BY <2>1, KObjectAcquireMove, UnpinMove, DuplicateCheckMove
  <2>2. CASE InsertCommit(th) \/ InsertFail(th)
    BY <2>2, InsertCommitMove, InsertFailMove
  <2>3. CASE FinishDetach(th) \/ FinishAdoptReplace(th)
    BY <2>3, FinishDetachMove, FinishAdoptReplaceMove
  <2>4. CASE KObjectRelease(th) \/ DestroyCallback(th)
    BY <2>4, KObjectReleaseMove, DestroyCallbackMove
  <2>5. CASE DrainJoined(th) \/ DrainQuiescent(th) \/ DrainSweep(th)
    BY <2>5, DrainWaitMove, DrainSweepMove
  <2>6. CASE DrainRelease(th) \/ DrainClosed(th)
    BY <2>6, DrainReleaseMove, DrainClosedMove
  <2> QED BY <1>2, <2>1, <2>2, <2>3, <2>4, <2>5, <2>6 DEF Continue
<1> QED BY <1>1, <1>2

-----------------------------------------------------------------------------
(* Theorems *)

\* A reused table starts with fresh rows and forgets its spent tokens.
LEMMA TableReuseKeeps ==
  ASSUME IInv, AInv, NEW t \in Tables, TableReuse(t), spent' = {tok \in spent : tok[1][1] # t}
  PROVE  AInv'
<1>1. /\ slots' = [r \in Rows |-> IF r[1] = t THEN FreshSlot ELSE slots[r]]
      /\ tab' = [tab EXCEPT ![t] = [hint |-> 0, ops |-> 0, state |-> "Open"]]
      /\ pc' = pc /\ reg' = reg /\ held' = held /\ ticket' = ticket /\ lastNonce' = lastNonce
      /\ tab[t].state = "Closed" /\ \A th \in Threads : reg[th].tab # t
  BY DEF TableReuse, threadVars
<1>2. \A r \in Rows : slots'[r] = IF r[1] = t THEN FreshSlot ELSE slots[r]
  BY <1>1
<1>3. FreshSlot.state = "Free" /\ FreshSlot.obj = NULL
  BY DEF FreshSlot
<1>4. \A th \in Threads : QuietLocals(th)' /\ RightsCarried(th)'
  BY <1>1 DEF AInv, QuietLocals, RightsCarried
<1>5. NoRightsAmplification'
  BY <1>1, <1>2, <1>3 DEF AInv, NoRightsAmplification
<1>6. Drained'
  <2>1. \A u \in Tables, i \in Slots : <<u, i>> \in Rows
    BY DEF Rows
  <2>2. \A th \in Threads : Releasing(th) => reg[th].tab \in Tables
    BY DEF IInv, LocalsOK, ThreadOK, InDrain
  <2>3. \A u \in Tables : u # t => tab'[u] = tab[u]
    BY <1>1 DEF IInv, TypeOK
  <2>4. tab'[t].state = "Open"
    BY <1>1 DEF IInv, TypeOK
  <2>5. \A th \in Threads : Releasing(th)' => \A i \in Slots : slots'[<<reg'[th].tab, i>>].state \in Vacant
    BY <1>1, <1>2, <2>1, <2>2 DEF AInv, Drained, Releasing
  <2>6. \A u \in Tables : tab'[u].state = "Closed" => \A i \in Slots : slots'[<<u, i>>].state \in Vacant
    BY <1>2, <2>1, <2>3, <2>4 DEF AInv, Drained
  <2> QED BY <2>5, <2>6 DEF Drained
<1>7. SpentPassed'
  <2> SUFFICES ASSUME NEW tok \in spent' PROVE Passed(tok)'
    BY DEF SpentPassed
  <2>1. tok \in spent /\ tok \in Tokens /\ tok[1][1] # t
    BY DEF IInv, TypeOK
  <2>2. tok[1] \in Rows /\ tok[1][1] \in Tables
    BY <2>1 DEF Tokens, Rows
  <2>3. slots'[tok[1]] = slots[tok[1]] /\ tab'[tok[1][1]] = tab[tok[1][1]]
    BY <1>1, <2>1, <2>2 DEF IInv, TypeOK
  <2> QED BY <2>1, <2>3 DEF AInv, SpentPassed, Passed, IsOpen
<1>8. TicketsMatch'
  BY <1>1, <1>2, <1>3 DEF AInv, TicketsMatch
<1> QED BY <1>4, <1>5, <1>6, <1>7, <1>8 DEF AInv

(***************************************************************************)
(* Rights, tokens, reservations and drained tables stay in order in every  *)
(* run of the handle-table code, for every value of the constants.         *)
(***************************************************************************)
THEOREM AuthorityInductive == Spec => []AInv
<1>1. Init => AInv
  <2> SUFFICES ASSUME Init PROVE AInv
    OBVIOUS
  <2>1. \A th \in Threads : pc[th] = "idle" /\ reg[th] = NoReg /\ ticket[th] = NoTicket
    BY DEF Init
  <2>2. \A r \in Rows : slots[r].state = "Free"
    BY DEF Init, FreshSlot
  <2>3. \A t \in Tables : tab[t].state = "Open"
    BY DEF Init
  <2>4. spent = {} /\ lastNonce = 0 /\ NoTicket.nonce = 0
    BY DEF Init, NoTicket
  <2>5. \A th \in Threads : QuietLocals(th) /\ RightsCarried(th) /\ ~Releasing(th)
    BY <2>1, NoRegFacts DEF QuietLocals, RightsCarried, Releasing, Pinned
  <2>6. NoRightsAmplification /\ TicketsMatch
    BY <2>1, <2>2, <2>4 DEF NoRightsAmplification, TicketsMatch
  <2> QED BY <2>3, <2>4, <2>5, <2>6 DEF AInv, Drained, SpentPassed
<1>2. IInv /\ IInv' /\ AInv /\ [Next]_vars => AInv'
  <2> SUFFICES ASSUME IInv, IInv', AInv, [Next]_vars PROVE AInv'
    OBVIOUS
  <2>1. CASE UNCHANGED vars
    <3>1. UNCHANGED <<slots, tab, pc, reg, held, ticket, lastNonce, spent>>
      BY <2>1 DEF vars
    <3>2. (\A th \in Threads : QuietLocals(th) /\ RightsCarried(th))' /\ NoRightsAmplification'
      BY <3>1 DEF AInv, QuietLocals, RightsCarried, NoRightsAmplification
    <3>3. Drained' /\ SpentPassed' /\ TicketsMatch'
      BY <3>1 DEF AInv, Drained, Releasing, SpentPassed, Passed, IsOpen, TicketsMatch
    <3> QED BY <3>2, <3>3 DEF AInv
  <2>2. ASSUME NEW th \in Threads, Step(Call(th) \/ Continue(th)) PROVE AInv'
    <3>1. ThreadMove(th) /\ RecordSpent
      BY <2>2, EveryMove DEF Step
    <3> QED BY <3>1, MoveKeepsAInv
  <2>3. ASSUME NEW t \in Tables, TableReuse(t), spent' = {tok \in spent : tok[1][1] # t} PROVE AInv'
    BY <2>3, TableReuseKeeps
  <2> QED BY <2>1, <2>2, <2>3 DEF Next
<1> QED BY <1>1, <1>2, Inductive, PTL DEF Spec

\* handle_table.h: a token that has ceased to resolve never resolves again
\* while its table lives, however its row is reused.
THEOREM StaleTokens == Spec => []StaleTokenNeverResolves
<1>1. IInv /\ AInv => StaleTokenNeverResolves
  <2> SUFFICES ASSUME IInv, AInv, NEW tok \in spent, Resolves(tok) PROVE FALSE
    BY DEF StaleTokenNeverResolves
  <2>1. Passed(tok) /\ tok \in Tokens
    BY DEF AInv, SpentPassed, IInv, TypeOK
  <2>2. tok[2] \in Nat
    BY <2>1 DEF Tokens, Generations
  <2> QED BY <2>1, <2>2 DEF Passed, Resolves, SlotMatches
<1> QED BY <1>1, Inductive, AuthorityInductive, PTL

(***************************************************************************)
(* handle_table.cpp: no handle that descends from a grant (an insert, a    *)
(* publish or an adopt-replace by an owner of a reference) through any     *)
(* chain of duplications and replacements, between any tables and against  *)
(* any concurrent narrowing or close of its ancestors, has a right that    *)
(* the grant did not give, that one of its ancestors had lost when it was  *)
(* copied, or that its object's type does not allow.                       *)
(***************************************************************************)
THEOREM RightsNeverGrow == Spec => []NoRightsAmplification
<1>1. AInv => NoRightsAmplification
  BY DEF AInv
<1> QED BY <1>1, AuthorityInductive, PTL

\* handle_table.cpp: a Closed table is empty, and no call but one that will
\* find it closed is inside it.
THEOREM ClosedIsDrained == Spec => []ClosedMeansDrained
<1>1. IInv /\ AInv => ClosedMeansDrained
  <2> SUFFICES ASSUME IInv, AInv, NEW t \in Tables, tab[t].state = "Closed"
               PROVE  /\ \A i \in Slots : slots[<<t, i>>].state \in Vacant /\ slots[<<t, i>>].obj = NULL
                      /\ tab[t].ops = 0
                      /\ \A th \in Threads : reg[th].tab = t => pc[th] \in {"drainjoin", "insert", "dup"}
    BY DEF ClosedMeansDrained, Vacant
  <2>1. tab[t].ops = 0 /\ \A i \in Slots : slots[<<t, i>>].obj = NULL
    BY DEF IInv, DrainOK
  <2>2. \A i \in Slots : slots[<<t, i>>].state \in Vacant
    BY DEF AInv, Drained
  <2>3. ASSUME NEW th \in Threads, reg[th].tab = t PROVE pc[th] \in {"drainjoin", "insert", "dup"}
    <3>1. pc[th] \notin Busy
      BY <2>1, <2>3, NoOperation
    <3>2. ~InDrain(th)
      BY <2>3 DEF IInv, DrainOK
    <3>3. pc[th] \notin {"idle", "using", "release"} /\ ~(pc[th] = "destroy" /\ reg[th].cont = "idle")
      BY <2>3, ConstantFacts DEF AInv, QuietLocals
    <3>4. pc[th] \in PCs /\ (pc[th] = "destroy" => reg[th].cont \in {"idle", "drainrelease"})
      BY DEF IInv, TypeOK, LocalsOK, ThreadOK
    <3> QED BY <3>1, <3>2, <3>3, <3>4 DEF PCs, Resting, Busy, Pinned, Closers, InDrain, Releasing
  <2> QED BY <2>1, <2>2, <2>3
<1> QED BY <1>1, Inductive, AuthorityInductive, PTL

\* handle_table.h: a reserved row is published with the reserved type and
\* rights or aborted, by the holder of its ticket, or swept by a drain.
THEOREM ReservationsExact == Spec => ReservationExact
<1> DEFINE Exact ==
      \A r \in Rows : slots[r].state = "Reserved" /\ slots'[r] # slots[r] =>
        \/ \E th \in Threads :
             /\ ticket[th].home = r[1] /\ ticket[th].slot = r[2] /\ ticket[th].nonce = slots[r].nonce
             /\ ticket'[th] = NoTicket
             /\ slots'[r].state = "Live" =>
                  ObjType[slots'[r].obj] = slots[r].rtype /\ slots'[r].rights = slots[r].rights
        \/ tab[r[1]].state = "Draining" /\ slots'[r].obj = NULL
<1>1. IInv /\ AInv /\ [Next]_vars => Exact
  <2> SUFFICES ASSUME IInv, AInv, [Next]_vars, NEW r \in Rows, slots[r].state = "Reserved", slots'[r] # slots[r]
               PROVE  \/ \E th \in Threads :
                          /\ ticket[th].home = r[1] /\ ticket[th].slot = r[2] /\ ticket[th].nonce = slots[r].nonce
                          /\ ticket'[th] = NoTicket
                          /\ slots'[r].state = "Live" =>
                               ObjType[slots'[r].obj] = slots[r].rtype /\ slots'[r].rights = slots[r].rights
                      \/ tab[r[1]].state = "Draining" /\ slots'[r].obj = NULL
    OBVIOUS
  <2>1. slots[r].obj = NULL
    BY DEF IInv, TableInv, RowsOK
  <2>2. CASE UNCHANGED vars
    BY <2>2 DEF vars
  <2>3. ASSUME NEW th \in Threads, Step(Call(th) \/ Continue(th))
        PROVE  \/ /\ ticket[th].home = r[1] /\ ticket[th].slot = r[2] /\ ticket[th].nonce = slots[r].nonce
                  /\ ticket'[th] = NoTicket
                  /\ slots'[r].state = "Live" =>
                       ObjType[slots'[r].obj] = slots[r].rtype /\ slots'[r].rights = slots[r].rights
               \/ tab[r[1]].state = "Draining" /\ slots'[r].obj = NULL
    <3>1. RowStep(th, r)
      BY <2>3, EveryMove DEF Step, ThreadMove
    <3>2. RowPublished(th, r) \/ RowCleared(th, r)
      BY <2>1, <3>1 DEF RowStep, RowKept, RowRetired, RowInserted, RowReserved, RowNarrowed, RowClosing, RowAdopted
    <3>3. TicketUsed(th, r) =>
            /\ ticket[th].home = r[1] /\ ticket[th].slot = r[2] /\ ticket[th].nonce = slots[r].nonce
            /\ ticket'[th] = NoTicket
      BY DEF TicketUsed, AInv, TicketsMatch
    <3> QED BY <3>2, <3>3 DEF RowPublished, RowCleared, Vacant
  <2>4. ASSUME NEW t \in Tables, TableReuse(t) PROVE FALSE
    <3>1. tab[t].state = "Closed" /\ slots'[r] = IF r[1] = t THEN FreshSlot ELSE slots[r]
      BY <2>4 DEF TableReuse
    <3>2. r[1] = t /\ r[2] \in Slots /\ r = <<r[1], r[2]>>
      BY <3>1 DEF Rows
    <3>3. slots[r].state \in Vacant
      BY <3>1, <3>2 DEF AInv, Drained
    <3> QED BY <3>3 DEF Vacant
  <2> QED BY <2>2, <2>3, <2>4 DEF Next
<1>2. IInv /\ AInv /\ [Next]_vars => [Exact]_vars
  BY <1>1
<1>3. ReservationExact <=> [][Exact]_vars
  BY PTL DEF ReservationExact
<1> HIDE DEF Exact
<1> QED BY <1>2, <1>3, Inductive, AuthorityInductive, PTL DEF Spec
=============================================================================
