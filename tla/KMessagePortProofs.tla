------------------------- MODULE KMessagePortProofs -------------------------
(***************************************************************************)
(* The message port, for any number of tasks and ports, any capacity and   *)
(* any frame sizes: the ring is never corrupt, no reservation or lease is  *)
(* left behind, nobody is parked beside a frame, and the port implements   *)
(* MessageQueue.                                                           *)
(*                                                                         *)
(* The ring is described by a walk: the distances from its head at which   *)
(* its records begin.  A producer writes only beyond the last of them and  *)
(* a commit drops the first.                                               *)
(***************************************************************************)
EXTENDS KMessagePort, CondvarObjectProofs, SequenceTheorems, WellFoundedInduction

Cells == 0..(Capacity - 1)
Units == [unit: {"header", "frame", "torn"}, of: Nat, at: Nat]
Counters == [next: 1..kU64Max, exhausted: BOOLEAN]
Producers == [id: Nat, tail: Cells, frame_size: Nat, copy_active: BOOLEAN, abort_requested: BOOLEAN]
Receivers == [sequence: Nat, lease: Nat, frame_size: Nat, copy: Nat, copied: Nat]
Rings ==
  [storage: [Cells -> Units], head: Cells, tail: Cells, used: 0..Capacity, queued: Nat,
   sequences: Counters, reservations: Counters, leases: Counters, copies: Counters,
   producer: Producers, receiver: Receivers]

(* f[n] is how far from the head record n begins, f[queued] where the free *)
(* space does.                                                             *)
IsWalk(f, r) ==
  /\ f \in [0..r.queued -> 0..r.used] /\ f[0] = 0 /\ f[r.queued] = r.used
  /\ \A n \in 0..(r.queued - 1) :
       LET u == r.storage[AdvanceOffset(r.head, f[n])]
       IN u.unit = "header" /\ u.of # 0 /\ u.at # 0 /\ f[n + 1] = f[n] + u.at + 1
  /\ \A m, n \in 0..r.queued : m <= n => f[m] <= f[n]

(* The walk after a publication, and after a commit.                       *)
Extended(f, r) == [n \in 0..(r.queued + 1) |-> IF n <= r.queued THEN f[n] ELSE r.used + r.producer.frame_size + 1]
Shortened(f, r) == [n \in 0..(r.queued - 1) |-> f[n + 1] - f[1]]

RingOK(r) ==
  /\ r \in Rings /\ StateIsValid(r)
  /\ r.tail = AdvanceOffset(r.head, r.used)
  /\ \E f : IsWalk(f, r)

-----------------------------------------------------------------------------
(* Offsets *)

\* Offsets stay in the storage.
LEMMA OffsetRange ==
  ASSUME NEW h \in Cells, NEW a \in 0..Capacity
  PROVE  AdvanceOffset(h, a) \in Cells
BY MessageRingAssumption DEF AdvanceOffset, Cells

\* Advancing twice, not further than once around.
LEMMA OffsetSum ==
  ASSUME NEW h \in Cells, NEW a \in 0..Capacity, NEW b \in 0..Capacity, a + b <= Capacity
  PROVE  AdvanceOffset(AdvanceOffset(h, a), b) = AdvanceOffset(h, a + b)
BY MessageRingAssumption DEF AdvanceOffset, Cells

\* From a cell on around to one before it.
LEMMA OffsetAround ==
  ASSUME NEW h \in Cells, NEW a \in 0..Capacity, NEW d \in 0..Capacity, d < a
  PROVE  AdvanceOffset(AdvanceOffset(h, a), Capacity - a + d) = AdvanceOffset(h, d) /\ Capacity - a + d \in Cells
BY MessageRingAssumption DEF AdvanceOffset, Cells

\* CopyIntoStorage writes seq from offset on, around the end, and nothing else.
LEMMA StoredCells ==
  ASSUME NEW storage \in [Cells -> Units], NEW offset \in Cells, NEW seq \in Seq(Units), NEW i \in Cells
  PROVE  Stored(storage, offset, seq)[AdvanceOffset(offset, i)]
           = IF i < Len(seq) THEN seq[i + 1] ELSE storage[AdvanceOffset(offset, i)]
<1>1. Capacity \in Nat \ {0, 1} /\ i \in Nat /\ i < Capacity /\ offset \in Nat /\ offset < Capacity
  BY MessageRingAssumption DEF Cells
<1>2. i % Capacity = i
  BY <1>1
<1>3. (i + Capacity) % Capacity = i
  BY <1>1
<1>4. (AdvanceOffset(offset, i) + Capacity - offset) % Capacity = i
  <2>1. CASE offset + i < Capacity
    <3>1. AdvanceOffset(offset, i) + Capacity - offset = i + Capacity
      BY <1>1, <2>1 DEF AdvanceOffset
    <3> QED BY <1>3, <3>1
  <2>2. CASE ~(offset + i < Capacity)
    <3>1. AdvanceOffset(offset, i) + Capacity - offset = i
      BY <1>1, <2>2 DEF AdvanceOffset
    <3> QED BY <1>2, <3>1
  <2> QED BY <2>1, <2>2
<1>5. AdvanceOffset(offset, i) \in Cells
  BY <1>1, OffsetRange
<1> QED BY <1>4, <1>5 DEF Stored

\* What CopyIntoStorage leaves is storage.
LEMMA StoredType ==
  ASSUME NEW storage \in [Cells -> Units], NEW offset \in Cells, NEW seq \in Seq(Units)
  PROVE  Stored(storage, offset, seq) \in [Cells -> Units]
<1>1. ASSUME NEW c \in Cells, (c + Capacity - offset) % Capacity < Len(seq)
      PROVE  seq[((c + Capacity - offset) % Capacity) + 1] \in Units
  <2>1. c + Capacity - offset \in Int /\ Capacity \in Nat \ {0}
    BY MessageRingAssumption DEF Cells
  <2>2. (c + Capacity - offset) % Capacity \in Nat
    BY <2>1
  <2>3. ((c + Capacity - offset) % Capacity) + 1 \in 1..Len(seq)
    BY <1>1, <2>2
  <2> QED BY <2>3
<1> QED BY <1>1 DEF Stored

-----------------------------------------------------------------------------
(* Walks *)

\* The storage before the free space decides whether f walks the ring.
LEMMA WalkKept ==
  ASSUME NEW r \in Rings, NEW s \in Rings, NEW f, IsWalk(f, r),
         s.head = r.head, s.used = r.used, s.queued = r.queued,
         \A d \in 0..(r.used - 1) : s.storage[AdvanceOffset(r.head, d)] = r.storage[AdvanceOffset(r.head, d)]
  PROVE  IsWalk(f, s)
<1>1. r.used \in Nat /\ r.queued \in Nat /\ r.storage \in [Cells -> Units] /\ r.head \in Cells /\ r.used <= Capacity
  BY MessageRingAssumption DEF Rings
<1>2. ASSUME NEW n \in 0..(r.queued - 1) PROVE f[n] \in 0..(r.used - 1)
  <2>1. f[n] \in 0..r.used /\ f[n + 1] \in 0..r.used
    BY <1>1 DEF IsWalk
  <2>2. AdvanceOffset(r.head, f[n]) \in Cells
    BY <1>1, <2>1, OffsetRange, MessageRingAssumption
  <2>3. r.storage[AdvanceOffset(r.head, f[n])].at \in Nat
    BY <1>1, <2>2 DEF Units
  <2>4. f[n + 1] = f[n] + r.storage[AdvanceOffset(r.head, f[n])].at + 1
    BY DEF IsWalk
  <2> QED BY <1>1, <2>1, <2>3, <2>4
<1> QED BY <1>2 DEF IsWalk

\* What is stored beyond the used cells does not touch the records.
LEMMA StoredBeyond ==
  ASSUME NEW r \in Rings, NEW a \in r.used..Capacity, NEW seq \in Seq(Units), a + Len(seq) <= Capacity,
         NEW d \in 0..(r.used - 1)
  PROVE  Stored(r.storage, AdvanceOffset(r.head, a), seq)[AdvanceOffset(r.head, d)] = r.storage[AdvanceOffset(r.head, d)]
<1>1. /\ r.storage \in [Cells -> Units] /\ r.head \in Cells /\ r.used \in 0..Capacity /\ Capacity \in Nat
      /\ a \in 0..Capacity /\ d \in 0..Capacity /\ d < a
  BY MessageRingAssumption DEF Rings
<1> DEFINE i == Capacity - a + d
<1>2. AdvanceOffset(AdvanceOffset(r.head, a), i) = AdvanceOffset(r.head, d) /\ i \in Cells
  BY <1>1, OffsetAround
<1>3. AdvanceOffset(r.head, a) \in Cells
  BY <1>1, OffsetRange
<1>4. ~(i < Len(seq))
  BY <1>1
<1> HIDE DEF i
<1> QED BY <1>1, <1>2, <1>3, <1>4, StoredCells

\* The frame and the header units a producer stores.
LEMMA StoredUnits ==
  ASSUME NEW id \in Nat, NEW size \in Nat
  PROVE  /\ Frame(id, size) \in Seq(Units) /\ Len(Frame(id, size)) = size
         /\ TornFrame(size) \in Seq(Units) /\ Len(TornFrame(size)) = size
         /\ <<HeaderUnit(id, size)>> \in Seq(Units) /\ Len(<<HeaderUnit(id, size)>>) = 1
         /\ HeaderUnit(id, size) \in Units
<1>1. /\ HeaderUnit(id, size) \in Units /\ TornUnit \in Units
      /\ \A i \in 1..size : FrameUnit(id, i) \in Units
  BY DEF HeaderUnit, TornUnit, FrameUnit, Units
<1> QED BY <1>1 DEF Frame, TornFrame

\* A ring of no records is walked by the empty walk.
LEMMA EmptyRingOK == RingOK(EmptyRing)
<1>1. /\ FirstNumber \in Counters /\ NoProducer \in Producers /\ NoReceiver \in Receivers /\ TornUnit \in Units
      /\ 0 \in Cells /\ Capacity \in Nat
  BY MessageRingAssumption DEF FirstNumber, Counters, NoProducer, Producers, NoReceiver, Receivers, TornUnit, Units, Cells
<1>2. EmptyRing \in Rings
  BY <1>1 DEF EmptyRing, Rings, Cells
<1>3. StateIsValid(EmptyRing)
  BY <1>1, MessageRingAssumption DEF EmptyRing, StateIsValid, NoReceiver, NoProducer
<1>4. EmptyRing.tail = AdvanceOffset(EmptyRing.head, EmptyRing.used)
  BY MessageRingAssumption DEF EmptyRing, AdvanceOffset
<1>5. IsWalk([n \in 0..0 |-> 0], EmptyRing)
  BY DEF IsWalk, EmptyRing
<1> QED BY <1>2, <1>3, <1>4, <1>5 DEF RingOK

\* A counter that is taken stays a counter.
LEMMA TakenType ==
  ASSUME NEW c \in Counters
  PROVE  Taken(c) \in Counters /\ c.next \in Nat \ {0}
<1>1. c.next \in 1..kU64Max /\ kU64Max \in Nat /\ c.exhausted \in BOOLEAN
  BY MessageRingAssumption DEF Counters
<1>2. c.next # kU64Max => c.next + 1 \in 1..kU64Max
  BY <1>1
<1>3. c.next = kU64Max => [c EXCEPT !.exhausted = TRUE] \in Counters
  BY DEF Counters
<1>4. c.next # kU64Max => [c EXCEPT !.next = c.next + 1] \in Counters
  BY <1>2 DEF Counters
<1> QED BY <1>1, <1>3, <1>4 DEF Taken

-----------------------------------------------------------------------------
(* The producer's sections *)

\* A reservation writes only into the free space it reserves.
LEMMA PreparedOK ==
  ASSUME NEW r, RingOK(r), NEW size \in FrameSizes, PrepareStatus(r, size) = "Ok"
  PROVE  /\ RingOK(Prepared(r, size))
         /\ Prepared(r, size).receiver = r.receiver /\ Prepared(r, size).queued = r.queued
         /\ Prepared(r, size).producer.id = r.reservations.next /\ r.reservations.next # 0
         /\ Prepared(r, size).producer.copy_active /\ ~Prepared(r, size).producer.abort_requested
<1> DEFINE s == Prepared(r, size)
<1>1. /\ r \in Rings /\ size \in Nat \ {0} /\ r.reservations \in Counters /\ r.head \in Cells /\ r.tail \in Cells
      /\ r.used \in Nat /\ r.storage \in [Cells -> Units] /\ Capacity \in Nat
  BY MessageRingAssumption DEF RingOK, Rings
<1>2. r.producer.id = 0 /\ size + 1 <= Capacity - r.used
  BY <1>1 DEF PrepareStatus
<1>3. r.used + 1 \in r.used..Capacity /\ r.used + 1 + size <= Capacity /\ r.used \in 0..Capacity /\ 1 \in 0..Capacity
  BY <1>1, <1>2
<1>4. AdvanceOffset(r.tail, 1) = AdvanceOffset(r.head, r.used + 1) /\ AdvanceOffset(r.tail, 1) \in Cells
  <2>1. r.tail = AdvanceOffset(r.head, r.used)
    BY <1>1 DEF RingOK
  <2>2. r.used + 1 <= Capacity
    BY <1>1, <1>3
  <2>3. AdvanceOffset(r.tail, 1) = AdvanceOffset(r.head, r.used + 1)
    BY <1>1, <1>3, <2>1, <2>2, OffsetSum
  <2>4. AdvanceOffset(r.tail, 1) \in Cells
    BY <1>1, <1>3, OffsetRange
  <2> QED BY <2>3, <2>4
<1>5. TornFrame(size) \in Seq(Units) /\ Len(TornFrame(size)) = size
  BY <1>1, StoredUnits
<1>6. Taken(r.reservations) \in Counters /\ r.reservations.next \in Nat \ {0}
  BY <1>1, TakenType
<1>7. Stored(r.storage, AdvanceOffset(r.tail, 1), TornFrame(size)) \in [Cells -> Units]
  BY <1>1, <1>4, <1>5, StoredType
<1>8. [id |-> r.reservations.next, tail |-> r.tail, frame_size |-> size, copy_active |-> TRUE, abort_requested |-> FALSE]
        \in Producers
  BY <1>1, <1>6 DEF Producers
<1>9. s \in Rings
  BY <1>1, <1>6, <1>7, <1>8 DEF Prepared, Rings
<1>10. /\ s.storage = Stored(r.storage, AdvanceOffset(r.tail, 1), TornFrame(size))
       /\ s.head = r.head /\ s.tail = r.tail /\ s.used = r.used /\ s.queued = r.queued /\ s.receiver = r.receiver
       /\ s.producer.id = r.reservations.next /\ s.producer.tail = r.tail /\ s.producer.frame_size = size
       /\ s.producer.copy_active = TRUE /\ s.producer.abort_requested = FALSE
  BY <1>1 DEF Prepared, Rings
<1> HIDE DEF s
<1>11. StateIsValid(s)
  BY <1>1, <1>2, <1>6, <1>10 DEF RingOK, StateIsValid
<1>12. PICK f : IsWalk(f, r)
  BY DEF RingOK
<1>13. IsWalk(f, s)
  <2>1. \A d \in 0..(r.used - 1) : s.storage[AdvanceOffset(r.head, d)] = r.storage[AdvanceOffset(r.head, d)]
    BY <1>1, <1>3, <1>4, <1>5, <1>10, StoredBeyond
  <2> QED BY <1>1, <1>9, <1>10, <1>12, <2>1, WalkKept
<1> QED BY <1>6, <1>9, <1>10, <1>11, <1>13 DEF RingOK, s

\* The copy fills the reserved cells; without an abort the reservation stays.
LEMMA CopiedInOK ==
  ASSUME NEW r, RingOK(r), r.producer.id # 0, ~r.producer.abort_requested
  PROVE  /\ RingOK(CopiedIn(r))
         /\ CopiedIn(r).receiver = r.receiver /\ CopiedIn(r).queued = r.queued
         /\ CopiedIn(r).producer.id = r.producer.id
         /\ ~CopiedIn(r).producer.copy_active /\ ~CopiedIn(r).producer.abort_requested
<1> DEFINE s == CopiedIn(r)
           p == r.producer
<1>1. /\ r \in Rings /\ p \in Producers /\ p.id \in Nat /\ p.frame_size \in Nat /\ r.head \in Cells /\ r.tail \in Cells
      /\ r.used \in Nat /\ r.storage \in [Cells -> Units] /\ Capacity \in Nat
  BY MessageRingAssumption DEF RingOK, Rings, Producers
<1>2. p.tail = r.tail /\ p.frame_size # 0 /\ p.frame_size + 1 <= Capacity - r.used
  BY DEF RingOK, StateIsValid
<1>3. r.used + 1 \in r.used..Capacity /\ r.used + 1 + p.frame_size <= Capacity /\ r.used \in 0..Capacity /\ 1 \in 0..Capacity
  BY <1>1, <1>2
<1>4. FrameOffset(r) = AdvanceOffset(r.head, r.used + 1) /\ FrameOffset(r) \in Cells
  BY <1>1, <1>2, <1>3, OffsetSum, OffsetRange DEF RingOK, FrameOffset
<1>5. Frame(p.id, p.frame_size) \in Seq(Units) /\ Len(Frame(p.id, p.frame_size)) = p.frame_size
  BY <1>1, StoredUnits
<1>6. Stored(r.storage, FrameOffset(r), Frame(p.id, p.frame_size)) \in [Cells -> Units]
  BY <1>1, <1>4, <1>5, StoredType
<1>7. [p EXCEPT !.copy_active = FALSE] \in Producers
  BY <1>1 DEF Producers
<1>8. s \in Rings
  BY <1>1, <1>6, <1>7 DEF CopiedIn, Rings
<1>9. /\ s.storage = Stored(r.storage, FrameOffset(r), Frame(p.id, p.frame_size))
      /\ s.head = r.head /\ s.tail = r.tail /\ s.used = r.used /\ s.queued = r.queued /\ s.receiver = r.receiver
      /\ s.producer.id = p.id /\ s.producer.tail = p.tail /\ s.producer.frame_size = p.frame_size
      /\ ~s.producer.copy_active /\ s.producer.abort_requested = p.abort_requested
  BY <1>1 DEF CopiedIn, Rings, Producers
<1> HIDE DEF s
<1>10. StateIsValid(s)
  BY <1>1, <1>2, <1>9 DEF RingOK, StateIsValid
<1>11. PICK f : IsWalk(f, r)
  BY DEF RingOK
<1>12. IsWalk(f, s)
  <2>1. \A d \in 0..(r.used - 1) : s.storage[AdvanceOffset(r.head, d)] = r.storage[AdvanceOffset(r.head, d)]
    BY <1>1, <1>3, <1>4, <1>5, <1>9, StoredBeyond
  <2> QED BY <1>1, <1>8, <1>9, <1>11, <2>1, WalkKept
<1> QED BY <1>8, <1>9, <1>10, <1>12 DEF RingOK, s

\* A publication adds one record at the end of the walk.
LEMMA PublishedOK ==
  ASSUME NEW r, RingOK(r), r.producer.id # 0
  PROVE  /\ RingOK(Published(r)) /\ Published(r).receiver = r.receiver
         /\ Published(r).producer = NoProducer /\ Published(r).queued = r.queued + 1
         /\ Published(r).head = r.head /\ Published(r).used = r.used + r.producer.frame_size + 1
         /\ Published(r).storage = Stored(r.storage, r.tail, <<HeaderUnit(r.sequences.next, r.producer.frame_size)>>)
         /\ \A f : IsWalk(f, r) => IsWalk(Extended(f, r), Published(r))
<1> DEFINE s == Published(r)
           p == r.producer
           u == HeaderUnit(r.sequences.next, p.frame_size)
           next == r.used + p.frame_size + 1
<1>1. /\ r \in Rings /\ p \in Producers /\ p.frame_size \in Nat /\ r.head \in Cells /\ r.tail \in Cells
      /\ r.used \in Nat /\ r.queued \in Nat /\ r.storage \in [Cells -> Units] /\ Capacity \in Nat /\ r.sequences \in Counters
  BY MessageRingAssumption DEF RingOK, Rings, Producers
<1>2. p.tail = r.tail /\ p.frame_size # 0 /\ p.frame_size + 1 <= Capacity - r.used
  BY DEF RingOK, StateIsValid
<1>3. /\ r.used \in r.used..Capacity /\ r.used + 1 <= Capacity /\ r.used \in 0..Capacity
      /\ next \in 0..Capacity /\ p.frame_size + 1 \in 0..Capacity /\ r.used + (p.frame_size + 1) = next
  BY <1>1, <1>2
<1>4. Taken(r.sequences) \in Counters /\ r.sequences.next \in Nat \ {0}
  BY <1>1, TakenType
<1>5. <<u>> \in Seq(Units) /\ Len(<<u>>) = 1 /\ u \in Units
  BY <1>1, <1>4, StoredUnits
<1>6. Stored(r.storage, p.tail, <<u>>) \in [Cells -> Units]
  BY <1>1, <1>2, <1>5, StoredType
<1>7. AdvanceOffset(r.tail, p.frame_size + 1) = AdvanceOffset(r.head, next) /\ AdvanceOffset(r.tail, p.frame_size + 1) \in Cells
  <2>1. r.tail = AdvanceOffset(r.head, r.used) /\ r.used + (p.frame_size + 1) <= Capacity
    BY <1>1, <1>3 DEF RingOK
  <2>2. AdvanceOffset(AdvanceOffset(r.head, r.used), p.frame_size + 1) = AdvanceOffset(r.head, r.used + (p.frame_size + 1))
    BY <1>1, <1>3, <2>1, OffsetSum
  <2>3. AdvanceOffset(r.tail, p.frame_size + 1) \in Cells
    BY <1>1, <1>3, OffsetRange
  <2> QED BY <1>3, <2>1, <2>2, <2>3
<1>8. NoProducer \in Producers
  BY MessageRingAssumption DEF NoProducer, Producers, Cells
<1>9. s \in Rings
  <2>1. r.used + p.frame_size + 1 \in 0..Capacity /\ r.queued + 1 \in Nat
    BY <1>1, <1>3
  <2> QED BY <1>1, <1>4, <1>6, <1>7, <1>8, <2>1 DEF Published, Rings
<1>10. /\ s.storage = Stored(r.storage, r.tail, <<u>>) /\ s.head = r.head /\ s.used = next /\ s.queued = r.queued + 1
       /\ s.receiver = r.receiver /\ s.producer = NoProducer
       /\ s.tail = AdvanceOffset(r.tail, p.frame_size + 1)
  BY <1>1, <1>2 DEF Published, Rings
<1> HIDE DEF s
<1>11. ASSUME NEW f, IsWalk(f, r) PROVE IsWalk(Extended(f, r), s)
  <2> DEFINE g == [n \in 0..(r.queued + 1) |-> IF n <= r.queued THEN f[n] ELSE next]
  <2>0. g = Extended(f, r)
    BY DEF Extended
  <2>1. \A d \in 0..(r.used - 1) : s.storage[AdvanceOffset(r.head, d)] = r.storage[AdvanceOffset(r.head, d)]
    BY <1>1, <1>3, <1>5, <1>10, StoredBeyond DEF RingOK
  <2>2. f \in [0..r.queued -> 0..r.used] /\ f[0] = 0 /\ f[r.queued] = r.used
    BY <1>11 DEF IsWalk
  <2>3. g \in [0..s.queued -> 0..s.used] /\ g[0] = 0 /\ g[s.queued] = s.used
    <3>1. next \in Nat /\ r.used <= next
      BY <1>1, <1>3
    <3> HIDE DEF next
    <3>2. ASSUME NEW n \in 0..(r.queued + 1) PROVE (IF n <= r.queued THEN f[n] ELSE next) \in 0..next
      <4>1. CASE n <= r.queued
        <5>1. n \in 0..r.queued
          BY <1>1, <4>1
        <5>2. f[n] \in 0..r.used
          BY <2>2, <5>1
        <5> QED BY <1>1, <3>1, <4>1, <5>2
      <4>2. CASE ~(n <= r.queued)
        BY <3>1, <4>2
      <4> QED BY <4>1, <4>2
    <3>3. g \in [0..(r.queued + 1) -> 0..next]
      BY <3>2
    <3>4. g[0] = 0 /\ g[r.queued + 1] = next
      BY <1>1, <2>2
    <3> HIDE DEF g
    <3> QED BY <1>10, <3>3, <3>4
  <2>4. ASSUME NEW n \in 0..(r.queued - 1)
        PROVE  LET v == s.storage[AdvanceOffset(s.head, g[n])]
               IN v.unit = "header" /\ v.of # 0 /\ v.at # 0 /\ g[n + 1] = g[n] + v.at + 1
    <3>0. n \in 0..r.queued /\ n + 1 \in 0..r.queued
      BY <1>1
    <3>1. g[n] = f[n] /\ g[n + 1] = f[n + 1] /\ f[n] \in 0..r.used /\ f[n + 1] \in 0..r.used
      <4>1. n <= r.queued /\ n + 1 <= r.queued /\ n \in 0..(r.queued + 1) /\ n + 1 \in 0..(r.queued + 1)
        BY <1>1, <3>0
      <4> HIDE DEF next
      <4>2. g[n] = f[n] /\ g[n + 1] = f[n + 1]
        BY <4>1
      <4>3. f[n] \in 0..r.used /\ f[n + 1] \in 0..r.used
        BY <2>2, <3>0
      <4> QED BY <4>2, <4>3
    <3> HIDE DEF g
    <3>2. r.storage[AdvanceOffset(r.head, f[n])].at \in Nat
      <4>1. f[n] \in 0..Capacity
        BY <1>1, <1>3, <3>1
      <4>2. AdvanceOffset(r.head, f[n]) \in Cells
        BY <1>1, <4>1, OffsetRange
      <4> QED BY <1>1, <4>2 DEF Units
    <3>3. LET v == r.storage[AdvanceOffset(r.head, f[n])]
          IN v.unit = "header" /\ v.of # 0 /\ v.at # 0 /\ f[n + 1] = f[n] + v.at + 1
      BY <1>11 DEF IsWalk
    <3>4. f[n] \in 0..(r.used - 1)
      <4>1. f[n + 1] = f[n] + r.storage[AdvanceOffset(r.head, f[n])].at + 1
        BY <3>3
      <4>2. f[n] \in Nat /\ f[n + 1] \in Nat /\ f[n + 1] <= r.used
        BY <1>1, <3>1
      <4> QED BY <1>1, <3>2, <4>1, <4>2
    <3>5. s.storage[AdvanceOffset(s.head, g[n])] = r.storage[AdvanceOffset(r.head, f[n])]
      BY <1>10, <2>1, <3>1, <3>4
    <3> QED BY <3>1, <3>3, <3>5
  <2>5. LET v == s.storage[AdvanceOffset(s.head, g[r.queued])]
        IN v.unit = "header" /\ v.of # 0 /\ v.at # 0 /\ g[r.queued + 1] = g[r.queued] + v.at + 1
    <3>1. g[r.queued] = r.used /\ g[r.queued + 1] = next
      BY <1>1, <2>2
    <3>2. AdvanceOffset(r.tail, 0) = r.tail /\ AdvanceOffset(r.head, r.used) = r.tail /\ 0 \in Cells
      BY <1>1, MessageRingAssumption DEF AdvanceOffset, Cells, RingOK
    <3>3. s.storage[r.tail] = u
      BY <1>1, <1>5, <1>10, <3>2, StoredCells
    <3>4. u.unit = "header" /\ u.of # 0 /\ u.at # 0 /\ u.at = p.frame_size
      BY <1>2, <1>4 DEF HeaderUnit
    <3> QED BY <1>1, <1>10, <3>1, <3>2, <3>3, <3>4
  <2>6. \A n \in 0..(s.queued - 1) : n \in 0..(r.queued - 1) \/ n = r.queued
    BY <1>1, <1>10
  <2>7. ASSUME NEW m \in 0..s.queued, NEW n \in 0..s.queued, m <= n PROVE g[m] <= g[n]
    <3>1. CASE n <= r.queued
      <4>1. m \in 0..r.queued /\ n \in 0..r.queued /\ g[m] = f[m] /\ g[n] = f[n]
        BY <1>1, <1>10, <2>7, <3>1
      <4> QED BY <1>11, <2>7, <4>1 DEF IsWalk
    <3>2. CASE ~(n <= r.queued)
      <4>1. g[m] \in 0..next /\ next \in Nat
        <5>1. g \in [0..s.queued -> 0..next]
          BY <1>10, <2>3
        <5> HIDE DEF g
        <5> QED BY <1>1, <5>1
      <4>2. g[n] = next
        <5>1. n \in 0..(r.queued + 1)
          BY <1>10
        <5> QED BY <3>2, <5>1
      <4> HIDE DEF g, next
      <4> QED BY <4>1, <4>2
    <3> QED BY <3>1, <3>2
  <2> HIDE DEF g
  <2>8. IsWalk(g, s)
    BY <2>3, <2>4, <2>5, <2>6, <2>7 DEF IsWalk
  <2> QED BY <2>0, <2>8
<1>12. \E f : IsWalk(f, s)
  BY <1>11 DEF RingOK
<1>13. StateIsValid(s)
  <2>1. r.receiver.sequence = 0 => r.receiver = NoReceiver
    BY DEF RingOK, StateIsValid
  <2>2. r.receiver.sequence # 0 => r.receiver.lease # 0 /\ r.receiver.frame_size # 0
    BY DEF RingOK, StateIsValid
  <2>3. r.receiver.copy = 0 \/ r.receiver.copied = 0
    BY DEF RingOK, StateIsValid
  <2>4. s.used \in Nat /\ s.used >= 2 /\ s.used <= Capacity /\ s.queued # 0
    BY <1>1, <1>2, <1>3, <1>10
  <2>5. s.head < Capacity /\ s.tail < Capacity
    BY <1>1, <1>7, <1>10 DEF Cells
  <2>6. s.producer.id = 0 /\ s.producer = [NoProducer EXCEPT !.tail = s.producer.tail]
    BY <1>10 DEF NoProducer
  <2> QED BY <1>10, <2>1, <2>2, <2>3, <2>4, <2>5, <2>6 DEF StateIsValid
<1> QED BY <1>7, <1>9, <1>10, <1>11, <1>12, <1>13 DEF RingOK, s

\* Outside a copy an abort clears the reservation.
LEMMA AbortedOK ==
  ASSUME NEW r, RingOK(r), ~r.producer.copy_active
  PROVE  /\ RingOK(EnqueueAborted(r, r.producer.id)) /\ EnqueueAborted(r, r.producer.id).producer = NoProducer
         /\ EnqueueAborted(r, r.producer.id).receiver = r.receiver /\ EnqueueAborted(r, r.producer.id).queued = r.queued
<1> DEFINE s == [r EXCEPT !.producer = NoProducer]
<1>1. r \in Rings /\ NoProducer \in Producers
  BY MessageRingAssumption DEF RingOK, NoProducer, Producers, Cells
<1>2. EnqueueAborted(r, r.producer.id) = s
  BY DEF EnqueueAborted
<1>3. s \in Rings
  BY <1>1 DEF Rings
<1>4. /\ s.storage = r.storage /\ s.head = r.head /\ s.tail = r.tail /\ s.used = r.used /\ s.queued = r.queued
      /\ s.receiver = r.receiver /\ s.producer = NoProducer
  BY <1>1 DEF Rings
<1> HIDE DEF s
<1>5. NoProducer.id = 0 /\ NoProducer = [NoProducer EXCEPT !.tail = NoProducer.tail]
  BY DEF NoProducer
<1>6. StateIsValid(s)
  BY <1>4, <1>5 DEF RingOK, StateIsValid
<1>7. PICK f : IsWalk(f, r)
  BY DEF RingOK
<1>8. IsWalk(f, s)
  BY <1>4, <1>7 DEF IsWalk
<1> QED BY <1>2, <1>3, <1>4, <1>6, <1>8 DEF RingOK

-----------------------------------------------------------------------------
(* The consumer's sections *)

\* A head record can be read.
LEMMA HeadReadable ==
  ASSUME NEW r, RingOK(r)
  PROVE  /\ (r.queued = 0) <=> (r.used = 0)
         /\ r.queued # 0 =>
              /\ HeadHeader(r) \in Units /\ HeadHeader(r).unit = "header" /\ HeadHeader(r).of \in Nat \ {0}
              /\ HeadHeader(r).at \in Nat \ {0} /\ HeadHeader(r).at + 1 <= r.used
<1>1. (r.queued = 0) <=> (r.used = 0)
  BY DEF RingOK, StateIsValid
<1>2. ASSUME r.queued # 0
      PROVE  /\ HeadHeader(r) \in Units /\ HeadHeader(r).unit = "header" /\ HeadHeader(r).of \in Nat \ {0}
             /\ HeadHeader(r).at \in Nat \ {0} /\ HeadHeader(r).at + 1 <= r.used
  <2>1. r.storage \in [Cells -> Units] /\ r.head \in Cells /\ r.queued \in Nat \ {0} /\ r.used \in Nat
    BY <1>2, MessageRingAssumption DEF RingOK, Rings
  <2>2. PICK f : IsWalk(f, r)
    BY DEF RingOK
  <2>3. AdvanceOffset(r.head, 0) = r.head
    BY <2>1, MessageRingAssumption DEF AdvanceOffset, Cells
  <2>4. HeadHeader(r) \in Units
    BY <2>1 DEF HeadHeader
  <2>5. f[0] = 0 /\ f \in [0..r.queued -> 0..r.used] /\ 0 \in 0..(r.queued - 1) /\ 1 \in 0..r.queued
    BY <2>1, <2>2 DEF IsWalk
  <2>6. LET u == r.storage[AdvanceOffset(r.head, f[0])]
        IN u.unit = "header" /\ u.of # 0 /\ u.at # 0 /\ f[0 + 1] = f[0] + u.at + 1
    BY <2>2, <2>5 DEF IsWalk
  <2>7. /\ HeadHeader(r).unit = "header" /\ HeadHeader(r).of # 0 /\ HeadHeader(r).at # 0
        /\ f[1] = HeadHeader(r).at + 1
    BY <2>3, <2>4, <2>5, <2>6 DEF HeadHeader, Units
  <2>8. HeadHeader(r).of \in Nat /\ HeadHeader(r).at \in Nat /\ f[1] \in 0..r.used
    BY <2>4, <2>5 DEF Units
  <2> QED BY <2>1, <2>4, <2>7, <2>8
<1> QED BY <1>1, <1>2

\* A section that changes only the receiver and the counters.
LEMMA ReceiverMoves ==
  ASSUME NEW r, RingOK(r), NEW s \in Rings,
         s.storage = r.storage, s.head = r.head, s.tail = r.tail, s.used = r.used, s.queued = r.queued,
         s.producer = r.producer,
         IF s.receiver.sequence = 0 THEN s.receiver = NoReceiver
           ELSE s.queued # 0 /\ s.receiver.lease # 0 /\ s.receiver.frame_size # 0,
         s.receiver.copy = 0 \/ s.receiver.copied = 0
  PROVE  RingOK(s)
<1>1. StateIsValid(s)
  BY DEF RingOK, StateIsValid
<1>2. PICK f : IsWalk(f, r)
  BY DEF RingOK
<1>3. IsWalk(f, s)
  BY <1>2 DEF IsWalk
<1> QED BY <1>1, <1>3 DEF RingOK

\* A lease is taken on the head record.
LEMMA PeekedOK ==
  ASSUME NEW r, RingOK(r), PeekStatus(r) = "Ok"
  PROVE  /\ RingOK(Peeked(r)) /\ Peeked(r).producer = r.producer /\ Peeked(r).queued = r.queued
         /\ Peeked(r).receiver.sequence \in Nat \ {0} /\ Peeked(r).receiver.lease \in Nat
         /\ Peeked(r).receiver.copy = 0 /\ Peeked(r).receiver.copied = 0 /\ r.queued # 0
         /\ Peeked(r).storage = r.storage /\ Peeked(r).head = r.head
<1> DEFINE s == Peeked(r)
<1>1. r \in Rings /\ r.leases \in Counters
  BY DEF RingOK, Rings
<1>2. r.queued # 0
  BY DEF PeekStatus
<1>3. HeadRecord(r).sequence \in Nat \ {0} /\ HeadRecord(r).frame_size \in Nat \ {0}
  BY <1>2, HeadReadable DEF HeadRecord
<1>4. Taken(r.leases) \in Counters /\ r.leases.next \in Nat \ {0}
  BY <1>1, TakenType
<1>5. [sequence |-> HeadRecord(r).sequence, lease |-> r.leases.next, frame_size |-> HeadRecord(r).frame_size,
       copy |-> 0, copied |-> 0] \in Receivers
  BY <1>3, <1>4 DEF Receivers
<1>6. s \in Rings
  BY <1>1, <1>4, <1>5 DEF Peeked, Rings
<1>7. /\ s.storage = r.storage /\ s.head = r.head /\ s.tail = r.tail /\ s.used = r.used /\ s.queued = r.queued
      /\ s.producer = r.producer
      /\ s.receiver.sequence = HeadRecord(r).sequence /\ s.receiver.lease = r.leases.next
      /\ s.receiver.frame_size = HeadRecord(r).frame_size /\ s.receiver.copy = 0 /\ s.receiver.copied = 0
  BY <1>1 DEF Peeked, Rings
<1> HIDE DEF s
<1>8. RingOK(s)
  BY <1>2, <1>3, <1>4, <1>6, <1>7, ReceiverMoves
<1> QED BY <1>2, <1>3, <1>4, <1>7, <1>8 DEF s

\* Without an active copy the lease's view gives it back.
LEMMA CancelledOK ==
  ASSUME NEW r, RingOK(r), NEW view, HoldsLease(r, view), r.receiver.copy = 0
  PROVE  /\ RingOK(ReceiveCancelled(r, view)) /\ ReceiveCancelled(r, view).producer = r.producer
         /\ ReceiveCancelled(r, view).queued = r.queued /\ ReceiveCancelled(r, view).receiver = NoReceiver
         /\ ReceiveCancelled(r, view).storage = r.storage /\ ReceiveCancelled(r, view).head = r.head
<1> DEFINE s == [r EXCEPT !.receiver = NoReceiver]
<1>1. r \in Rings /\ NoReceiver \in Receivers
  BY DEF RingOK, NoReceiver, Receivers
<1>2. s \in Rings
  BY <1>1 DEF Rings
<1>3. /\ s.storage = r.storage /\ s.head = r.head /\ s.tail = r.tail /\ s.used = r.used /\ s.queued = r.queued
      /\ s.producer = r.producer /\ s.receiver = NoReceiver
  BY <1>1 DEF Rings
<1>4. ReceiveCancelled(r, view) = s
  BY DEF ReceiveCancelled
<1> HIDE DEF s
<1>5. NoReceiver.sequence = 0 /\ NoReceiver.copy = 0
  BY DEF NoReceiver
<1>6. RingOK(s)
  BY <1>2, <1>3, <1>5, ReceiverMoves
<1> QED BY <1>3, <1>4, <1>6

\* A copy of the leased frame begins.
LEMMA CopyBegunOK ==
  ASSUME NEW r, RingOK(r), r.receiver.sequence # 0
  PROVE  /\ RingOK(CopyBegun(r)) /\ CopyBegun(r).producer = r.producer /\ CopyBegun(r).queued = r.queued
         /\ CopyBegun(r).receiver.sequence = r.receiver.sequence /\ CopyBegun(r).receiver.lease = r.receiver.lease
         /\ CopyBegun(r).receiver.copy = r.copies.next /\ r.copies.next \in Nat \ {0} /\ CopyBegun(r).receiver.copied = 0
         /\ CopyBegun(r).storage = r.storage /\ CopyBegun(r).head = r.head
<1> DEFINE s == CopyBegun(r)
<1>1. r \in Rings /\ r.copies \in Counters /\ r.receiver \in Receivers
  BY DEF RingOK, Rings
<1>2. Taken(r.copies) \in Counters /\ r.copies.next \in Nat \ {0}
  BY <1>1, TakenType
<1>3. s \in Rings
  BY <1>1, <1>2 DEF CopyBegun, Rings, Receivers
<1>4. /\ s.storage = r.storage /\ s.head = r.head /\ s.tail = r.tail /\ s.used = r.used /\ s.queued = r.queued
      /\ s.producer = r.producer /\ s.receiver.copy = r.copies.next /\ s.receiver.copied = 0
      /\ s.receiver.sequence = r.receiver.sequence /\ s.receiver.lease = r.receiver.lease
      /\ s.receiver.frame_size = r.receiver.frame_size
  BY <1>1 DEF CopyBegun, Rings, Receivers
<1> HIDE DEF s
<1>5. r.queued # 0 /\ r.receiver.lease # 0 /\ r.receiver.frame_size # 0
  BY DEF RingOK, StateIsValid
<1>6. RingOK(s)
  BY <1>3, <1>4, <1>5, ReceiverMoves
<1> QED BY <1>2, <1>4, <1>6 DEF s

\* A copy ends, with or without success.
LEMMA CopyEndedOK ==
  ASSUME NEW r, RingOK(r), r.receiver.sequence # 0, NEW copy \in Nat, NEW ok \in BOOLEAN
  PROVE  /\ RingOK(CopyEnded(r, copy, ok)) /\ CopyEnded(r, copy, ok).producer = r.producer
         /\ CopyEnded(r, copy, ok).queued = r.queued
         /\ CopyEnded(r, copy, ok).receiver.sequence = r.receiver.sequence
         /\ CopyEnded(r, copy, ok).receiver.lease = r.receiver.lease
         /\ CopyEnded(r, copy, ok).receiver.copy = 0
         /\ CopyEnded(r, copy, ok).receiver.copied = IF ok THEN copy ELSE 0
         /\ CopyEnded(r, copy, ok).storage = r.storage /\ CopyEnded(r, copy, ok).head = r.head
<1> DEFINE s == CopyEnded(r, copy, ok)
<1>1. r \in Rings /\ r.receiver \in Receivers /\ (IF ok THEN copy ELSE 0) \in Nat
  BY DEF RingOK, Rings
<1>2. s \in Rings
  BY <1>1 DEF CopyEnded, Rings, Receivers
<1>3. /\ s.storage = r.storage /\ s.head = r.head /\ s.tail = r.tail /\ s.used = r.used /\ s.queued = r.queued
      /\ s.producer = r.producer /\ s.receiver.copy = 0 /\ s.receiver.copied = (IF ok THEN copy ELSE 0)
      /\ s.receiver.sequence = r.receiver.sequence /\ s.receiver.lease = r.receiver.lease
      /\ s.receiver.frame_size = r.receiver.frame_size
  BY <1>1 DEF CopyEnded, Rings, Receivers
<1> HIDE DEF s
<1>4. r.queued # 0 /\ r.receiver.lease # 0 /\ r.receiver.frame_size # 0
  BY DEF RingOK, StateIsValid
<1>5. RingOK(s)
  BY <1>2, <1>3, <1>4, ReceiverMoves
<1> QED BY <1>3, <1>5 DEF s

\* A commit drops the first record of the walk.
LEMMA CommittedWalk ==
  ASSUME NEW r, RingOK(r), r.receiver.sequence # 0, NEW f, IsWalk(f, r)
  PROVE  /\ RingOK(Committed(r)) /\ Committed(r).producer = r.producer /\ Committed(r).receiver = NoReceiver
         /\ r.queued \in Nat \ {0} /\ Committed(r).queued = r.queued - 1 /\ Committed(r).storage = r.storage
         /\ IsWalk(Shortened(f, r), Committed(r)) /\ Committed(r).head = AdvanceOffset(r.head, f[1])
<1> DEFINE s == Committed(r)
           first == HeadHeader(r).at + 1
<1>1. /\ r \in Rings /\ r.head \in Cells /\ r.tail \in Cells /\ r.used \in Nat /\ r.used <= Capacity /\ r.queued \in Nat
      /\ r.storage \in [Cells -> Units] /\ Capacity \in Nat /\ r.tail = AdvanceOffset(r.head, r.used)
  BY MessageRingAssumption DEF RingOK, Rings
<1>2. r.queued # 0
  BY DEF RingOK, StateIsValid
<1>3. first \in 2..r.used /\ first \in 0..Capacity /\ r.used - first \in 0..Capacity /\ r.queued - 1 \in Nat
  BY <1>1, <1>2, HeadReadable
<1>4. HeadRecord(r).frame_size + 1 = first
  BY DEF HeadRecord
<1>5. AdvanceOffset(r.head, first) \in Cells
  BY <1>1, <1>3, OffsetRange
<1> HIDE DEF first
<1>6. NoReceiver \in Receivers
  BY DEF NoReceiver, Receivers
<1>7. s \in Rings
  BY <1>1, <1>3, <1>4, <1>5, <1>6 DEF Committed, Rings
<1>8. /\ s.storage = r.storage /\ s.head = (IF r.queued = 1 THEN r.tail ELSE AdvanceOffset(r.head, first))
      /\ s.tail = r.tail /\ s.used = r.used - first /\ s.queued = r.queued - 1
      /\ s.producer = r.producer /\ s.receiver = NoReceiver
  BY <1>1, <1>4 DEF Committed, Rings
<1> HIDE DEF s
<1>9. IsWalk(f, r)
  OBVIOUS
<1>10. f \in [0..r.queued -> 0..r.used] /\ f[0] = 0 /\ f[r.queued] = r.used /\ f[1] = first
  <2>1. f \in [0..r.queued -> 0..r.used] /\ f[0] = 0 /\ f[r.queued] = r.used
    BY <1>9 DEF IsWalk
  <2>2. AdvanceOffset(r.head, 0) = r.head /\ 0 \in 0..(r.queued - 1)
    BY <1>1, <1>2, MessageRingAssumption DEF AdvanceOffset, Cells
  <2>3. f[0 + 1] = f[0] + r.storage[AdvanceOffset(r.head, f[0])].at + 1
    BY <1>9, <2>2 DEF IsWalk
  <2>4. HeadHeader(r).at \in Nat
    BY <1>2, HeadReadable
  <2> QED BY <2>1, <2>2, <2>3, <2>4 DEF HeadHeader, first
<1>11. s.head = AdvanceOffset(r.head, first)
  BY <1>1, <1>8, <1>10
<1>12. ASSUME NEW n \in 0..(r.queued - 1)
       PROVE  /\ f[n + 1] \in first..r.used
              /\ n + 1 < r.queued =>
                   LET u == r.storage[AdvanceOffset(r.head, f[n + 1])]
                   IN u.unit = "header" /\ u.of # 0 /\ u.at # 0 /\ u.at \in Nat /\ f[n + 2] = f[n + 1] + u.at + 1
  <2>1. n \in Nat /\ n + 1 \in 0..r.queued /\ f[n + 1] \in 0..r.used
    BY <1>1, <1>10
  <2>2. n + 1 < r.queued =>
          LET u == r.storage[AdvanceOffset(r.head, f[n + 1])]
          IN u.unit = "header" /\ u.of # 0 /\ u.at # 0 /\ u.at \in Nat /\ f[n + 2] = f[n + 1] + u.at + 1
    <3> SUFFICES ASSUME n + 1 < r.queued
                 PROVE  LET u == r.storage[AdvanceOffset(r.head, f[n + 1])]
                        IN u.unit = "header" /\ u.of # 0 /\ u.at # 0 /\ u.at \in Nat /\ f[n + 2] = f[n + 1] + u.at + 1
      OBVIOUS
    <3>1. n + 1 \in 0..(r.queued - 1) /\ n + 1 + 1 = n + 2
      BY <1>1, <2>1
    <3>2. AdvanceOffset(r.head, f[n + 1]) \in Cells
      BY <1>1, <2>1, OffsetRange
    <3>3. r.storage[AdvanceOffset(r.head, f[n + 1])].at \in Nat
      BY <1>1, <3>2 DEF Units
    <3> QED BY <1>9, <3>1, <3>3 DEF IsWalk
  <2>3. f[n + 1] >= first
    <3>1. 1 \in 0..r.queued /\ 1 <= n + 1
      BY <1>1, <1>2, <2>1
    <3> QED BY <1>3, <1>9, <1>10, <2>1, <3>1 DEF IsWalk
  <2> QED BY <1>3, <2>1, <2>2, <2>3
<1> DEFINE g == [n \in 0..(r.queued - 1) |-> f[n + 1] - first]
<1>13. IsWalk(g, s)
  <2>1. first \in Nat
    BY <1>3
  <2>2. ASSUME NEW n \in 0..(r.queued - 1) PROVE g[n] = f[n + 1] - first /\ g[n] \in 0..(r.used - first)
    <3>1. f[n + 1] \in first..r.used
      BY <1>12
    <3>2. f[n + 1] - first \in 0..(r.used - first)
      BY <1>1, <2>1, <3>1
    <3> QED BY <3>2
  <2>3. g \in [0..s.queued -> 0..s.used]
    BY <1>8, <2>2
  <2>4. g[0] = 0 /\ g[s.queued] = s.used
    <3>1. 0 \in 0..(r.queued - 1) /\ r.queued - 1 \in 0..(r.queued - 1) /\ 0 + 1 = 1 /\ r.queued - 1 + 1 = r.queued
      BY <1>1, <1>2
    <3>2. first - first = 0
      BY <2>1
    <3> QED BY <1>8, <1>10, <2>2, <3>1, <3>2
  <2>5. ASSUME NEW n \in 0..(s.queued - 1)
        PROVE  LET v == s.storage[AdvanceOffset(s.head, g[n])]
               IN v.unit = "header" /\ v.of # 0 /\ v.at # 0 /\ g[n + 1] = g[n] + v.at + 1
    <3>1. n \in 0..(r.queued - 1) /\ n + 1 \in 0..(r.queued - 1) /\ n + 1 < r.queued /\ n + 1 + 1 = n + 2
      BY <1>1, <1>8
    <3>2. g[n] = f[n + 1] - first /\ g[n + 1] = f[n + 2] - first /\ f[n + 1] \in first..r.used
      BY <1>12, <2>2, <3>1
    <3>3. AdvanceOffset(s.head, g[n]) = AdvanceOffset(r.head, f[n + 1])
      <4>1. g[n] \in 0..Capacity /\ first + g[n] = f[n + 1] /\ first + g[n] <= Capacity
        <5> HIDE DEF g
        <5>1. f[n + 1] \in Nat /\ first <= f[n + 1] /\ f[n + 1] <= r.used /\ g[n] = f[n + 1] - first
          BY <1>1, <2>1, <3>2
        <5> QED BY <1>1, <2>1, <5>1
      <4> HIDE DEF g
      <4> QED BY <1>1, <1>3, <1>11, <4>1, OffsetSum
    <3>4. LET u == r.storage[AdvanceOffset(r.head, f[n + 1])]
          IN u.unit = "header" /\ u.of # 0 /\ u.at # 0 /\ u.at \in Nat /\ f[n + 2] = f[n + 1] + u.at + 1
      BY <1>12, <3>1
    <3> HIDE DEF g
    <3> QED BY <1>1, <1>8, <2>1, <3>2, <3>3, <3>4
  <2>6. ASSUME NEW m \in 0..s.queued, NEW n \in 0..s.queued, m <= n PROVE g[m] <= g[n]
    <3>1. m \in 0..(r.queued - 1) /\ n \in 0..(r.queued - 1) /\ m + 1 \in 0..r.queued /\ n + 1 \in 0..r.queued /\ m + 1 <= n + 1
      BY <1>1, <1>8, <2>6
    <3>2. f[m + 1] <= f[n + 1] /\ f[m + 1] \in first..r.used /\ f[n + 1] \in first..r.used
      BY <1>9, <1>12, <3>1 DEF IsWalk
    <3>3. g[m] = f[m + 1] - first /\ g[n] = f[n + 1] - first
      BY <2>2, <3>1
    <3> HIDE DEF g
    <3> QED BY <1>1, <2>1, <3>2, <3>3
  <2> HIDE DEF g
  <2> QED BY <2>3, <2>4, <2>5, <2>6 DEF IsWalk
<1>14. s.tail = AdvanceOffset(s.head, s.used)
  <2>1. first + (r.used - first) = r.used
    BY <1>1, <1>3
  <2> QED BY <1>1, <1>3, <1>8, <1>11, <2>1, OffsetSum
<1>15. StateIsValid(s)
  <2>1. s \in Rings /\ s.head < Capacity /\ s.tail < Capacity /\ s.used \in Nat /\ s.used <= Capacity
    BY <1>1, <1>3, <1>5, <1>7, <1>8, <1>11 DEF Cells
  <2>2. (s.queued = 0 => s.used = 0) /\ (s.queued # 0 => s.used >= 2)
    <3>1. s.queued = 0 => s.used = 0
      BY <1>1, <1>2, <1>3, <1>8, <1>10
    <3>2. ASSUME s.queued # 0 PROVE s.used >= 2
      <4>1. 0 \in 0..(s.queued - 1) /\ 0 + 1 = 1 /\ 1 \in 0..s.queued
        BY <1>1, <1>2, <1>8, <3>2
      <4>2. g[0] = 0 /\ g[1] \in 0..s.used
        BY <1>13, <4>1 DEF IsWalk
      <4>3. /\ s.storage[AdvanceOffset(s.head, g[0])].at # 0
            /\ g[0 + 1] = g[0] + s.storage[AdvanceOffset(s.head, g[0])].at + 1
        BY <1>13, <4>1 DEF IsWalk
      <4> HIDE DEF g
      <4>4. s.storage[AdvanceOffset(s.head, g[0])].at \in Nat
        <5>1. AdvanceOffset(s.head, 0) \in Cells
          BY <1>5, <1>11, OffsetRange, MessageRingAssumption
        <5> QED BY <1>1, <1>8, <4>2, <5>1 DEF Units
      <4> QED BY <2>1, <4>1, <4>2, <4>3, <4>4
    <3> QED BY <3>1, <3>2
  <2>3. NoReceiver.sequence = 0 /\ NoReceiver.copy = 0
    BY DEF NoReceiver
  <2>4. IF s.producer.id = 0 THEN s.producer = [NoProducer EXCEPT !.tail = s.producer.tail]
        ELSE s.producer.tail = s.tail /\ s.producer.frame_size # 0 /\ s.producer.frame_size + 1 <= Capacity - s.used
    <3>1. IF r.producer.id = 0 THEN r.producer = [NoProducer EXCEPT !.tail = r.producer.tail]
          ELSE r.producer.tail = r.tail /\ r.producer.frame_size # 0 /\ r.producer.frame_size + 1 <= Capacity - r.used
      BY DEF RingOK, StateIsValid
    <3>2. r.producer.frame_size \in Nat
      BY <1>1 DEF Rings, Producers
    <3>3. Capacity - r.used <= Capacity - (r.used - first)
      BY <1>1, <1>3
    <3>4. r.producer.frame_size + 1 <= Capacity - r.used => r.producer.frame_size + 1 <= Capacity - s.used
      BY <1>1, <1>3, <1>8, <3>2, <3>3
    <3> QED BY <1>8, <3>1, <3>4
  <2> QED BY <1>8, <2>1, <2>2, <2>3, <2>4 DEF StateIsValid
<1>16. IsWalk(Shortened(f, r), s)
  <2>1. g = Shortened(f, r)
    BY <1>10 DEF Shortened
  <2> HIDE DEF g
  <2> QED BY <1>13, <2>1
<1>17. RingOK(s)
  BY <1>7, <1>14, <1>15, <1>16 DEF RingOK
<1> QED BY <1>1, <1>2, <1>8, <1>10, <1>11, <1>16, <1>17 DEF s

\* A commit of the leased frame.
LEMMA CommittedOK ==
  ASSUME NEW r, RingOK(r), r.receiver.sequence # 0
  PROVE  /\ RingOK(Committed(r)) /\ Committed(r).producer = r.producer /\ Committed(r).receiver = NoReceiver
         /\ r.queued \in Nat \ {0} /\ Committed(r).queued = r.queued - 1 /\ Committed(r).storage = r.storage
BY CommittedWalk DEF RingOK

-----------------------------------------------------------------------------
(* Lists *)

IsList(q, n) == q = [i \in 1..n |-> q[i]]

\* A function from 1..n is a sequence of length n.
LEMMA ListIsSequence ==
  ASSUME NEW n \in Nat, NEW q, IsList(q, n)
  PROVE  q \in Seq({q[i] : i \in 1..n}) /\ Len(q) = n /\ DOMAIN q = 1..n
<1> DEFINE S == {q[i] : i \in 1..n}
<1>1. q \in [1..n -> S]
  BY DEF IsList
<1> HIDE DEF S
<1>2. q \in Seq(S)
  BY <1>1, SeqDef
<1>3. DOMAIN q = 1..n
  BY <1>1
<1>4. Len(q) = n
  BY <1>2, <1>3, LenProperties
<1> QED BY <1>2, <1>3, <1>4 DEF S

\* One element more at the end.
LEMMA ListAppended ==
  ASSUME NEW n \in Nat, NEW q, IsList(q, n), NEW e, NEW p, IsList(p, n + 1),
         \A i \in 1..n : p[i] = q[i], p[n + 1] = e
  PROVE  p = Append(q, e)
<1> DEFINE S == {q[i] : i \in 1..n}  T == S \cup {e}
<1>1. q \in Seq(S) /\ Len(q) = n
  BY ListIsSequence
<1>2. q \in Seq(T) /\ e \in T
  BY <1>1, SeqMonotonic
<1> HIDE DEF S, T
<1>3. /\ Append(q, e) \in Seq(T) /\ Len(Append(q, e)) = n + 1
      /\ \A i \in 1..n : Append(q, e)[i] = q[i]
      /\ Append(q, e)[n + 1] = e
  BY <1>1, <1>2, AppendProperties
<1>4. DOMAIN Append(q, e) = 1..(n + 1) /\ Append(q, e) \in [1..(n + 1) -> T]
  BY <1>3, LenProperties
<1>5. \A i \in 1..(n + 1) : p[i] = Append(q, e)[i]
  <2> SUFFICES ASSUME NEW i \in 1..(n + 1) PROVE p[i] = Append(q, e)[i]
    OBVIOUS
  <2>1. i = n + 1 \/ i \in 1..n
    OBVIOUS
  <2> QED BY <1>3, <2>1
<1> QED BY <1>4, <1>5 DEF IsList

\* One element less at the head.
LEMMA ListShortened ==
  ASSUME NEW n \in Nat \ {0}, NEW q, IsList(q, n), NEW p, IsList(p, n - 1),
         \A i \in 1..(n - 1) : p[i] = q[i + 1]
  PROVE  q # <<>> /\ p = Tail(q) /\ Head(q) = q[1]
<1> DEFINE S == {q[i] : i \in 1..n}
<1>1. q \in Seq(S) /\ Len(q) = n
  BY ListIsSequence
<1> HIDE DEF S
<1>2. q # <<>>
  BY <1>1, EmptySeq
<1>3. /\ Tail(q) \in Seq(S) /\ Len(Tail(q)) = n - 1
      /\ \A i \in 1..(n - 1) : Tail(q)[i] = q[i + 1]
  BY <1>1, <1>2, HeadTailProperties
<1>4. Tail(q) \in [1..(n - 1) -> S]
  BY <1>3, LenProperties
<1>5. Head(q) = q[1]
  BY <1>1, <1>2
<1>6. ASSUME NEW v \in [1..(n - 1) -> S], \A i \in 1..(n - 1) : v[i] = q[i + 1] PROVE p = v
  BY <1>6 DEF IsList
<1>7. p = Tail(q)
  BY <1>3, <1>4, <1>6
<1> QED BY <1>2, <1>5, <1>7

-----------------------------------------------------------------------------
(* What the ring holds *)

\* The distance of record n, its length, and that its cells are used ones.
LEMMA WalkStep ==
  ASSUME NEW r, RingOK(r), NEW f, IsWalk(f, r), NEW n \in 1..r.queued
  PROVE  LET u == r.storage[AdvanceOffset(r.head, f[n - 1])]
         IN /\ u.at \in Nat \ {0} /\ f[n] = f[n - 1] + u.at + 1
            /\ f[n - 1] \in Nat /\ f[n] \in 0..r.used /\ f[n - 1] < r.used
<1>1. /\ r.head \in Cells /\ r.used \in Nat /\ r.used <= Capacity /\ r.queued \in Nat
      /\ r.storage \in [Cells -> Units] /\ Capacity \in Nat
  BY MessageRingAssumption DEF RingOK, Rings
<1>2. n - 1 \in 0..(r.queued - 1) /\ n - 1 + 1 = n /\ n - 1 \in 0..r.queued /\ n \in 0..r.queued
  BY <1>1
<1>3. f[n - 1] \in 0..r.used /\ f[n] \in 0..r.used
  BY <1>2 DEF IsWalk
<1>4. f[n - 1] \in 0..Capacity
  BY <1>1, <1>3
<1>5. r.storage[AdvanceOffset(r.head, f[n - 1])].at \in Nat
  BY <1>1, <1>4, OffsetRange DEF Units
<1>6. /\ r.storage[AdvanceOffset(r.head, f[n - 1])].at # 0
      /\ f[n] = f[n - 1] + r.storage[AdvanceOffset(r.head, f[n - 1])].at + 1
  BY <1>2 DEF IsWalk
<1> QED BY <1>1, <1>3, <1>5, <1>6

\* The records begin where the walk says, whatever function is meant by their recursion.
LEMMA OffsetsWalked ==
  ASSUME NEW r, RingOK(r), NEW f, IsWalk(f, r)
  PROVE  RecordOffsets(r) = [n \in 0..r.queued |-> AdvanceOffset(r.head, f[n])]
<1> DEFINE After(c) == AdvanceOffset(c, r.storage[c].at + 1)
           Recurs(g) == g = [n \in 0..r.queued |-> IF n = 0 THEN r.head ELSE After(g[n - 1])]
           w == [n \in 0..r.queued |-> AdvanceOffset(r.head, f[n])]
<1>1. /\ r.head \in Cells /\ r.used \in Nat /\ r.used <= Capacity /\ r.queued \in Nat /\ Capacity \in Nat
  BY MessageRingAssumption DEF RingOK, Rings
<1>2. AdvanceOffset(r.head, f[0]) = r.head
  <2>1. f[0] = 0
    BY DEF IsWalk
  <2> QED BY <1>1, <2>1 DEF AdvanceOffset, Cells
<1>3. ASSUME NEW n \in 1..r.queued PROVE After(AdvanceOffset(r.head, f[n - 1])) = AdvanceOffset(r.head, f[n])
  <2>1. LET u == r.storage[AdvanceOffset(r.head, f[n - 1])]
        IN /\ u.at \in Nat \ {0} /\ f[n] = f[n - 1] + u.at + 1
           /\ f[n - 1] \in Nat /\ f[n] \in 0..r.used /\ f[n - 1] < r.used
    BY WalkStep
  <2> DEFINE k == r.storage[AdvanceOffset(r.head, f[n - 1])].at + 1
  <2>2. k \in 0..Capacity /\ f[n - 1] \in 0..Capacity /\ f[n - 1] + k <= Capacity /\ f[n] = f[n - 1] + k
    BY <1>1, <2>1
  <2> HIDE DEF k
  <2>3. AdvanceOffset(AdvanceOffset(r.head, f[n - 1]), k) = AdvanceOffset(r.head, f[n])
    BY <1>1, <2>2, OffsetSum
  <2> QED BY <2>3 DEF k
<1> HIDE DEF After
<1>4. Recurs(w)
  <2>1. ASSUME NEW n \in 0..r.queued PROVE w[n] = IF n = 0 THEN r.head ELSE After(w[n - 1])
    <3>1. CASE n = 0
      BY <1>1, <1>2, <3>1
    <3>2. CASE n # 0
      <4>1. n \in 1..r.queued /\ n - 1 \in 0..r.queued
        BY <1>1, <3>2
      <4> QED BY <1>3, <3>2, <4>1
    <3> QED BY <3>1, <3>2
  <2> QED BY <2>1
<1>5. ASSUME NEW g, Recurs(g) PROVE g = w
  <2> DEFINE Wrong == {n \in 0..r.queued : g[n] # w[n]}
  <2>0. \A n \in 0..r.queued : g[n] = IF n = 0 THEN r.head ELSE After(g[n - 1])
    BY <1>5
  <2>1. ASSUME Wrong # {} PROVE FALSE
    <3>1. Wrong \subseteq Nat
      BY <1>1
    <3>2. PICK x \in Wrong : \A y \in Wrong : ~(<<y, x>> \in OpToRel(<, Nat))
      BY <2>1, <3>1, NatLessThanWellFounded, WFMin
    <3>3. x \in 0..r.queued /\ g[x] # w[x]
      BY <3>2
    <3>4. x # 0
      BY <1>1, <1>2, <2>0, <3>3
    <3>5. x \in 1..r.queued /\ x - 1 \in 0..r.queued /\ x \in Nat /\ x - 1 \in Nat /\ x - 1 < x
      BY <1>1, <3>3, <3>4
    <3>6. x - 1 \notin Wrong
      BY <3>2, <3>5 DEF OpToRel
    <3>7. g[x - 1] = w[x - 1]
      BY <3>5, <3>6
    <3>8. g[x] = After(w[x - 1])
      BY <2>0, <3>3, <3>4, <3>7
    <3>9. w[x] = After(w[x - 1])
      BY <1>3, <3>3, <3>5
    <3> QED BY <3>3, <3>8, <3>9
  <2>2. \A n \in 0..r.queued : g[n] = w[n]
    BY <2>1
  <2>3. g = [n \in 0..r.queued |-> g[n]]
    BY <1>5
  <2> HIDE DEF w
  <2>4. w = [n \in 0..r.queued |-> w[n]]
    BY DEF w
  <2> QED BY <2>2, <2>3, <2>4
<1>6. RecordOffsets(r) = CHOOSE g : Recurs(g)
  BY DEF RecordOffsets, After
<1> HIDE DEF Recurs, w
<1>7. Recurs(CHOOSE g : Recurs(g))
  BY <1>4, Zenon
<1>8. (CHOOSE g : Recurs(g)) = w
  BY <1>5, <1>7
<1> QED BY <1>6, <1>8 DEF w

\* The frames, cell by cell.
LEMMA QueuedWalked ==
  ASSUME NEW r, RingOK(r), NEW f, IsWalk(f, r)
  PROVE  Queued(r) = [n \in 1..r.queued |-> [i \in 1..(f[n] - f[n - 1] - 1) |-> r.storage[AdvanceOffset(r.head, f[n - 1] + i)]]]
<1> DEFINE offset == [n \in 0..r.queued |-> AdvanceOffset(r.head, f[n])]
<1>1. /\ r.head \in Cells /\ r.used \in Nat /\ r.used <= Capacity /\ r.queued \in Nat /\ Capacity \in Nat
  BY MessageRingAssumption DEF RingOK, Rings
<1>2. ASSUME NEW n \in 1..r.queued
      PROVE  Loaded(r.storage, AdvanceOffset(offset[n - 1], 1), r.storage[offset[n - 1]].at)
               = [i \in 1..(f[n] - f[n - 1] - 1) |-> r.storage[AdvanceOffset(r.head, f[n - 1] + i)]]
  <2> DEFINE k == r.storage[AdvanceOffset(r.head, f[n - 1])].at
  <2>1. k \in Nat \ {0} /\ f[n] = f[n - 1] + k + 1 /\ f[n - 1] \in Nat /\ f[n] \in 0..r.used /\ f[n - 1] < r.used
    BY WalkStep
  <2>2. offset[n - 1] = AdvanceOffset(r.head, f[n - 1])
    BY <1>1
  <2>3. f[n] - f[n - 1] - 1 = k /\ r.storage[offset[n - 1]].at = k
    BY <2>1, <2>2
  <2> HIDE DEF k, offset
  <2>4. ASSUME NEW i \in 1..k
        PROVE  AdvanceOffset(AdvanceOffset(offset[n - 1], 1), i - 1) = AdvanceOffset(r.head, f[n - 1] + i)
    <3>1. /\ f[n - 1] \in 0..Capacity /\ 1 \in 0..Capacity /\ f[n - 1] + 1 \in 0..Capacity /\ f[n - 1] + 1 <= Capacity
          /\ i - 1 \in 0..Capacity /\ f[n - 1] + 1 + (i - 1) <= Capacity /\ f[n - 1] + 1 + (i - 1) = f[n - 1] + i
      BY <1>1, <2>1
    <3>2. AdvanceOffset(AdvanceOffset(r.head, f[n - 1]), 1) = AdvanceOffset(r.head, f[n - 1] + 1)
      BY <1>1, <3>1, OffsetSum
    <3>3. AdvanceOffset(AdvanceOffset(r.head, f[n - 1] + 1), i - 1) = AdvanceOffset(r.head, f[n - 1] + 1 + (i - 1))
      BY <1>1, <3>1, OffsetSum
    <3> QED BY <2>2, <3>1, <3>2, <3>3
  <2> QED BY <2>3, <2>4 DEF Loaded
<1>3. Queued(r) = [n \in 1..r.queued |-> Loaded(r.storage, AdvanceOffset(offset[n - 1], 1), r.storage[offset[n - 1]].at)]
  <2>1. RecordOffsets(r) = offset
    BY OffsetsWalked
  <2> HIDE DEF offset
  <2> QED BY <2>1 DEF Queued
<1> HIDE DEF offset
<1> QED BY <1>2, <1>3

HeadFrame(r) == Loaded(r.storage, AdvanceOffset(r.head, 1), HeadHeader(r).at)

(* The frame whose record begins at distance a and ends before b.          *)
FrameBetween(storage, head, a, b) == [i \in 1..(b - a - 1) |-> storage[AdvanceOffset(head, a + i)]]

\* The frames, one between every two steps of the walk.
LEMMA QueuedFrames ==
  ASSUME NEW r, RingOK(r), NEW f, IsWalk(f, r)
  PROVE  /\ Queued(r) = [n \in 1..r.queued |-> FrameBetween(r.storage, r.head, f[n - 1], f[n])]
         /\ IsList(Queued(r), r.queued)
         /\ \A n \in 1..r.queued : Queued(r)[n] = FrameBetween(r.storage, r.head, f[n - 1], f[n])
<1>1. Queued(r) = [n \in 1..r.queued |-> FrameBetween(r.storage, r.head, f[n - 1], f[n])]
  BY QueuedWalked DEF FrameBetween
<1> QED BY <1>1 DEF IsList

\* Sections that leave the used cells alone leave the frames alone.
LEMMA QueuedSame ==
  ASSUME NEW r, RingOK(r), NEW s, RingOK(s), s.head = r.head, s.used = r.used, s.queued = r.queued,
         \A d \in 0..(r.used - 1) : s.storage[AdvanceOffset(r.head, d)] = r.storage[AdvanceOffset(r.head, d)]
  PROVE  Queued(s) = Queued(r)
<1>1. PICK f : IsWalk(f, r)
  BY DEF RingOK
<1>2. IsWalk(f, s)
  BY <1>1, WalkKept DEF RingOK
<1>3. r.used \in Nat /\ r.queued \in Nat
  BY MessageRingAssumption DEF RingOK, Rings
<1>4. ASSUME NEW n \in 1..r.queued, NEW i \in 1..(f[n] - f[n - 1] - 1)
      PROVE  s.storage[AdvanceOffset(r.head, f[n - 1] + i)] = r.storage[AdvanceOffset(r.head, f[n - 1] + i)]
  <2>1. f[n - 1] \in Nat /\ f[n] \in 0..r.used
    BY <1>1, WalkStep
  <2>2. f[n - 1] + i \in 0..(r.used - 1)
    BY <1>3, <2>1
  <2> QED BY <2>2
<1>5. Queued(r) = [n \in 1..r.queued |-> [i \in 1..(f[n] - f[n - 1] - 1) |-> r.storage[AdvanceOffset(r.head, f[n - 1] + i)]]]
  BY <1>1, QueuedWalked
<1>6. Queued(s) = [n \in 1..r.queued |-> [i \in 1..(f[n] - f[n - 1] - 1) |-> s.storage[AdvanceOffset(r.head, f[n - 1] + i)]]]
  BY <1>2, QueuedWalked
<1> QED BY <1>4, <1>5, <1>6

\* The head frame is the first one.
LEMMA HeadFrameFirst ==
  ASSUME NEW r, RingOK(r)
  PROVE  /\ DOMAIN Queued(r) = 1..r.queued /\ r.queued \in Nat
         /\ r.queued # 0 => Queued(r)[1] = HeadFrame(r)
<1>1. r.queued \in Nat /\ r.head \in Cells /\ Capacity \in Nat
  BY MessageRingAssumption DEF RingOK, Rings
<1>2. PICK f : IsWalk(f, r)
  BY DEF RingOK
<1>3. RecordOffsets(r) = [n \in 0..r.queued |-> AdvanceOffset(r.head, f[n])]
  BY <1>2, OffsetsWalked
<1>4. f[0] = 0 /\ AdvanceOffset(r.head, 0) = r.head
  BY <1>1, <1>2 DEF IsWalk, AdvanceOffset, Cells
<1>5. RecordOffsets(r)[0] = r.head
  BY <1>1, <1>3, <1>4
<1>6. r.queued # 0 => Queued(r)[1] = HeadFrame(r)
  BY <1>1, <1>5 DEF Queued, HeadFrame, HeadHeader
<1> QED BY <1>1, <1>6 DEF Queued

(* The bytes of a reservation whose copy has ended are its frame.          *)
ReservationOK(r) ==
  r.producer.id # 0 =>
    /\ r.producer.id \in 1..kU64Max /\ r.producer.frame_size \in FrameSizes
    /\ ~r.producer.copy_active =>
         \A i \in 1..r.producer.frame_size : r.storage[AdvanceOffset(r.tail, i)] = FrameUnit(r.producer.id, i)

\* A publication queues the reserved frame.
LEMMA PublishedFrame ==
  ASSUME NEW r, RingOK(r), ReservationOK(r), r.producer.id # 0, ~r.producer.copy_active
  PROVE  Queued(Published(r)) = Append(Queued(r), Frame(r.producer.id, r.producer.frame_size))
<1> DEFINE s == Published(r)
           size == r.producer.frame_size
<1>1. /\ r \in Rings /\ r.queued \in Nat /\ r.used \in Nat /\ r.used <= Capacity /\ r.head \in Cells /\ r.tail \in Cells /\ Capacity \in Nat
      /\ r.tail = AdvanceOffset(r.head, r.used) /\ r.storage \in [Cells -> Units] /\ r.sequences \in Counters
      /\ size \in Nat
  BY MessageRingAssumption DEF RingOK, Rings, Producers
<1>2. size + 1 <= Capacity - r.used
  BY DEF RingOK, StateIsValid
<1>3. PICK f : IsWalk(f, r)
  BY DEF RingOK
<1>4. /\ RingOK(s) /\ s.queued = r.queued + 1 /\ s.head = r.head
      /\ s.storage = Stored(r.storage, r.tail, <<HeaderUnit(r.sequences.next, size)>>)
      /\ IsWalk(Extended(f, r), s)
  BY <1>3, PublishedOK
<1> DEFINE g == Extended(f, r)
           u == HeaderUnit(r.sequences.next, size)
<1> HIDE DEF s
<1>5. <<u>> \in Seq(Units) /\ Len(<<u>>) = 1
  BY <1>1, TakenType, StoredUnits
<1> HIDE DEF u
<1>6. ASSUME NEW d \in 0..(Capacity - 1), d # r.used PROVE s.storage[AdvanceOffset(r.head, d)] = r.storage[AdvanceOffset(r.head, d)]
  <2>1. CASE d < r.used
    <3>1. d \in 0..(r.used - 1) /\ r.used \in r.used..Capacity /\ r.used + 1 <= Capacity
      BY <1>1, <1>2, <2>1
    <3> QED BY <1>1, <1>4, <1>5, <3>1, StoredBeyond DEF u
  <2>2. CASE d > r.used
    <3>1. d - r.used \in Cells /\ d - r.used \in 0..Capacity /\ r.used \in 0..Capacity /\ r.used + (d - r.used) = d /\ ~(d - r.used < 1)
      BY <1>1, <2>2 DEF Cells
    <3>2. AdvanceOffset(r.tail, d - r.used) = AdvanceOffset(r.head, d)
      BY <1>1, <3>1, OffsetSum
    <3>3. Stored(r.storage, r.tail, <<u>>)[AdvanceOffset(r.tail, d - r.used)] = r.storage[AdvanceOffset(r.tail, d - r.used)]
      BY <1>1, <1>5, <3>1, StoredCells
    <3> QED BY <1>4, <3>2, <3>3 DEF u
  <2> QED BY <1>1, <1>6, <2>1, <2>2
<1>7. IsList(Queued(s), r.queued + 1) /\ \A n \in 1..(r.queued + 1) : Queued(s)[n] = FrameBetween(s.storage, r.head, g[n - 1], g[n])
  BY <1>4, QueuedFrames
<1>8. IsList(Queued(r), r.queued) /\ \A n \in 1..r.queued : Queued(r)[n] = FrameBetween(r.storage, r.head, f[n - 1], f[n])
  BY <1>3, QueuedFrames
<1>9. ASSUME NEW n \in 1..r.queued PROVE Queued(s)[n] = Queued(r)[n]
  <2>1. g[n] = f[n] /\ g[n - 1] = f[n - 1]
    BY <1>1 DEF Extended
  <2>2. f[n - 1] \in Nat /\ f[n] \in 0..r.used
    BY <1>3, WalkStep
  <2>3. ASSUME NEW i \in 1..(f[n] - f[n - 1] - 1)
        PROVE  s.storage[AdvanceOffset(r.head, f[n - 1] + i)] = r.storage[AdvanceOffset(r.head, f[n - 1] + i)]
    <3>1. f[n - 1] + i \in 0..(Capacity - 1) /\ f[n - 1] + i # r.used
      BY <1>1, <2>2
    <3> QED BY <1>6, <3>1
  <2>4. n \in 1..(r.queued + 1)
    BY <1>1
  <2>5. FrameBetween(s.storage, r.head, f[n - 1], f[n]) = FrameBetween(r.storage, r.head, f[n - 1], f[n])
    BY <2>3 DEF FrameBetween
  <2> HIDE DEF g
  <2> QED BY <1>7, <1>8, <2>1, <2>4, <2>5
<1>10. Queued(s)[r.queued + 1] = Frame(r.producer.id, size)
  <2>1. g[r.queued + 1] = r.used + size + 1 /\ g[r.queued] = r.used
    BY <1>1, <1>3 DEF Extended, IsWalk
  <2>2. r.queued + 1 - 1 = r.queued /\ r.queued + 1 \in 1..(r.queued + 1) /\ r.used + size + 1 - r.used - 1 = size
    BY <1>1
  <2>3. ASSUME NEW i \in 1..size PROVE s.storage[AdvanceOffset(r.head, r.used + i)] = FrameUnit(r.producer.id, i)
    <3>1. /\ r.used + i \in 0..(Capacity - 1) /\ r.used + i # r.used /\ r.used \in 0..Capacity /\ i \in 0..Capacity
          /\ r.used + i <= Capacity
      BY <1>1, <1>2
    <3>2. AdvanceOffset(r.tail, i) = AdvanceOffset(r.head, r.used + i)
      BY <1>1, <3>1, OffsetSum
    <3>3. r.storage[AdvanceOffset(r.tail, i)] = FrameUnit(r.producer.id, i)
      BY DEF ReservationOK
    <3> QED BY <1>6, <3>1, <3>2, <3>3
  <2> HIDE DEF g, size
  <2>4. Queued(s)[r.queued + 1] = FrameBetween(s.storage, r.head, r.used, r.used + size + 1)
    BY <1>1, <1>7, <2>1, <2>2
  <2>5. FrameBetween(s.storage, r.head, r.used, r.used + size + 1) = [i \in 1..size |-> s.storage[AdvanceOffset(r.head, r.used + i)]]
    BY <1>1, <2>2 DEF FrameBetween
  <2> QED BY <2>3, <2>4, <2>5 DEF Frame
<1> HIDE DEF g, size
<1>11. Queued(s) = Append(Queued(r), Frame(r.producer.id, size))
  BY <1>1, <1>7, <1>8, <1>9, <1>10, ListAppended
<1> QED BY <1>11 DEF s, size

\* A commit takes the first frame off the queue.
LEMMA CommittedFrame ==
  ASSUME NEW r, RingOK(r), r.receiver.sequence # 0
  PROVE  /\ Queued(r) # <<>> /\ Queued(Committed(r)) = Tail(Queued(r))
         /\ Head(Queued(r)) = HeadFrame(r)
<1> DEFINE s == Committed(r)
<1>1. PICK f : IsWalk(f, r)
  BY DEF RingOK
<1>2. /\ RingOK(s) /\ r.queued \in Nat \ {0} /\ s.queued = r.queued - 1 /\ s.storage = r.storage
      /\ IsWalk(Shortened(f, r), s) /\ s.head = AdvanceOffset(r.head, f[1])
  BY <1>1, CommittedWalk
<1> HIDE DEF s
<1> DEFINE g == Shortened(f, r)
<1>3. IsList(Queued(r), r.queued) /\ \A n \in 1..r.queued : Queued(r)[n] = FrameBetween(r.storage, r.head, f[n - 1], f[n])
  BY <1>1, QueuedFrames
<1>4. IsList(Queued(s), r.queued - 1) /\ \A n \in 1..(r.queued - 1) : Queued(s)[n] = FrameBetween(r.storage, s.head, g[n - 1], g[n])
  BY <1>2, QueuedFrames
<1>5. r.head \in Cells /\ r.used \in Nat /\ r.used <= Capacity /\ Capacity \in Nat
  BY MessageRingAssumption DEF RingOK, Rings
<1>6. ASSUME NEW n \in 1..(r.queued - 1) PROVE Queued(s)[n] = Queued(r)[n + 1]
  <2>1. n + 1 \in 1..r.queued /\ n \in 1..r.queued /\ n + 1 - 1 = n /\ n - 1 + 1 = n /\ n \in 0..(r.queued - 1) /\ n - 1 \in 0..(r.queued - 1)
        /\ 1 \in 1..r.queued /\ 1 \in 0..r.queued /\ n \in 0..r.queued /\ 1 <= n
    BY <1>2
  <2>2. g[n] = f[n + 1] - f[1] /\ g[n - 1] = f[n] - f[1]
    BY <2>1 DEF Shortened
  <2>3. f[n] \in Nat /\ f[n + 1] \in 0..r.used /\ f[1] \in 0..r.used /\ f[1] <= f[n]
    <3>1. f \in [0..r.queued -> 0..r.used] /\ \A k, l \in 0..r.queued : k <= l => f[k] <= f[l]
      BY <1>1 DEF IsWalk
    <3>2. n + 1 \in 0..r.queued
      BY <1>2, <2>1
    <3> QED BY <1>5, <2>1, <3>1, <3>2
  <2>4. g[n] - g[n - 1] - 1 = f[n + 1] - f[n] - 1
    BY <1>5, <2>2, <2>3
  <2>5. ASSUME NEW i \in 1..(f[n + 1] - f[n] - 1)
        PROVE  AdvanceOffset(s.head, g[n - 1] + i) = AdvanceOffset(r.head, f[n] + i)
    <3>1. f[1] \in 0..Capacity /\ g[n - 1] + i \in 0..Capacity /\ f[1] + (g[n - 1] + i) = f[n] + i /\ f[1] + (g[n - 1] + i) <= Capacity
      BY <1>5, <2>2, <2>3
    <3> HIDE DEF g
    <3> QED BY <1>2, <1>5, <3>1, OffsetSum
  <2> HIDE DEF g
  <2>6. FrameBetween(r.storage, s.head, g[n - 1], g[n]) = FrameBetween(r.storage, r.head, f[n], f[n + 1])
    BY <2>4, <2>5 DEF FrameBetween
  <2> QED BY <1>3, <1>4, <2>1, <2>6
<1> HIDE DEF g
<1>7. Queued(r) # <<>> /\ Queued(s) = Tail(Queued(r)) /\ Head(Queued(r)) = Queued(r)[1]
  BY <1>2, <1>3, <1>4, <1>6, ListShortened
<1> QED BY <1>2, <1>7, HeadFrameFirst DEF s

-----------------------------------------------------------------------------
(* The sections of the port's calls *)

PortRing(r) == RingOK(r) /\ ReservationOK(r)

(* The ring holds the same frames, and its head has not moved under a copy. *)
SameFrames(r, s) ==
  Queued(s) = Queued(r) /\ s.queued = r.queued /\ (r.queued # 0 => HeadFrame(s) = HeadFrame(r))

\* Sections that leave the used cells alone.
LEMMA FramesSame ==
  ASSUME NEW r, RingOK(r), NEW s, RingOK(s), s.head = r.head, s.used = r.used, s.queued = r.queued,
         \A d \in 0..(r.used - 1) : s.storage[AdvanceOffset(r.head, d)] = r.storage[AdvanceOffset(r.head, d)]
  PROVE  SameFrames(r, s)
<1>1. Queued(s) = Queued(r)
  BY QueuedSame
<1>2. r.queued # 0 => Queued(r)[1] = HeadFrame(r) /\ Queued(s)[1] = HeadFrame(s)
  BY HeadFrameFirst
<1> QED BY <1>1, <1>2 DEF SameFrames

\* A reservation.
LEMMA PreparedPort ==
  ASSUME NEW r, PortRing(r), NEW size \in FrameSizes, PrepareStatus(r, size) = "Ok"
  PROVE  /\ PortRing(Prepared(r, size)) /\ SameFrames(r, Prepared(r, size))
         /\ Prepared(r, size).receiver = r.receiver /\ r.producer.id = 0
         /\ Prepared(r, size).producer.id = r.reservations.next /\ r.reservations.next \in Nat \ {0}
         /\ Prepared(r, size).producer.copy_active /\ ~Prepared(r, size).producer.abort_requested
<1> DEFINE s == Prepared(r, size)
<1>1. /\ r \in Rings /\ size \in Nat \ {0} /\ r.reservations \in Counters /\ r.head \in Cells /\ r.tail \in Cells
      /\ r.used \in Nat /\ r.storage \in [Cells -> Units] /\ Capacity \in Nat /\ RingOK(r)
  BY MessageRingAssumption DEF PortRing, RingOK, Rings
<1>2. r.producer.id = 0 /\ size + 1 <= Capacity - r.used
  BY <1>1 DEF PrepareStatus
<1>3. r.used + 1 \in r.used..Capacity /\ r.used + 1 + size <= Capacity /\ r.used \in 0..Capacity /\ 1 \in 0..Capacity
  BY <1>1, <1>2
<1>4. AdvanceOffset(r.tail, 1) = AdvanceOffset(r.head, r.used + 1) /\ AdvanceOffset(r.tail, 1) \in Cells
  <2>1. r.tail = AdvanceOffset(r.head, r.used)
    BY <1>1 DEF RingOK
  <2>2. r.used + 1 <= Capacity
    BY <1>1, <1>3
  <2>3. AdvanceOffset(r.tail, 1) = AdvanceOffset(r.head, r.used + 1)
    BY <1>1, <1>3, <2>1, <2>2, OffsetSum
  <2>4. AdvanceOffset(r.tail, 1) \in Cells
    BY <1>1, <1>3, OffsetRange
  <2> QED BY <2>3, <2>4
<1>5. TornFrame(size) \in Seq(Units) /\ Len(TornFrame(size)) = size
  BY <1>1, StoredUnits
<1>6. r.reservations.next \in 1..kU64Max /\ r.reservations.next \in Nat \ {0}
  BY <1>1, TakenType DEF Counters
<1>7. /\ RingOK(s) /\ s.receiver = r.receiver /\ s.producer.id = r.reservations.next
      /\ s.producer.copy_active /\ ~s.producer.abort_requested
  BY <1>1, PreparedOK
<1>8. /\ s.storage = Stored(r.storage, AdvanceOffset(r.tail, 1), TornFrame(size)) /\ s.producer.frame_size = size
      /\ s.head = r.head /\ s.used = r.used /\ s.queued = r.queued
  BY <1>1 DEF Prepared, Rings
<1> HIDE DEF s
<1>9. \A d \in 0..(r.used - 1) : s.storage[AdvanceOffset(r.head, d)] = r.storage[AdvanceOffset(r.head, d)]
  BY <1>1, <1>3, <1>4, <1>5, <1>8, StoredBeyond
<1>10. SameFrames(r, s)
  BY <1>1, <1>7, <1>8, <1>9, FramesSame
<1>11. ReservationOK(s)
  BY <1>6, <1>7, <1>8 DEF ReservationOK
<1> QED BY <1>2, <1>6, <1>7, <1>10, <1>11 DEF PortRing, s

\* The copy into the reservation.
LEMMA CopiedInPort ==
  ASSUME NEW r, PortRing(r), r.producer.id # 0, ~r.producer.abort_requested
  PROVE  /\ PortRing(CopiedIn(r)) /\ SameFrames(r, CopiedIn(r)) /\ CopiedIn(r).receiver = r.receiver
         /\ CopiedIn(r).producer.id = r.producer.id
         /\ ~CopiedIn(r).producer.copy_active /\ ~CopiedIn(r).producer.abort_requested
<1> DEFINE s == CopiedIn(r)
           p == r.producer
<1>1. /\ r \in Rings /\ p \in Producers /\ p.id \in Nat /\ p.frame_size \in Nat /\ r.head \in Cells /\ r.tail \in Cells
      /\ r.used \in Nat /\ r.storage \in [Cells -> Units] /\ Capacity \in Nat /\ RingOK(r)
  BY MessageRingAssumption DEF PortRing, RingOK, Rings, Producers
<1>2. p.tail = r.tail /\ p.frame_size # 0 /\ p.frame_size + 1 <= Capacity - r.used
  BY <1>1 DEF RingOK, StateIsValid
<1>3. r.used + 1 \in r.used..Capacity /\ r.used + 1 + p.frame_size <= Capacity /\ r.used \in 0..Capacity /\ 1 \in 0..Capacity
  BY <1>1, <1>2
<1>4. FrameOffset(r) = AdvanceOffset(r.head, r.used + 1) /\ FrameOffset(r) \in Cells /\ FrameOffset(r) = AdvanceOffset(r.tail, 1)
  BY <1>1, <1>2, <1>3, OffsetSum, OffsetRange DEF RingOK, FrameOffset
<1> DEFINE seq == Frame(p.id, p.frame_size)
<1>5. seq \in Seq(Units) /\ Len(seq) = p.frame_size /\ \A i \in 1..p.frame_size : seq[i] = FrameUnit(p.id, i)
  BY <1>1, StoredUnits DEF Frame
<1>6. /\ RingOK(s) /\ s.receiver = r.receiver /\ s.producer.id = p.id
      /\ ~s.producer.copy_active /\ ~s.producer.abort_requested
  BY <1>1, CopiedInOK
<1>7. /\ s.storage = Stored(r.storage, FrameOffset(r), seq) /\ s.producer.frame_size = p.frame_size
      /\ s.head = r.head /\ s.tail = r.tail /\ s.used = r.used /\ s.queued = r.queued
  BY <1>1 DEF CopiedIn, Rings, Producers
<1> HIDE DEF s, seq
<1>8. \A d \in 0..(r.used - 1) : s.storage[AdvanceOffset(r.head, d)] = r.storage[AdvanceOffset(r.head, d)]
  BY <1>1, <1>3, <1>4, <1>5, <1>7, StoredBeyond
<1>9. SameFrames(r, s)
  BY <1>1, <1>6, <1>7, <1>8, FramesSame
<1>10. ASSUME NEW i \in 1..p.frame_size PROVE s.storage[AdvanceOffset(r.tail, i)] = FrameUnit(p.id, i)
  <2>1. i - 1 \in Cells /\ i - 1 \in 0..Capacity /\ 1 + (i - 1) = i /\ 1 + (i - 1) <= Capacity /\ i - 1 < p.frame_size /\ i - 1 + 1 = i
    <3>1. i \in Nat /\ 1 <= i /\ i <= p.frame_size /\ p.frame_size < Capacity
      BY <1>1, <1>3
    <3> QED BY <1>1, <3>1 DEF Cells
  <2>2. AdvanceOffset(FrameOffset(r), i - 1) = AdvanceOffset(r.tail, i)
    BY <1>1, <1>3, <1>4, <2>1, OffsetSum
  <2>3. Stored(r.storage, FrameOffset(r), seq)[AdvanceOffset(FrameOffset(r), i - 1)] = seq[i]
    BY <1>1, <1>4, <1>5, <2>1, StoredCells
  <2> QED BY <1>5, <1>7, <2>2, <2>3
<1>11. ReservationOK(s)
  BY <1>6, <1>7, <1>10 DEF PortRing, ReservationOK
<1> QED BY <1>6, <1>9, <1>11 DEF PortRing, s

\* A publication, under a lease or not.
LEMMA PublishedPort ==
  ASSUME NEW r, PortRing(r), r.producer.id # 0, ~r.producer.copy_active
  PROVE  /\ PortRing(Published(r)) /\ Published(r).receiver = r.receiver /\ Published(r).producer.id = 0
         /\ Published(r).queued # 0 /\ (r.queued # 0 => HeadFrame(Published(r)) = HeadFrame(r))
         /\ \E m \in {Frame(id, size) : id \in 1..kU64Max, size \in FrameSizes} : Queued(Published(r)) = Append(Queued(r), m)
<1> DEFINE s == Published(r)
           m == Frame(r.producer.id, r.producer.frame_size)
<1>1. /\ RingOK(r) /\ ReservationOK(r) /\ r.queued \in Nat
      /\ r.producer.id \in 1..kU64Max /\ r.producer.frame_size \in FrameSizes
  BY DEF PortRing, ReservationOK, RingOK, Rings
<1>2. RingOK(s) /\ s.receiver = r.receiver /\ s.producer = NoProducer /\ s.queued = r.queued + 1
  BY <1>1, PublishedOK
<1>3. s.producer.id = 0 /\ s.queued # 0
  BY <1>1, <1>2 DEF NoProducer
<1>4. Queued(s) = Append(Queued(r), m)
  BY <1>1, PublishedFrame
<1> HIDE DEF s, m
<1>5. ASSUME r.queued # 0 PROVE HeadFrame(s) = HeadFrame(r)
  <2>1. Queued(r)[1] = HeadFrame(r) /\ Queued(s)[1] = HeadFrame(s)
    BY <1>1, <1>2, <1>3, <1>5, HeadFrameFirst
  <2>2. PICK f : IsWalk(f, r)
    BY <1>1 DEF RingOK
  <2>3. IsList(Queued(r), r.queued)
    BY <1>1, <2>2, QueuedFrames
  <2> DEFINE S == {Queued(r)[i] : i \in 1..r.queued}  T == S \cup {m}
  <2>4. Queued(r) \in Seq(S) /\ Len(Queued(r)) = r.queued
    BY <1>1, <2>3, ListIsSequence
  <2>5. Queued(r) \in Seq(T) /\ m \in T
    BY <2>4, SeqMonotonic
  <2> HIDE DEF S, T
  <2>6. 1 \in 1..Len(Queued(r))
    BY <1>1, <1>5, <2>4
  <2>7. Append(Queued(r), m)[1] = Queued(r)[1]
    BY <2>5, <2>6, AppendProperties
  <2> QED BY <1>4, <2>1, <2>7
<1>6. ReservationOK(s)
  BY <1>3 DEF ReservationOK
<1>7. m \in {Frame(id, size) : id \in 1..kU64Max, size \in FrameSizes}
  BY <1>1 DEF m
<1> QED BY <1>2, <1>3, <1>4, <1>5, <1>6, <1>7 DEF PortRing, s

\* A reservation given up.
LEMMA AbortedPort ==
  ASSUME NEW r, PortRing(r), r.producer.id # 0, ~r.producer.copy_active
  PROVE  LET s == EnqueueAborted(r, r.producer.id)
         IN PortRing(s) /\ SameFrames(r, s) /\ s.receiver = r.receiver /\ s.producer.id = 0
<1> DEFINE s == EnqueueAborted(r, r.producer.id)
<1>1. RingOK(r) /\ r \in Rings
  BY DEF PortRing, RingOK
<1>2. RingOK(s) /\ s.receiver = r.receiver /\ s.producer = NoProducer
  BY <1>1, AbortedOK
<1>3. s.producer.id = 0
  BY <1>2 DEF NoProducer
<1>4. s.head = r.head /\ s.used = r.used /\ s.queued = r.queued /\ s.storage = r.storage
  BY <1>1 DEF EnqueueAborted, Rings
<1> HIDE DEF s
<1>5. SameFrames(r, s)
  BY <1>1, <1>2, <1>4, FramesSame
<1>6. ReservationOK(s)
  BY <1>3 DEF ReservationOK
<1> QED BY <1>2, <1>3, <1>5, <1>6 DEF PortRing, s

\* What a receiver does to its own fields moves neither frames nor reservation.
LEMMA ReceiverPort ==
  ASSUME NEW r, PortRing(r), NEW s, RingOK(s),
         s.storage = r.storage, s.head = r.head, s.tail = r.tail, s.used = r.used, s.queued = r.queued, s.producer = r.producer
  PROVE  PortRing(s) /\ SameFrames(r, s)
<1>1. SameFrames(r, s)
  BY FramesSame DEF PortRing
<1> QED BY <1>1 DEF PortRing, ReservationOK

\* A lease taken.
LEMMA PeekedPort ==
  ASSUME NEW r, PortRing(r), PeekStatus(r) = "Ok"
  PROVE  /\ PortRing(Peeked(r)) /\ SameFrames(r, Peeked(r)) /\ Peeked(r).producer = r.producer
         /\ Peeked(r).receiver.sequence \in Nat \ {0} /\ Peeked(r).receiver.lease \in Nat
         /\ Peeked(r).receiver.copy = 0 /\ Peeked(r).receiver.copied = 0
         /\ r.receiver.sequence = 0
<1>1. RingOK(r) /\ r \in Rings
  BY DEF PortRing, RingOK
<1>2. Peeked(r).tail = r.tail /\ Peeked(r).used = r.used
  BY <1>1 DEF Peeked, Rings
<1>3. r.receiver.sequence = 0
  BY DEF PeekStatus
<1> QED BY <1>1, <1>2, <1>3, PeekedOK, ReceiverPort

\* Leased and the copy begun.
LEMMA LeasedPort ==
  ASSUME NEW r, PortRing(r), PeekStatus(r) = "Ok"
  PROVE  LET s == CopyBegun(Peeked(r))
         IN /\ PortRing(s) /\ SameFrames(r, s) /\ s.producer = r.producer /\ r.receiver.sequence = 0
            /\ s.receiver.sequence = Peeked(r).receiver.sequence /\ s.receiver.lease = Peeked(r).receiver.lease
            /\ s.receiver.sequence \in Nat \ {0} /\ s.receiver.lease \in Nat
            /\ s.receiver.copy = Peeked(r).copies.next /\ Peeked(r).copies.next \in Nat \ {0} /\ s.receiver.copied = 0
<1> DEFINE q == Peeked(r)
           s == CopyBegun(q)
<1>1. /\ PortRing(q) /\ SameFrames(r, q) /\ q.producer = r.producer /\ q.receiver.sequence \in Nat \ {0}
      /\ q.receiver.lease \in Nat /\ r.receiver.sequence = 0
  BY PeekedPort
<1> HIDE DEF q
<1>2. RingOK(q) /\ q \in Rings
  BY <1>1 DEF PortRing, RingOK
<1>3. /\ RingOK(s) /\ s.producer = q.producer /\ s.queued = q.queued
      /\ s.receiver.sequence = q.receiver.sequence /\ s.receiver.lease = q.receiver.lease
      /\ s.receiver.copy = q.copies.next /\ q.copies.next \in Nat \ {0} /\ s.receiver.copied = 0
      /\ s.storage = q.storage /\ s.head = q.head
  BY <1>1, <1>2, CopyBegunOK
<1>4. s.tail = q.tail /\ s.used = q.used
  BY <1>2 DEF CopyBegun, Rings
<1> HIDE DEF s
<1>5. PortRing(s) /\ SameFrames(q, s)
  BY <1>1, <1>3, <1>4, ReceiverPort
<1>6. SameFrames(r, s)
  BY <1>1, <1>5 DEF SameFrames
<1> QED BY <1>1, <1>3, <1>5, <1>6 DEF s, q

\* Leased and given back at once.
LEMMA DeclinedPort ==
  ASSUME NEW r, PortRing(r), PeekStatus(r) = "Ok", NEW view, HoldsLease(Peeked(r), view)
  PROVE  LET s == ReceiveCancelled(Peeked(r), view)
         IN PortRing(s) /\ SameFrames(r, s) /\ s.producer = r.producer /\ s.receiver = NoReceiver /\ r.receiver.sequence = 0
<1> DEFINE q == Peeked(r)
           s == ReceiveCancelled(q, view)
<1>1. PortRing(q) /\ SameFrames(r, q) /\ q.producer = r.producer /\ q.receiver.copy = 0 /\ r.receiver.sequence = 0
  BY PeekedPort
<1> HIDE DEF q
<1>2. RingOK(q) /\ q \in Rings /\ HoldsLease(q, view)
  BY <1>1 DEF PortRing, RingOK, q
<1>3. /\ RingOK(s) /\ s.producer = q.producer /\ s.queued = q.queued /\ s.receiver = NoReceiver
      /\ s.storage = q.storage /\ s.head = q.head
  BY <1>1, <1>2, CancelledOK
<1>4. s.tail = q.tail /\ s.used = q.used
  BY <1>2 DEF ReceiveCancelled, Rings
<1> HIDE DEF s
<1>5. PortRing(s) /\ SameFrames(q, s)
  BY <1>1, <1>3, <1>4, ReceiverPort
<1>6. SameFrames(r, s)
  BY <1>1, <1>5 DEF SameFrames
<1> QED BY <1>1, <1>3, <1>5, <1>6 DEF s, q

\* The end of a copy.
LEMMA EndedPort ==
  ASSUME NEW r, PortRing(r), r.receiver.sequence # 0, NEW copy \in Nat, NEW ok \in BOOLEAN
  PROVE  LET s == CopyEnded(r, copy, ok)
         IN /\ PortRing(s) /\ SameFrames(r, s) /\ s.producer = r.producer
            /\ s.receiver.sequence = r.receiver.sequence /\ s.receiver.lease = r.receiver.lease
            /\ s.receiver.copy = 0 /\ s.receiver.copied = IF ok THEN copy ELSE 0
<1> DEFINE s == CopyEnded(r, copy, ok)
<1>1. RingOK(r) /\ r \in Rings
  BY DEF PortRing, RingOK
<1>2. s.tail = r.tail /\ s.used = r.used
  BY <1>1 DEF CopyEnded, Rings
<1>3. /\ RingOK(s) /\ s.producer = r.producer /\ s.queued = r.queued /\ s.receiver.sequence = r.receiver.sequence
      /\ s.receiver.lease = r.receiver.lease /\ s.receiver.copy = 0
      /\ s.receiver.copied = (IF ok THEN copy ELSE 0) /\ s.storage = r.storage /\ s.head = r.head
  BY <1>1, CopyEndedOK
<1> HIDE DEF s
<1>4. PortRing(s) /\ SameFrames(r, s)
  BY <1>2, <1>3, ReceiverPort
<1> QED BY <1>3, <1>4 DEF s

\* The port closed in the copy window.
LEMMA GivenBackPort ==
  ASSUME NEW r, PortRing(r), r.receiver.sequence # 0, NEW view, HoldsLease(r, view), NEW copy \in Nat
  PROVE  LET s == GivenBack(r, view, copy)
         IN PortRing(s) /\ SameFrames(r, s) /\ s.producer = r.producer /\ s.receiver = NoReceiver
<1> DEFINE q == CopyEnded(r, copy, FALSE)
           s == ReceiveCancelled(q, view)
<1>1. /\ PortRing(q) /\ SameFrames(r, q) /\ q.producer = r.producer /\ q.receiver.copy = 0
      /\ q.receiver.sequence = r.receiver.sequence /\ q.receiver.lease = r.receiver.lease
  BY EndedPort
<1> HIDE DEF q
<1>2. RingOK(q) /\ q \in Rings /\ HoldsLease(q, view)
  BY <1>1 DEF PortRing, RingOK, HoldsLease
<1>3. /\ RingOK(s) /\ s.producer = q.producer /\ s.queued = q.queued /\ s.receiver = NoReceiver
      /\ s.storage = q.storage /\ s.head = q.head
  BY <1>1, <1>2, CancelledOK
<1>4. s.tail = q.tail /\ s.used = q.used
  BY <1>2 DEF ReceiveCancelled, Rings
<1> HIDE DEF s
<1>5. PortRing(s) /\ SameFrames(q, s)
  BY <1>1, <1>3, <1>4, ReceiverPort
<1>6. SameFrames(r, s)
  BY <1>1, <1>5 DEF SameFrames
<1> QED BY <1>1, <1>3, <1>5, <1>6 DEF s, q, GivenBack

\* The lease and the copy still held, the commit succeeds and takes the head frame.
LEMMA CommittedPort ==
  ASSUME NEW r, PortRing(r), r.receiver.sequence # 0, NEW view, HoldsLease(r, view),
         NEW copy \in Nat \ {0}, r.receiver.copy = copy
  PROVE  LET s == CommittedOr(r, view, copy)
         IN /\ CommitSucceeds(r, view, copy)
            /\ PortRing(s) /\ s.producer = r.producer /\ s.receiver = NoReceiver /\ r.queued # 0
            /\ Queued(r) # <<>> /\ Queued(s) = Tail(Queued(r)) /\ Head(Queued(r)) = HeadFrame(r)
<1> DEFINE q == CopyEnded(r, copy, TRUE)
           s == Committed(q)
<1>1. /\ PortRing(q) /\ SameFrames(r, q) /\ q.producer = r.producer /\ q.receiver.copy = 0 /\ q.receiver.copied = copy
      /\ q.receiver.sequence = r.receiver.sequence /\ q.receiver.lease = r.receiver.lease
  BY EndedPort
<1> HIDE DEF q
<1>2. RingOK(q) /\ q \in Rings /\ HoldsLease(q, view) /\ ReservationOK(q)
  BY <1>1 DEF PortRing, RingOK, HoldsLease
<1>3. EndCopyStatus(r, view, copy) = "Ok" /\ CommitStatus(q, view) = "Ok"
  BY <1>1, <1>2 DEF EndCopyStatus, CommitStatus
<1>4. CommittedOr(r, view, copy) = s /\ CommitSucceeds(r, view, copy)
  BY <1>3 DEF CommittedOr, CommitSucceeds, q
<1>5. /\ RingOK(s) /\ s.producer = q.producer /\ s.receiver = NoReceiver /\ q.queued \in Nat \ {0} /\ s.storage = q.storage
  BY <1>1, <1>2, CommittedOK
<1>6. s.tail = q.tail
  BY <1>2 DEF Committed, Rings
<1>7. Queued(q) # <<>> /\ Queued(s) = Tail(Queued(q)) /\ Head(Queued(q)) = HeadFrame(q)
  BY <1>1, <1>2, CommittedFrame
<1> HIDE DEF s
<1>8. ReservationOK(s)
  BY <1>2, <1>5, <1>6 DEF ReservationOK
<1>9. r.queued # 0 /\ Queued(q) = Queued(r) /\ HeadFrame(q) = HeadFrame(r)
  BY <1>1, <1>5 DEF SameFrames
<1> QED BY <1>1, <1>4, <1>5, <1>7, <1>8, <1>9 DEF PortRing

\* The frame at the head is made of units.
LEMMA HeadFrameType ==
  ASSUME NEW r, RingOK(r), r.queued # 0
  PROVE  HeadFrame(r) \in Seq(Units)
<1>1. r.head \in Cells /\ r.used \in Nat /\ r.used <= Capacity /\ Capacity \in Nat /\ r.storage \in [Cells -> Units]
  BY MessageRingAssumption DEF RingOK, Rings
<1> DEFINE k == HeadHeader(r).at
           e(i) == r.storage[AdvanceOffset(AdvanceOffset(r.head, 1), i - 1)]
<1>2. k \in Nat \ {0} /\ k + 1 <= r.used
  BY HeadReadable
<1> HIDE DEF k
<1>3. ASSUME NEW i \in 1..k PROVE e(i) \in Units
  <2>1. 1 \in 0..Capacity /\ i - 1 \in 0..Capacity
    <3>1. i \in Nat /\ 1 <= i /\ i <= k
      BY <1>2
    <3> QED BY <1>1, <1>2, <3>1
  <2>2. AdvanceOffset(r.head, 1) \in Cells
    BY <1>1, <2>1, OffsetRange
  <2>3. AdvanceOffset(AdvanceOffset(r.head, 1), i - 1) \in Cells
    BY <2>1, <2>2, OffsetRange
  <2> QED BY <1>1, <2>3
<1>4. HeadFrame(r) = [i \in 1..k |-> e(i)]
  BY DEF HeadFrame, Loaded, k
<1> HIDE DEF e
<1>5. [i \in 1..k |-> e(i)] \in [1..k -> Units]
  BY <1>3
<1> QED BY <1>2, <1>4, <1>5, SeqDef

-----------------------------------------------------------------------------
(* The calls *)

PortOps == {"send", "receive", "readable", "close"}
IoRecords == [id: Nat, view: [sequence: Nat, lease: Nat], copy: Nat, buffer: Seq(Units)]

(* A reservation is a send's from its copy to its publication, a lease a   *)
(* receive's from its copy to its commit; a call is granted at its end.    *)
TaskIo(t) ==
  /\ io[t].id # 0 => call[t].op = "send" /\ pc[t] \in {"copyin", "lock", "body"}
  /\ io[t].copy # 0 => call[t].op = "receive" /\ pc[t] \in {"copyout", "lock", "body"}
  /\ pc[t] = "copyin" => io[t].id # 0
  /\ pc[t] = "copyout" => io[t].copy # 0
  /\ pc[t] = "prepare" => call[t].op = "send" /\ io[t].id = 0 /\ call[t].arg \in FrameSizes
  /\ call[t].op = "send" => call[t].arg \in FrameSizes
  /\ io[t].buffer # <<>> => call[t].op = "receive" /\ (io[t].copy # 0 \/ call[t].result = "granted")
  /\ call[t].result = "granted" => pc[t] \in {"unlock", "return"}

Producing(t, o) == call[t].obj = o /\ io[t].id # 0
Receiving(t, o) == call[t].obj = o /\ io[t].copy # 0

(* The reservation of a port belongs to the one send that will end it.     *)
ProducerFits(t, o) ==
  /\ io[t].id = ring[o].producer.id /\ ~ring[o].producer.abort_requested
  /\ ring[o].producer.copy_active <=> pc[t] = "copyin"

ProducerOK(o) ==
  /\ ring[o].producer.id # 0 => \E t \in Tasks : Producing(t, o)
  /\ \A t \in Tasks : Producing(t, o) => ProducerFits(t, o)
  /\ \A t, u \in Tasks : Producing(t, o) /\ Producing(u, o) => t = u

(* The lease of a port belongs to the one receive that will end it, and    *)
(* what it has copied is still the head.                                   *)
ReceiverFits(t, o) ==
  /\ ring[o].receiver.sequence # 0 /\ HoldsLease(ring[o], io[t].view)
  /\ ring[o].receiver.copy = io[t].copy
  /\ pc[t] # "copyout" => io[t].buffer = HeadFrame(ring[o])

ReceiverOK(o) ==
  /\ ring[o].receiver.sequence # 0 => \E t \in Tasks : Receiving(t, o)
  /\ \A t \in Tasks : Receiving(t, o) => ReceiverFits(t, o)
  /\ \A t, u \in Tasks : Receiving(t, o) /\ Receiving(u, o) => t = u

PortOK(o) == PortRing(ring[o]) /\ ProducerOK(o) /\ ReceiverOK(o)
ReadersWoken == \A o \in Objects : Readable(o) => \A u \in Tasks : ~ParkedAt(u, o)

PInv ==
  /\ CallInv(PortOps, FrameSizes, PortPCs)
  /\ ring \in [Objects -> Rings] /\ closed \in [Objects -> BOOLEAN] /\ io \in [Tasks -> IoRecords]
  /\ \A t \in Tasks : TaskIo(t)
  /\ \A o \in Objects : PortOK(o)
  /\ ReadersWoken

-----------------------------------------------------------------------------
(* What a step leaves alone *)

KeepsProducing(u, o) ==
  \/ /\ call'[u].obj = call[u].obj /\ io'[u].id = io[u].id
     /\ pc'[u] = "copyin" <=> pc[u] = "copyin"
  \/ ~Producing(u, o) /\ ~Producing(u, o)'

KeepsReceiving(u, o) ==
  \/ /\ call'[u].obj = call[u].obj /\ io'[u] = io[u]
     /\ pc'[u] = "copyout" <=> pc[u] = "copyout"
  \/ ~Receiving(u, o) /\ ~Receiving(u, o)'

\* A reservation whose send goes on with it.
LEMMA ProducerKept ==
  ASSUME NEW o \in Objects, ProducerOK(o), ring'[o].producer = ring[o].producer, \A u \in Tasks : KeepsProducing(u, o)
  PROVE  ProducerOK(o)'
<1>1. \A u \in Tasks : Producing(u, o)' <=> Producing(u, o)
  BY DEF KeepsProducing, Producing
<1>2. ASSUME NEW u \in Tasks, Producing(u, o)' PROVE ProducerFits(u, o)'
  BY <1>1, <1>2 DEF ProducerOK, ProducerFits, KeepsProducing
<1> QED BY <1>1, <1>2 DEF ProducerOK

\* A lease whose receive goes on with it.
LEMMA ReceiverKept ==
  ASSUME NEW o \in Objects, ReceiverOK(o), ring'[o].receiver = ring[o].receiver,
         ring[o].receiver.sequence # 0 => HeadFrame(ring'[o]) = HeadFrame(ring[o]),
         \A u \in Tasks : KeepsReceiving(u, o)
  PROVE  ReceiverOK(o)'
<1>1. \A u \in Tasks : Receiving(u, o)' <=> Receiving(u, o)
  BY DEF KeepsReceiving, Receiving
<1>2. HeadFrame(ring[o])' = HeadFrame(ring'[o]) /\ \A v : HoldsLease(ring'[o], v) <=> HoldsLease(ring[o], v)
  BY DEF HeadFrame, HeadHeader, HoldsLease
<1>3. ASSUME NEW u \in Tasks, Receiving(u, o)' PROVE ReceiverFits(u, o)'
  <2>1. /\ io'[u] = io[u] /\ (pc'[u] = "copyout" <=> pc[u] = "copyout") /\ ReceiverFits(u, o)
    BY <1>1, <1>3 DEF ReceiverOK, KeepsReceiving
  <2>2. ring'[o].receiver.sequence # 0 /\ HoldsLease(ring'[o], io'[u].view) /\ ring'[o].receiver.copy = io'[u].copy
    BY <1>2, <2>1 DEF ReceiverFits
  <2>3. pc'[u] # "copyout" => io'[u].buffer = HeadFrame(ring'[o])
    BY <2>1 DEF ReceiverFits
  <2>4. HoldsLease(ring[o], io[u].view)' = HoldsLease(ring'[o], io'[u].view)
    BY DEF HoldsLease
  <2> QED BY <1>2, <2>2, <2>3, <2>4 DEF ReceiverFits
<1> QED BY <1>1, <1>3 DEF ReceiverOK

\* A leased ring is not empty.
LEMMA LeasedNotEmpty ==
  ASSUME NEW r, PortRing(r), r.receiver.sequence # 0
  PROVE  r.queued # 0
BY DEF PortRing, RingOK, StateIsValid

\* A property of a ring, of the ring after the step.
LEMMA RingAfter ==
  ASSUME NEW o \in Objects, PortRing(ring'[o])
  PROVE  PortRing(ring[o])'
BY DEF PortRing, RingOK, ReservationOK, StateIsValid, IsWalk, NoReceiver, NoProducer, AdvanceOffset, FrameUnit

(* A step of t on port o, from what it does to the two.                    *)
LEMMA StepKeeps ==
  ASSUME PInv, NEW t \in Tasks, NEW o \in Objects, CallInv(PortOps, FrameSizes, PortPCs)', Others(t),
         call[t].obj \in {o, NULL}, call'[t].obj \in {o, NULL},
         ring' \in [Objects -> Rings], closed' \in [Objects -> BOOLEAN], io' \in [Tasks -> IoRecords],
         \A u \in Tasks \ {t} : io'[u] = io[u], \A p \in Objects \ {o} : ring'[p] = ring[p],
         TaskIo(t)', PortRing(ring'[o]), ProducerOK(o)', ReceiverOK(o)', ReadersWoken'
  PROVE  PInv'
<1>1. \A u \in Tasks \ {t} : pc'[u] = pc[u] /\ call'[u] = call[u]
  BY DEF Others, Spared
<1>2. ASSUME NEW u \in Tasks PROVE TaskIo(u)'
  <2>1. CASE u = t
    BY <2>1
  <2>2. CASE u # t
    BY <1>1, <2>2 DEF PInv, TaskIo
  <2> QED BY <2>1, <2>2
<1>3. ASSUME NEW p \in Objects PROVE PortOK(p)'
  <2>1. CASE p = o
    <3>1. PortRing(ring[p])'
      BY <2>1, RingAfter
    <3> QED BY <2>1, <3>1 DEF PortOK
  <2>2. CASE p # o
    <3>1. p # NULL /\ ring'[p] = ring[p]
      BY <2>2, SchedAssumption
    <3>2. \A u \in Tasks : KeepsProducing(u, p) /\ KeepsReceiving(u, p)
      BY <1>1, <2>2, <3>1 DEF KeepsProducing, KeepsReceiving, Producing, Receiving
    <3>3. PortOK(p)
      BY DEF PInv
    <3>4. ProducerOK(p)' /\ ReceiverOK(p)'
      BY <3>1, <3>2, <3>3, ProducerKept, ReceiverKept DEF PortOK
    <3>5. PortRing(ring[p])'
      BY <3>1, <3>3, RingAfter DEF PortOK
    <3> QED BY <3>4, <3>5 DEF PortOK
  <2> QED BY <2>1, <2>2
<1> QED BY <1>2, <1>3 DEF PInv

\* A step that touches neither ring nor buffers.
LEMMA QuietKeeps ==
  ASSUME PInv, CallInv(PortOps, FrameSizes, PortPCs)', UNCHANGED portVars, ReadersWoken',
         \A u \in Tasks : TaskIo(u)', \A u \in Tasks, o \in Objects : KeepsProducing(u, o) /\ KeepsReceiving(u, o)
  PROVE  PInv'
<1>1. UNCHANGED <<ring, closed, io>>
  BY DEF portVars
<1>2. ASSUME NEW o \in Objects PROVE PortOK(o)'
  <2>1. PortOK(o)
    BY DEF PInv
  <2>2. ProducerOK(o)' /\ ReceiverOK(o)'
    BY <1>1, <2>1, ProducerKept, ReceiverKept DEF PortOK
  <2>3. PortRing(ring[o])'
    BY <1>1, <2>1, RingAfter DEF PortOK
  <2> QED BY <2>2, <2>3 DEF PortOK
<1> QED BY <1>1, <1>2 DEF PInv

\* The same, for a step of one task.
LEMMA QuietStep ==
  ASSUME PInv, NEW t \in Tasks, CallInv(PortOps, FrameSizes, PortPCs)', Others(t), UNCHANGED portVars, ReadersWoken',
         TaskIo(t)', \A o \in Objects : KeepsProducing(t, o) /\ KeepsReceiving(t, o)
  PROVE  PInv'
<1>1. \A u \in Tasks \ {t} : pc'[u] = pc[u] /\ call'[u] = call[u] /\ io'[u] = io[u]
  BY DEF Others, Spared, portVars
<1>2. ASSUME NEW u \in Tasks PROVE TaskIo(u)' /\ \A o \in Objects : KeepsProducing(u, o) /\ KeepsReceiving(u, o)
  <2>1. CASE u = t
    BY <2>1
  <2>2. CASE u # t
    <3>1. TaskIo(u)'
      BY <1>1, <2>2 DEF PInv, TaskIo
    <3> QED BY <1>1, <2>2, <3>1 DEF KeepsProducing, KeepsReceiving
  <2> QED BY <2>1, <2>2
<1> QED BY <1>2, QuietKeeps

\* Where nobody parks and nothing becomes readable, the readers stay woken.
LEMMA ReadersStay ==
  ASSUME PInv, NobodyParks, \A o \in Objects : Readable(o)' => Readable(o)
  PROVE  ReadersWoken'
BY DEF PInv, ReadersWoken, NobodyParks

\* The same where ports do not change at all.
LEMMA ReadersStill ==
  ASSUME PInv, NobodyParks, UNCHANGED <<ring, closed>>
  PROVE  ReadersWoken'
BY ReadersStay DEF Readable

\* What the invariant says of one task.
LEMMA PortFacts ==
  ASSUME PInv, NEW t \in Tasks
  PROVE  /\ CallInv(PortOps, FrameSizes, PortPCs) /\ TaskIo(t) /\ TaskFits(t) /\ io[t] \in IoRecords
         /\ pc \in [Tasks -> PCs \cup PortPCs] /\ call \in [Tasks -> CallRecords(PortOps, FrameSizes)]
         /\ call[t] \in CallRecords(PortOps, FrameSizes) /\ pc[t] \in PCs \cup PortPCs
         /\ (pc[t] \notin {"idle", "dead"} => call[t].obj \in Objects)
         /\ ring \in [Objects -> Rings] /\ closed \in [Objects -> BOOLEAN] /\ io \in [Tasks -> IoRecords]
         /\ \A o \in Objects : PortOK(o)
<1>1. CallInv(PortOps, FrameSizes, PortPCs)
  BY DEF PInv
<1>2. /\ TaskFits(t) /\ pc \in [Tasks -> PCs \cup PortPCs] /\ call \in [Tasks -> CallRecords(PortOps, FrameSizes)]
      /\ (pc[t] \notin {"idle", "dead"} => call[t].obj \in Objects)
  BY <1>1, CallFacts
<1> QED BY <1>1, <1>2 DEF PInv

\* Entering a send, a receive or a wait.
LEMMA PortEnter ==
  ASSUME PInv, NEW t \in Tasks, NEW o \in Objects, NEW op \in {"send", "receive", "readable"}, NEW arg,
         arg \in FrameSizes \/ (op = "readable" /\ arg = 0),
         EnterCall(t, o, op, arg, "none"), UNCHANGED portVars
  PROVE  PInv'
<1>0. /\ CallInv(PortOps, FrameSizes, PortPCs) /\ TaskIo(t) /\ TaskFits(t) /\ io[t] \in IoRecords
      /\ call \in [Tasks -> CallRecords(PortOps, FrameSizes)] /\ pc \in [Tasks -> PCs \cup PortPCs]
  BY PortFacts
<1>1. op \in PortOps /\ arg \in FrameSizes \cup {0} /\ op # "wait"
  BY DEF PortOps
<1>2. CallInv(PortOps, FrameSizes, PortPCs)' /\ Others(t)
  BY <1>0, <1>1, EnterCallKeeps
<1>3. NobodyParks
  BY <1>0, <1>1, <1>2, StepParksNobody
<1>4. /\ pc[t] = "idle" /\ pc'[t] = "lock" /\ call'[t].op = op /\ call'[t].arg = arg /\ call'[t].result = "none"
  BY <1>0, <1>1 DEF EnterCall, At, Goto
<1>5. UNCHANGED <<ring, closed, io>>
  BY DEF portVars
<1>6. call[t].obj = NULL /\ call[t].op = "none" /\ io[t].id = 0 /\ io[t].copy = 0 /\ io[t].buffer = <<>>
  BY <1>0, <1>4 DEF TaskFits, TaskIo, NoCall
<1>7. TaskIo(t)'
  BY <1>1, <1>4, <1>5, <1>6 DEF TaskIo
<1>8. \A p \in Objects : KeepsProducing(t, p) /\ KeepsReceiving(t, p)
  BY <1>5, <1>6 DEF KeepsProducing, KeepsReceiving, Producing, Receiving
<1> QED BY <1>2, <1>3, <1>5, <1>7, <1>8, ReadersStill, QuietStep

\* Entering a close: the handle's reference becomes the call's.
LEMMA PortCloseEnter ==
  ASSUME PInv, NEW t \in Tasks, NEW o \in Objects, KMessagePortClose(t, o)
  PROVE  CallInv(PortOps, FrameSizes, PortPCs)' /\ Others(t) /\ PInv'
<1>0. /\ CallInv(PortOps, FrameSizes, PortPCs) /\ TaskIo(t) /\ TaskFits(t) /\ io[t] \in IoRecords
      /\ call \in [Tasks -> CallRecords(PortOps, FrameSizes)] /\ pc \in [Tasks -> PCs \cup PortPCs]
      /\ handles \in [Objects -> {0, 1}] /\ refcount \in [Objects -> Nat]
  BY PortFacts, CallFacts
<1> DEFINE c == [NoCall EXCEPT !.obj = o, !.op = "close"]
<1>1. /\ c \in CallRecords(PortOps, FrameSizes) /\ c.obj = o /\ c.op = "close" /\ c.result = "none"
      /\ c.woke = "none" /\ c.arg = 0
  BY DEF CallRecords, NoCall, PortOps, Results
<1> HIDE DEF c
<1>2. /\ pc[t] = "idle" /\ ~Blocked(t) /\ handles[o] = 1 /\ handles' = [handles EXCEPT ![o] = 0] /\ pc' = [pc EXCEPT ![t] = "lock"]
      /\ call' = [call EXCEPT ![t] = c] /\ UNCHANGED <<schedVars, refcount, portVars>>
  BY DEF KMessagePortClose, At, Goto, c
<1>3. pc'[t] = "lock" /\ call'[t] = c /\ \A u \in Tasks \ {t} : call'[u] = call[u] /\ pc'[u] = pc[u]
  BY <1>0, <1>2
<1>4. call[t].obj = NULL /\ call[t].op = "none" /\ io[t].id = 0 /\ io[t].copy = 0 /\ io[t].buffer = <<>>
  BY <1>0, <1>2 DEF TaskFits, TaskIo, NoCall
<1>5. Balanced(t, o)
  <2>1. handles' \in [Objects -> {0, 1}] /\ refcount' \in [Objects -> Int] /\ handles'[o] = 0
    BY <1>0, <1>2
  <2>2. Weight(call[t], o) = 0 /\ Weight(call'[t], o) = 1
    BY <1>1, <1>3, <1>4, SchedAssumption DEF Weight
  <2>3. refcount'[o] + handles[o] + Weight(call[t], o) = refcount[o] + handles'[o] + Weight(call'[t], o)
    BY <1>0, <1>2, <2>1, <2>2
  <2> QED BY <1>0, <1>1, <1>2, <1>3, <1>4, <2>1, <2>3 DEF Balanced
<1>6. UNCHANGED <<wait, kill_ticket, queue, owner, owned_internal_mutex_count>>
  BY <1>2 DEF schedVars
<1>7. TaskFits(t)'
  <2>1. \A p \in Objects : owner[p] # t
    BY <1>0, <1>2, OwnsNothing DEF Holding
  <2> QED BY <1>0, <1>1, <1>2, <1>3, <1>6, <2>1, SchedAssumption DEF TaskFits, Blocked, Holds, Holding, IsWait
<1>8. "lock" \in PCs \cup PortPCs
  BY DEF PCs
<1>9. CallInv(PortOps, FrameSizes, PortPCs)' /\ Others(t)
  BY <1>0, <1>1, <1>2, <1>5, <1>7, <1>8, PlainMove
<1>10. NobodyParks
  BY <1>0, <1>3, <1>9, OthersDoNotPark
<1>11. UNCHANGED <<ring, closed, io>>
  BY <1>2 DEF portVars
<1>12. TaskIo(t)'
  BY <1>1, <1>3, <1>4, <1>11 DEF TaskIo
<1>13. \A p \in Objects : KeepsProducing(t, p) /\ KeepsReceiving(t, p)
  BY <1>4, <1>11 DEF KeepsProducing, KeepsReceiving, Producing, Receiving
<1> QED BY <1>2, <1>9, <1>10, <1>11, <1>12, <1>13, ReadersStill, QuietStep

\* The lock, the relock after a park and the unlock.
LEMMA PortLocking ==
  ASSUME PInv, NEW t \in Tasks, LockInner(t) \/ WaitResume(t) \/ UnlockInner(t), UNCHANGED portVars
  PROVE  PInv'
<1>0. /\ CallInv(PortOps, FrameSizes, PortPCs) /\ TaskIo(t) /\ TaskFits(t) /\ io[t] \in IoRecords
      /\ call \in [Tasks -> CallRecords(PortOps, FrameSizes)] /\ pc \in [Tasks -> PCs \cup PortPCs]
      /\ call[t] \in CallRecords(PortOps, FrameSizes)
  BY PortFacts
<1>1. CallInv(PortOps, FrameSizes, PortPCs)' /\ Others(t)
  BY <1>0, LockInnerKeeps, WaitResumeKeeps, UnlockInnerKeeps
<1>2. NobodyParks
  BY <1>0, <1>1, StepParksNobody DEF CallStep
<1>3. UNCHANGED <<ring, closed, io>>
  BY DEF portVars
<1>4. /\ call'[t].obj = call[t].obj /\ call'[t].op = call[t].op /\ call'[t].arg = call[t].arg /\ call'[t].result = call[t].result
      /\ \/ pc[t] = "lock" /\ pc'[t] \in {"lock", "test", "body"} /\ (pc'[t] = "test" => call[t].op = "readable")
         \/ pc[t] = "parked" /\ pc'[t] = "lock"
         \/ pc[t] = "unlock" /\ pc'[t] = "return"
  <2>1. CASE LockInner(t)
    <3>1. UNCHANGED call /\ pc[t] = "lock" /\ pc'[t] \in {"lock", IF IsWait(t) THEN "test" ELSE "body"}
      BY <1>0, <2>1 DEF LockInner, At, Goto
    <3>2. call[t].op # "wait"
      BY <1>0 DEF CallRecords, PortOps
    <3> QED BY <3>1, <3>2 DEF IsWait
  <2>2. CASE WaitResume(t)
    <3>1. call' = [call EXCEPT ![t].woke = ResumeResult(t)] /\ pc[t] = "parked" /\ pc'[t] = "lock"
      BY <1>0, <2>2 DEF WaitResume, At, Goto
    <3> HIDE DEF ResumeResult
    <3> QED BY <1>0, <3>1 DEF CallRecords
  <2>3. CASE UnlockInner(t)
    BY <1>0, <2>3 DEF UnlockInner, UnlockTo, At, Goto
  <2> QED BY <2>1, <2>2, <2>3
<1>5. TaskIo(t)'
  BY <1>0, <1>3, <1>4 DEF TaskIo
<1>6. \A p \in Objects : KeepsProducing(t, p) /\ KeepsReceiving(t, p)
  BY <1>3, <1>4 DEF KeepsProducing, KeepsReceiving
<1> QED BY <1>1, <1>2, <1>3, <1>5, <1>6, ReadersStill, QuietStep

\* The unlock in the middle or at the end of a call.
LEMMA PortUnlock ==
  ASSUME PInv, NEW t \in Tasks, pc[t] = "body", NEW at \in {"return", "prepare", "copyout"}, UnlockTo(t, at),
         NEW c \in CallRecords(PortOps, FrameSizes), call' = [call EXCEPT ![t] = c],
         c.obj = call[t].obj, c.op = call[t].op, c.woke = call[t].woke
  PROVE  /\ CallInv(PortOps, FrameSizes, PortPCs)' /\ Others(t) /\ NobodyParks
         /\ pc'[t] = at /\ call'[t] = c
<1>0. /\ CallInv(PortOps, FrameSizes, PortPCs) /\ call \in [Tasks -> CallRecords(PortOps, FrameSizes)]
      /\ pc \in [Tasks -> PCs \cup PortPCs]
  BY PortFacts
<1>1. pc[t] \in Holding /\ at \in (PCs \cup PortPCs) \ (Holding \cup {"idle", "dead", "lock", "parked"})
  BY DEF Holding, PCs, PortPCs
<1>2. MutexUnlock(t, call[t].obj) /\ pc' = [pc EXCEPT ![t] = at] /\ UNCHANGED <<refcount, handles>>
  BY DEF UnlockTo, Goto
<1>3. CallInv(PortOps, FrameSizes, PortPCs)' /\ Others(t)
  BY <1>0, <1>1, <1>2, UnlockKeeps
<1>4. pc'[t] = at /\ call'[t] = c
  BY <1>0, <1>2
<1>5. NobodyParks
  BY <1>0, <1>3, <1>4, OthersDoNotPark
<1> QED BY <1>3, <1>4, <1>5

\* The check for a close before the reservation.
LEMMA PortSendCheck ==
  ASSUME PInv, NEW t \in Tasks, SendCheck(t)
  PROVE  PInv'
<1>0. /\ CallInv(PortOps, FrameSizes, PortPCs) /\ TaskIo(t) /\ TaskFits(t) /\ io[t] \in IoRecords
      /\ call \in [Tasks -> CallRecords(PortOps, FrameSizes)] /\ call[t] \in CallRecords(PortOps, FrameSizes)
  BY PortFacts
<1>1. PICK at \in {"return", "prepare"} : UnlockTo(t, at)
  BY DEF SendCheck
<1>2. pc[t] = "body" /\ call[t].op = "send" /\ io[t].id = 0 /\ UNCHANGED <<call, portVars>>
  BY DEF SendCheck, InOp, At
<1>3. call' = [call EXCEPT ![t] = call[t]]
  BY <1>0, <1>2
<1>4. CallInv(PortOps, FrameSizes, PortPCs)' /\ Others(t) /\ NobodyParks /\ pc'[t] = at
  BY <1>0, <1>1, <1>2, <1>3, PortUnlock
<1>5. UNCHANGED <<ring, closed, io, call>>
  BY <1>2 DEF portVars
<1>6. TaskIo(t)'
  BY <1>0, <1>2, <1>4, <1>5 DEF TaskIo
<1>7. \A p \in Objects : KeepsProducing(t, p) /\ KeepsReceiving(t, p)
  BY <1>2, <1>4, <1>5 DEF KeepsProducing, KeepsReceiving
<1> QED BY <1>2, <1>4, <1>5, <1>6, <1>7, ReadersStill, QuietStep

\* The wait for a readable port: one parks only on a port that is not.
LEMMA PortWait ==
  ASSUME PInv, NEW t \in Tasks, WaitStep(t)
  PROVE  PInv'
<1>0. /\ CallInv(PortOps, FrameSizes, PortPCs) /\ TaskIo(t) /\ TaskFits(t) /\ io[t] \in IoRecords
      /\ call \in [Tasks -> CallRecords(PortOps, FrameSizes)] /\ call[t] \in CallRecords(PortOps, FrameSizes)
      /\ pc \in [Tasks -> PCs \cup PortPCs]
  BY PortFacts
<1>1. pc[t] = "test" /\ UNCHANGED portVars
  BY DEF WaitStep, WaitGranted, WaitCancelled, WaitPark, At
<1>2. UNCHANGED <<ring, closed, io>>
  BY <1>1 DEF portVars
<1>3. call[t].obj \in Objects /\ call[t].op = "readable" /\ io[t].id = 0 /\ io[t].copy = 0
  <2>1. IsWait(t) /\ call[t].op # "wait" /\ call[t].obj \in Objects
    BY <1>0, <1>1, PortFacts DEF TaskFits, CallRecords, PortOps
  <2> QED BY <1>0, <1>1, <2>1 DEF IsWait, TaskIo
<1> SUFFICES ASSUME NEW o \in Objects, o = call[t].obj PROVE PInv'
  BY <1>3
<1>4. CASE \E r \in {"granted", "cancelled"} : Decide(t, r)
  <2>1. PICK r \in {"granted", "cancelled"} : Decide(t, r)
    BY <1>4
  <2>2. r \in Results
    BY DEF Results
  <2>3. CallInv(PortOps, FrameSizes, PortPCs)' /\ Others(t)
    BY <1>0, <1>1, <2>1, <2>2, DecideKeeps
  <2>4. NobodyParks
    BY <1>0, <2>1, <2>2, <2>3, StepParksNobody
  <2>5. pc'[t] = "unlock" /\ call'[t].obj = call[t].obj /\ call'[t].op = call[t].op /\ call'[t].arg = call[t].arg
    BY <1>0, <2>1 DEF Decide, Goto, CallRecords
  <2>6. TaskIo(t)'
    BY <1>0, <1>2, <1>3, <2>5 DEF TaskIo
  <2>7. \A p \in Objects : KeepsProducing(t, p) /\ KeepsReceiving(t, p)
    BY <1>1, <1>2, <2>5 DEF KeepsProducing, KeepsReceiving
  <2> QED BY <1>1, <1>2, <2>3, <2>4, <2>6, <2>7, ReadersStill, QuietStep
<1>5. CASE WaitPark(t, Readable(o))
  <2>1. CallInv(PortOps, FrameSizes, PortPCs)' /\ Others(t)
    BY <1>0, <1>5, WaitParkKeeps
  <2>2. \A u \in Tasks, p \in Objects : ParkedAt(u, p)' => ParkedAt(u, p) \/ p = o
    BY <1>0, <1>5, <2>1, WaitParks
  <2>3. ~Readable(o) /\ UNCHANGED call /\ pc'[t] = "parked"
    BY <1>0, <1>5 DEF WaitPark, Goto
  <2>4. \A p \in Objects : Readable(p)' = Readable(p)
    BY <1>2 DEF Readable
  <2>5. ReadersWoken'
    BY <2>2, <2>3, <2>4 DEF PInv, ReadersWoken
  <2>6. TaskIo(t)'
    BY <1>0, <1>1, <1>2, <1>3, <2>3 DEF TaskIo
  <2>7. \A p \in Objects : KeepsProducing(t, p) /\ KeepsReceiving(t, p)
    BY <1>1, <1>2, <2>3 DEF KeepsProducing, KeepsReceiving
  <2> QED BY <1>1, <2>1, <2>5, <2>6, <2>7, QuietStep
<1> QED BY <1>4, <1>5 DEF WaitStep, WaitGranted, WaitCancelled

\* Deaths, new tasks, kills and closed handles.
LEMMA PortEnvironment ==
  ASSUME PInv, UNCHANGED portVars,
         (\E t \in Tasks : TaskExit(t) \/ TaskCreate(t) \/ Kill(t)) \/ \E o \in Objects : CloseHandle(o)
  PROVE  PInv'
<1>0. CallInv(PortOps, FrameSizes, PortPCs) /\ pc \in [Tasks -> PCs \cup PortPCs] /\ \A t \in Tasks : TaskIo(t)
  BY DEF PInv, CallInv, CallTypeOK
<1>1. Environment
  BY DEF Environment
<1>2. CallInv(PortOps, FrameSizes, PortPCs)' /\ NobodyParks
  BY <1>0, <1>1, SharedKeeps, EnvironmentParksNobody
<1>3. /\ UNCHANGED call
      /\ \A u \in Tasks : pc'[u] = pc[u] \/ (pc[u] \in {"idle", "dead"} /\ pc'[u] \in {"idle", "dead"})
  BY <1>0 DEF TaskExit, TaskCreate, Kill, CloseHandle, callVars, At, Goto
<1>4. UNCHANGED <<ring, closed, io>>
  BY DEF portVars
<1>5. ASSUME NEW u \in Tasks PROVE TaskIo(u)'
  BY <1>0, <1>3, <1>4 DEF TaskIo
<1>6. \A u \in Tasks, o \in Objects : KeepsProducing(u, o) /\ KeepsReceiving(u, o)
  BY <1>3, <1>4 DEF KeepsProducing, KeepsReceiving
<1> QED BY <1>2, <1>4, <1>5, <1>6, ReadersStill, QuietKeeps

-----------------------------------------------------------------------------
(* The steps that move the ring *)

\* A step outside the mutex: only the place in the call changes.
LEMMA PortGoto ==
  ASSUME PInv, NEW t \in Tasks, pc[t] \in PortPCs, NEW at \in {"copyin", "lock", "return"},
         Goto(t, at), UNCHANGED <<schedVars, refcount, handles, call>>
  PROVE  CallInv(PortOps, FrameSizes, PortPCs)' /\ Others(t) /\ NobodyParks /\ pc'[t] = at
<1>0. /\ CallInv(PortOps, FrameSizes, PortPCs) /\ TaskFits(t) /\ call[t].obj \in Objects /\ SchedInv
      /\ pc \in [Tasks -> PCs \cup PortPCs]
  BY PortFacts, CallFacts DEF PortPCs
<1>1. UNCHANGED <<wait, kill_ticket, queue, owner, owned_internal_mutex_count, refcount, handles, call>> /\ pc' = [pc EXCEPT ![t] = at]
  BY DEF schedVars, Goto
<1>2. pc'[t] = at /\ \A u \in Tasks \ {t} : pc'[u] = pc[u] /\ call'[u] = call[u]
  BY <1>0, <1>1
<1>3. ~Blocked(t) /\ \A p \in Objects : owner[p] # t
  BY <1>0, OwnsNothing DEF TaskFits, PortPCs, Holding
<1>4. TaskFits(t)'
  BY <1>0, <1>1, <1>2, <1>3, SchedAssumption DEF TaskFits, Blocked, Holds, Holding, IsWait, PortPCs
<1>5. SchedInv' /\ Others(t)
  BY <1>0, <1>2, SchedStill, StillSpared
<1>6. pc' \in [Tasks -> PCs \cup PortPCs]
  BY <1>0, <1>1 DEF PCs, PortPCs
<1>7. CallInv(PortOps, FrameSizes, PortPCs)'
  BY <1>0, <1>1, <1>4, <1>5, <1>6, NoCallMoves
<1>8. NobodyParks
  BY <1>0, <1>2, <1>5, <1>7, OthersDoNotPark
<1> QED BY <1>2, <1>5, <1>7, <1>8

\* What a task that takes no part leaves alone.
LEMMA BystandersKeep ==
  ASSUME NEW t \in Tasks, Others(t), \A u \in Tasks \ {t} : io'[u] = io[u], NEW o \in Objects
  PROVE  \A u \in Tasks \ {t} : /\ KeepsProducing(u, o) /\ KeepsReceiving(u, o)
                                /\ (Producing(u, o)' <=> Producing(u, o)) /\ (Receiving(u, o)' <=> Receiving(u, o))
BY DEF Others, Spared, KeepsProducing, KeepsReceiving, Producing, Receiving

\* What is stored in the two records of a step.
LEMMA PortUpdates ==
  ASSUME PInv, NEW t \in Tasks, NEW o \in Objects, NEW r, PortRing(r), NEW v \in IoRecords
  PROVE  /\ SetRing(o, r) => /\ ring' \in [Objects -> Rings] /\ ring'[o] = r
                             /\ \A p \in Objects \ {o} : ring'[p] = ring[p]
         /\ SetIo(t, v) => /\ io' \in [Tasks -> IoRecords] /\ io'[t] = v
                           /\ \A u \in Tasks \ {t} : io'[u] = io[u]
BY DEF PInv, SetRing, SetIo, PortRing, RingOK

\* The locals of a call that has nothing in hand.
LEMMA NoIoFacts == NoIo \in IoRecords /\ NoIo.id = 0 /\ NoIo.copy = 0 /\ NoIo.buffer = <<>>
BY DEF NoIo, IoRecords

\* A reservation is made for a send, or the send is refused.
LEMMA PortSendPrepare ==
  ASSUME PInv, NEW t \in Tasks, SendPrepare(t)
  PROVE  PInv'
<1>0. /\ CallInv(PortOps, FrameSizes, PortPCs) /\ TaskIo(t) /\ io[t] \in IoRecords /\ ring \in [Objects -> Rings]
      /\ closed \in [Objects -> BOOLEAN] /\ \A p \in Objects : PortOK(p)
      /\ (pc[t] \notin {"idle", "dead"} => call[t].obj \in Objects)
  BY PortFacts
<1>1. /\ pc[t] = "prepare" /\ UNCHANGED <<schedVars, refcount, handles, call>> /\ UNCHANGED closed
  BY DEF SendPrepare, At
<1>2. call[t].obj \in Objects /\ pc[t] \in PortPCs /\ call[t].op = "send" /\ io[t].id = 0 /\ io[t].copy = 0 /\ call[t].arg \in FrameSizes
  BY <1>0, <1>1 DEF TaskIo, PortPCs
<1> SUFFICES ASSUME NEW o \in Objects, o = call[t].obj PROVE PInv'
  BY <1>2
<1> DEFINE r == ring[o]  size == call[t].arg
<1>3. PortOK(o) /\ PortRing(r)
  BY <1>0 DEF PortOK
<1>4. CASE /\ PrepareStatus(r, size) = "Ok" /\ SetRing(o, Prepared(r, size))
           /\ SetIo(t, [io[t] EXCEPT !.id = r.reservations.next]) /\ Goto(t, "copyin")
  <2> DEFINE s == Prepared(r, size)  v == [io[t] EXCEPT !.id = r.reservations.next]
  <2>1. /\ PortRing(s) /\ SameFrames(r, s) /\ s.receiver = r.receiver /\ r.producer.id = 0
        /\ s.producer.id = r.reservations.next /\ r.reservations.next \in Nat \ {0}
        /\ s.producer.copy_active /\ ~s.producer.abort_requested
    BY <1>2, <1>3, <1>4, PreparedPort
  <2>2. v \in IoRecords /\ v.id = r.reservations.next /\ v.copy = 0 /\ v.buffer = io[t].buffer
    <3>1. r.reservations.next \in Nat
      BY <2>1
    <3> HIDE DEF r
    <3> QED BY <1>0, <1>2, <3>1 DEF IoRecords
  <2> HIDE DEF s, v
  <2>3. /\ ring' \in [Objects -> Rings] /\ ring'[o] = s /\ \A p \in Objects \ {o} : ring'[p] = ring[p]
        /\ io' \in [Tasks -> IoRecords] /\ io'[t] = v /\ \A u \in Tasks \ {t} : io'[u] = io[u]
    BY <1>4, <2>1, <2>2, PortUpdates DEF s, v
  <2>4. CallInv(PortOps, FrameSizes, PortPCs)' /\ Others(t) /\ NobodyParks /\ pc'[t] = "copyin"
    BY <1>1, <1>2, <1>4, PortGoto
  <2>5. TaskIo(t)'
    BY <1>0, <1>1, <1>2, <2>1, <2>2, <2>3, <2>4 DEF TaskIo
  <2>6. ProducerOK(o)'
    <3>1. \A u \in Tasks \ {t} : ~Producing(u, o)
      BY <1>3, <2>1 DEF PortOK, ProducerOK, ProducerFits, Producing
    <3>2. \A u \in Tasks \ {t} : ~Producing(u, o)'
      BY <2>3, <2>4, <3>1, BystandersKeep
    <3>3. Producing(t, o)' /\ ProducerFits(t, o)'
      BY <1>1, <2>1, <2>2, <2>3, <2>4 DEF Producing, ProducerFits
    <3> QED BY <3>2, <3>3 DEF ProducerOK
  <2>7. ReceiverOK(o)'
    <3>1. r.receiver.sequence # 0 => HeadFrame(s) = HeadFrame(r)
      BY <1>3, <2>1, LeasedNotEmpty DEF SameFrames
    <3>2. \A u \in Tasks : KeepsReceiving(u, o)
      <4>1. KeepsReceiving(t, o)
        BY <1>2, <2>2, <2>3 DEF KeepsReceiving, Receiving
      <4> QED BY <2>3, <2>4, <4>1, BystandersKeep
    <3> QED BY <1>3, <2>1, <2>3, <3>1, <3>2, ReceiverKept DEF PortOK
  <2>8. ReadersWoken'
    BY <1>1, <2>1, <2>3, <2>4, ReadersStay DEF Readable, SameFrames
  <2> QED BY <1>0, <1>1, <2>1, <2>3, <2>4, <2>5, <2>6, <2>7, <2>8, StepKeeps
<1>5. CASE Goto(t, "return") /\ UNCHANGED <<ring, io>>
  <2>1. CallInv(PortOps, FrameSizes, PortPCs)' /\ Others(t) /\ NobodyParks /\ pc'[t] = "return"
    BY <1>1, <1>2, <1>5, PortGoto
  <2>2. TaskIo(t)'
    BY <1>0, <1>1, <1>2, <1>5, <2>1 DEF TaskIo
  <2>3. \A p \in Objects : KeepsProducing(t, p) /\ KeepsReceiving(t, p)
    BY <1>1, <1>5, <2>1 DEF KeepsProducing, KeepsReceiving
  <2> QED BY <1>1, <1>5, <2>1, <2>2, <2>3, ReadersStill, QuietStep DEF portVars
<1> QED BY <1>4, <1>5 DEF SendPrepare

\* The copy into the reservation, which nobody else touches.
LEMMA PortSendCopy ==
  ASSUME PInv, NEW t \in Tasks, SendCopy(t)
  PROVE  PInv'
<1>0. /\ CallInv(PortOps, FrameSizes, PortPCs) /\ TaskIo(t) /\ io[t] \in IoRecords /\ ring \in [Objects -> Rings]
      /\ closed \in [Objects -> BOOLEAN] /\ \A p \in Objects : PortOK(p) /\ io \in [Tasks -> IoRecords]
      /\ (pc[t] \notin {"idle", "dead"} => call[t].obj \in Objects)
  BY PortFacts
<1>1. /\ pc[t] = "copyin" /\ UNCHANGED <<schedVars, refcount, handles, call>> /\ UNCHANGED closed /\ UNCHANGED io
      /\ Goto(t, "lock") /\ SetRing(call[t].obj, CopiedIn(ring[call[t].obj]))
  BY DEF SendCopy, At
<1>2. call[t].obj \in Objects /\ pc[t] \in PortPCs /\ call[t].op = "send" /\ io[t].id # 0
  BY <1>0, <1>1 DEF TaskIo, PortPCs
<1> SUFFICES ASSUME NEW o \in Objects, o = call[t].obj PROVE PInv'
  BY <1>2
<1> DEFINE r == ring[o]  s == CopiedIn(r)
<1>3. /\ PortOK(o) /\ PortRing(r) /\ Producing(t, o) /\ io[t].id = r.producer.id /\ ~r.producer.abort_requested
      /\ \A u \in Tasks \ {t} : ~Producing(u, o)
  BY <1>0, <1>2 DEF PortOK, ProducerOK, ProducerFits, Producing
<1>4. /\ PortRing(s) /\ SameFrames(r, s) /\ s.receiver = r.receiver /\ s.producer.id = r.producer.id
      /\ ~s.producer.copy_active /\ ~s.producer.abort_requested
  BY <1>2, <1>3, CopiedInPort
<1> HIDE DEF s
<1>5. ring' \in [Objects -> Rings] /\ ring'[o] = s /\ \A p \in Objects \ {o} : ring'[p] = ring[p]
  BY <1>0, <1>1, <1>4, PortUpdates DEF s
<1>6. CallInv(PortOps, FrameSizes, PortPCs)' /\ Others(t) /\ NobodyParks /\ pc'[t] = "lock"
  BY <1>1, <1>2, PortGoto
<1>7. io' \in [Tasks -> IoRecords] /\ \A u \in Tasks : io'[u] = io[u]
  BY <1>0, <1>1
<1>8. TaskIo(t)'
  BY <1>0, <1>1, <1>2, <1>6 DEF TaskIo
<1>9. ProducerOK(o)'
  <2>1. \A u \in Tasks \ {t} : ~Producing(u, o)'
    BY <1>3, <1>6, <1>7, BystandersKeep
  <2>2. Producing(t, o)' /\ ProducerFits(t, o)'
    BY <1>1, <1>3, <1>4, <1>5, <1>6 DEF Producing, ProducerFits
  <2> QED BY <2>1, <2>2 DEF ProducerOK
<1>10. ReceiverOK(o)'
  <2>1. r.receiver.sequence # 0 => HeadFrame(s) = HeadFrame(r)
    BY <1>3, <1>4, LeasedNotEmpty DEF SameFrames
  <2>2. \A u \in Tasks : KeepsReceiving(u, o)
    <3>1. KeepsReceiving(t, o)
      BY <1>1, <1>6 DEF KeepsReceiving
    <3> QED BY <1>6, <1>7, <3>1, BystandersKeep
  <2> QED BY <1>3, <1>4, <1>5, <2>1, <2>2, ReceiverKept DEF PortOK
<1>11. ReadersWoken'
  BY <1>1, <1>4, <1>5, <1>6, ReadersStay DEF Readable, SameFrames
<1> QED BY <1>0, <1>1, <1>4, <1>5, <1>6, <1>7, <1>8, <1>9, <1>10, <1>11, StepKeeps

\* A broadcast leaves nobody parked.
LEMMA BroadcastEmpties ==
  ASSUME CallInv(PortOps, FrameSizes, PortPCs), NEW o \in Objects, CondvarBroadcast(o), NEW u \in Tasks
  PROVE  ~ParkedAt(u, o)'
<1>1. wait[u] \in WaitRecords
  BY CallFacts
<1>2. wait'[u] = IF wait[u].waiting_on = Cv(o) THEN Woken(wait[u]) ELSE wait[u]
  BY DEF CondvarBroadcast
<1>3. Woken(wait[u]).waiting_on = NULL /\ NULL # Cv(o)
  BY <1>1, WokenFields, QueueNames
<1> HIDE DEF Woken
<1> QED BY <1>2, <1>3 DEF ParkedAt

\* The step of a body that wakes every reader.
LEMMA PortBroadcast ==
  ASSUME PInv, NEW t \in Tasks, pc[t] = "body", NEW o \in Objects, o = call[t].obj, CondvarBroadcast(o), Goto(t, "unlock"),
         UNCHANGED <<refcount, handles>>, NEW c \in CallRecords(PortOps, FrameSizes), call' = [call EXCEPT ![t] = c],
         c.obj = call[t].obj, c.op = call[t].op, c.woke = call[t].woke,
         \A p \in Objects \ {o} : Readable(p)' => Readable(p)
  PROVE  /\ CallInv(PortOps, FrameSizes, PortPCs)' /\ Others(t) /\ ReadersWoken'
         /\ pc'[t] = "unlock" /\ call'[t] = c
<1>0. /\ CallInv(PortOps, FrameSizes, PortPCs) /\ call \in [Tasks -> CallRecords(PortOps, FrameSizes)]
      /\ pc \in [Tasks -> PCs \cup PortPCs]
  BY PortFacts
<1>1. WakesAtMost(o)
  BY <1>0, BodyWakes DEF CallInv
<1>2. pc[t] \in Holding /\ pc' = [pc EXCEPT ![t] = "unlock"]
  BY DEF Holding, Goto
<1>3. CallInv(PortOps, FrameSizes, PortPCs)' /\ Others(t)
  BY <1>0, <1>1, <1>2, BodyKeeps
<1>4. pc'[t] = "unlock" /\ call'[t] = c
  BY <1>0, <1>2
<1>5. NobodyParks
  BY <1>0, <1>3, <1>4, OthersDoNotPark
<1>6. ReadersWoken'
  <2> SUFFICES ASSUME NEW p \in Objects, Readable(p)', NEW u \in Tasks PROVE ~ParkedAt(u, p)'
    BY DEF ReadersWoken
  <2>1. CASE p = o
    BY <1>0, <2>1, BroadcastEmpties
  <2>2. CASE p # o
    BY <1>5, <2>2 DEF PInv, ReadersWoken, NobodyParks
  <2> QED BY <2>1, <2>2
<1> QED BY <1>3, <1>4, <1>6

\* The publication, or the reservation given up.
LEMMA PortSendPublish ==
  ASSUME PInv, NEW t \in Tasks, SendPublish(t)
  PROVE  PInv'
<1>0. /\ CallInv(PortOps, FrameSizes, PortPCs) /\ TaskIo(t) /\ io[t] \in IoRecords /\ ring \in [Objects -> Rings]
      /\ closed \in [Objects -> BOOLEAN] /\ \A p \in Objects : PortOK(p) /\ io \in [Tasks -> IoRecords]
      /\ (pc[t] \notin {"idle", "dead"} => call[t].obj \in Objects)
      /\ call \in [Tasks -> CallRecords(PortOps, FrameSizes)] /\ call[t] \in CallRecords(PortOps, FrameSizes)
  BY PortFacts
<1>1. pc[t] = "body" /\ call[t].op = "send" /\ io[t].id # 0 /\ SetIo(t, NoIo) /\ UNCHANGED closed
  BY DEF SendPublish, InOp, At
<1>2. call[t].obj \in Objects /\ io[t].copy = 0
  BY <1>0, <1>1 DEF TaskIo
<1> SUFFICES ASSUME NEW o \in Objects, o = call[t].obj PROVE PInv'
  BY <1>2
<1> DEFINE r == ring[o]
<1>3. /\ PortOK(o) /\ PortRing(r) /\ io[t].id = r.producer.id /\ ~r.producer.copy_active
      /\ \A u \in Tasks \ {t} : ~Producing(u, o)
  BY <1>0, <1>1, <1>2 DEF PortOK, ProducerOK, ProducerFits, Producing
<1>4. /\ io' \in [Tasks -> IoRecords] /\ io'[t] = NoIo /\ \A u \in Tasks \ {t} : io'[u] = io[u]
      /\ io'[t].id = 0 /\ io'[t].copy = 0 /\ io'[t].buffer = <<>>
  BY <1>1, <1>3, NoIoFacts, PortUpdates
<1> SUFFICES ASSUME NEW s, PortRing(s), SetRing(o, s), s.receiver = r.receiver, s.producer.id = 0,
                    r.queued # 0 => HeadFrame(s) = HeadFrame(r),
                    CallInv(PortOps, FrameSizes, PortPCs)', Others(t), ReadersWoken',
                    call'[t].obj = o, call'[t].op = "send", call'[t].arg = call[t].arg, pc'[t] \in {"unlock", "return"}
             PROVE  PInv'
  <2>1. CASE /\ SetRing(o, Published(r)) /\ CondvarBroadcast(o) /\ Goto(t, "unlock") /\ Concluded(t, "granted")
             /\ UNCHANGED <<refcount, handles>>
    <3> DEFINE s == Published(r)  c == [call[t] EXCEPT !.result = "granted"]
    <3>1. /\ PortRing(s) /\ s.receiver = r.receiver /\ s.producer.id = 0 /\ (r.queued # 0 => HeadFrame(s) = HeadFrame(r))
      BY <1>1, <1>3, PublishedPort
    <3> HIDE DEF s
    <3>2. \A p \in Objects \ {o} : ring'[p] = ring[p]
      BY <1>0, <2>1, <3>1, PortUpdates DEF s
    <3>3. \A p \in Objects \ {o} : Readable(p)' => Readable(p)
      BY <1>1, <3>2 DEF Readable
    <3>4. /\ c \in CallRecords(PortOps, FrameSizes) /\ c.obj = call[t].obj /\ c.op = call[t].op /\ c.woke = call[t].woke
          /\ c.arg = call[t].arg
      <4>1. "granted" \in Results
        BY DEF Results
      <4>2. c.arg = call[t].arg
        BY <1>0 DEF CallRecords
      <4> QED BY <1>0, <4>1, <4>2, ResultUpdate
    <3>5. call' = [call EXCEPT ![t] = c]
      BY <2>1 DEF Concluded
    <3> HIDE DEF c
    <3>6. CallInv(PortOps, FrameSizes, PortPCs)' /\ Others(t) /\ ReadersWoken' /\ pc'[t] = "unlock" /\ call'[t] = c
      BY <1>1, <2>1, <3>3, <3>4, <3>5, PortBroadcast
    <3> QED BY <1>1, <2>1, <3>1, <3>4, <3>6 DEF s
  <2>2. CASE SetRing(o, EnqueueAborted(r, io[t].id)) /\ UnlockTo(t, "return") /\ UNCHANGED call
    <3> DEFINE s == EnqueueAborted(r, io[t].id)
    <3>1. PortRing(s) /\ SameFrames(r, s) /\ s.receiver = r.receiver /\ s.producer.id = 0
      BY <1>1, <1>3, AbortedPort
    <3> HIDE DEF s
    <3>2. ring'[o] = s /\ \A p \in Objects \ {o} : ring'[p] = ring[p]
      BY <1>0, <2>2, <3>1, PortUpdates DEF s
    <3>3. call' = [call EXCEPT ![t] = call[t]]
      BY <1>0, <2>2
    <3>4. CallInv(PortOps, FrameSizes, PortPCs)' /\ Others(t) /\ NobodyParks /\ pc'[t] = "return"
      BY <1>0, <1>1, <2>2, <3>3, PortUnlock
    <3>5. ReadersWoken'
      BY <1>1, <3>1, <3>2, <3>4, ReadersStay DEF Readable, SameFrames
    <3>6. r.queued # 0 => HeadFrame(s) = HeadFrame(r)
      BY <3>1 DEF SameFrames
    <3> QED BY <1>1, <2>2, <3>1, <3>4, <3>5, <3>6 DEF s
  <2> QED BY <2>1, <2>2 DEF SendPublish
<1>5. ring' \in [Objects -> Rings] /\ ring'[o] = s /\ \A p \in Objects \ {o} : ring'[p] = ring[p]
  BY <1>0, PortUpdates
<1>6. TaskIo(t)'
  BY <1>0, <1>1, <1>4 DEF TaskIo
<1>7. ProducerOK(o)'
  <2>1. \A u \in Tasks : ~Producing(u, o)'
    <3>1. ~Producing(t, o)'
      BY <1>4 DEF Producing
    <3> QED BY <1>3, <1>4, <3>1, BystandersKeep
  <2> QED BY <1>5, <2>1 DEF ProducerOK
<1>8. ReceiverOK(o)'
  <2>1. r.receiver.sequence # 0 => HeadFrame(s) = HeadFrame(r)
    BY <1>3, LeasedNotEmpty
  <2>2. \A u \in Tasks : KeepsReceiving(u, o)
    <3>1. KeepsReceiving(t, o)
      BY <1>2, <1>4 DEF KeepsReceiving, Receiving
    <3> QED BY <1>4, <3>1, BystandersKeep
  <2> QED BY <1>3, <1>5, <2>1, <2>2, ReceiverKept DEF PortOK
<1> QED BY <1>0, <1>1, <1>4, <1>5, <1>6, <1>7, <1>8, StepKeeps

\* A lease taken with its copy begun, a lease given back at once, or none.
LEMMA PortReceiveLease ==
  ASSUME PInv, NEW t \in Tasks, ReceiveLease(t)
  PROVE  PInv'
<1>0. /\ CallInv(PortOps, FrameSizes, PortPCs) /\ TaskIo(t) /\ io[t] \in IoRecords /\ ring \in [Objects -> Rings]
      /\ closed \in [Objects -> BOOLEAN] /\ \A p \in Objects : PortOK(p) /\ io \in [Tasks -> IoRecords]
      /\ (pc[t] \notin {"idle", "dead"} => call[t].obj \in Objects)
      /\ call \in [Tasks -> CallRecords(PortOps, FrameSizes)] /\ call[t] \in CallRecords(PortOps, FrameSizes)
  BY PortFacts
<1>1. pc[t] = "body" /\ call[t].op = "receive" /\ io[t].copy = 0 /\ UNCHANGED <<call, closed>>
  BY DEF ReceiveLease, InOp, At
<1>2. call[t].obj \in Objects /\ io[t].id = 0 /\ io[t].buffer = <<>> /\ call[t].result # "granted"
  BY <1>0, <1>1 DEF TaskIo
<1> SUFFICES ASSUME NEW o \in Objects, o = call[t].obj PROVE PInv'
  BY <1>2
<1> DEFINE r == ring[o]
           q == Peeked(r)
           view == [sequence |-> q.receiver.sequence, lease |-> q.receiver.lease]
<1>3. PortOK(o) /\ PortRing(r) /\ call' = [call EXCEPT ![t] = call[t]]
  BY <1>0, <1>1 DEF PortOK
<1>4. ASSUME NEW at \in {"return", "copyout"}, UnlockTo(t, at)
      PROVE  CallInv(PortOps, FrameSizes, PortPCs)' /\ Others(t) /\ NobodyParks /\ pc'[t] = at
  BY <1>0, <1>1, <1>3, <1>4, PortUnlock
<1>5. CASE UnlockTo(t, "return") /\ UNCHANGED <<ring, io>>
  <2>1. CallInv(PortOps, FrameSizes, PortPCs)' /\ Others(t) /\ NobodyParks /\ pc'[t] = "return"
    BY <1>4, <1>5
  <2>2. TaskIo(t)'
    BY <1>0, <1>1, <1>2, <1>5, <2>1 DEF TaskIo
  <2>3. \A p \in Objects : KeepsProducing(t, p) /\ KeepsReceiving(t, p)
    BY <1>1, <1>5, <2>1 DEF KeepsProducing, KeepsReceiving
  <2> QED BY <1>1, <1>5, <2>1, <2>2, <2>3, ReadersStill, QuietStep DEF portVars
<1>6. CASE PeekStatus(r) = "Ok" /\ SetRing(o, ReceiveCancelled(q, view)) /\ UnlockTo(t, "return") /\ UNCHANGED io
  <2> DEFINE s == ReceiveCancelled(q, view)
  <2>1. HoldsLease(q, view)
    BY DEF HoldsLease
  <2>2. PortRing(s) /\ SameFrames(r, s) /\ s.producer = r.producer /\ s.receiver = NoReceiver /\ r.receiver.sequence = 0
    BY <1>3, <1>6, <2>1, DeclinedPort
  <2>3. ring' \in [Objects -> Rings] /\ ring'[o] = s /\ \A p \in Objects \ {o} : ring'[p] = ring[p]
    <3>1. SetRing(o, s)
      BY <1>6
    <3> HIDE DEF s
    <3> QED BY <2>2, <3>1, NoIoFacts, PortUpdates
  <2> HIDE DEF s
  <2>4. CallInv(PortOps, FrameSizes, PortPCs)' /\ Others(t) /\ NobodyParks /\ pc'[t] = "return"
    BY <1>4, <1>6
  <2>5. TaskIo(t)'
    BY <1>0, <1>1, <1>2, <1>6, <2>4 DEF TaskIo
  <2>6. io' \in [Tasks -> IoRecords] /\ \A u \in Tasks : io'[u] = io[u]
    BY <1>0, <1>6
  <2>7. ProducerOK(o)'
    <3>1. KeepsProducing(t, o)
      BY <1>1, <2>4, <2>6 DEF KeepsProducing
    <3>2. \A u \in Tasks : KeepsProducing(u, o)
      BY <2>4, <2>6, <3>1, BystandersKeep
    <3> QED BY <1>3, <2>2, <2>3, <3>2, ProducerKept DEF PortOK
  <2>8. ReceiverOK(o)'
    <3>1. \A u \in Tasks : ~Receiving(u, o)
      BY <1>3, <2>2 DEF PortOK, ReceiverOK, ReceiverFits
    <3>2. \A u \in Tasks : ~Receiving(u, o)'
      BY <1>1, <2>4, <2>6, <3>1, BystandersKeep DEF Receiving
    <3>3. ring'[o].receiver.sequence = 0
      BY <2>2, <2>3 DEF NoReceiver
    <3> QED BY <3>2, <3>3 DEF ReceiverOK
  <2>9. ReadersWoken'
    BY <1>1, <2>2, <2>3, <2>4, ReadersStay DEF Readable, SameFrames
  <2> QED BY <1>0, <1>1, <2>2, <2>3, <2>4, <2>5, <2>6, <2>7, <2>8, <2>9, StepKeeps
<1>7. CASE /\ PeekStatus(r) = "Ok" /\ SetRing(o, CopyBegun(q)) /\ UnlockTo(t, "copyout")
           /\ SetIo(t, [NoIo EXCEPT !.view = view, !.copy = q.copies.next])
  <2> DEFINE s == CopyBegun(q)
             v == [NoIo EXCEPT !.view = view, !.copy = q.copies.next]
  <2>1. /\ PortRing(s) /\ SameFrames(r, s) /\ s.producer = r.producer /\ r.receiver.sequence = 0
        /\ s.receiver.sequence = q.receiver.sequence /\ s.receiver.lease = q.receiver.lease
        /\ s.receiver.sequence \in Nat \ {0} /\ s.receiver.lease \in Nat
        /\ s.receiver.copy = q.copies.next /\ q.copies.next \in Nat \ {0}
    BY <1>3, <1>7, LeasedPort
  <2>2. v \in IoRecords /\ v.id = 0 /\ v.copy = q.copies.next /\ v.buffer = <<>> /\ v.view = view
    <3>1. q.receiver.sequence \in Nat /\ q.receiver.lease \in Nat /\ q.copies.next \in Nat
      BY <2>1
    <3>2. view \in [sequence: Nat, lease: Nat]
      BY <3>1
    <3> HIDE DEF q, view
    <3>3. v \in IoRecords
      BY <3>1, <3>2, NoIoFacts DEF IoRecords
    <3>4. v.id = 0 /\ v.copy = q.copies.next /\ v.buffer = <<>> /\ v.view = view
      BY DEF NoIo
    <3> QED BY <3>3, <3>4
  <2>3. HoldsLease(s, v.view) /\ s.receiver.copy = v.copy /\ s.receiver.sequence # 0 /\ v.copy # 0
    <3>1. v.view.sequence = q.receiver.sequence /\ v.view.lease = q.receiver.lease
      BY <2>2
    <3> HIDE DEF s, v, q
    <3> QED BY <2>1, <2>2, <3>1 DEF HoldsLease
  <2>4. /\ ring' \in [Objects -> Rings] /\ ring'[o] = s /\ \A p \in Objects \ {o} : ring'[p] = ring[p]
        /\ io' \in [Tasks -> IoRecords] /\ io'[t] = v /\ \A u \in Tasks \ {t} : io'[u] = io[u]
    <3>1. SetRing(o, s) /\ SetIo(t, v)
      BY <1>7
    <3> HIDE DEF s, v
    <3> QED BY <2>1, <2>2, <3>1, PortUpdates
  <2> HIDE DEF s, v
  <2>5. CallInv(PortOps, FrameSizes, PortPCs)' /\ Others(t) /\ NobodyParks /\ pc'[t] = "copyout"
    BY <1>4, <1>7
  <2>6. TaskIo(t)'
    BY <1>0, <1>1, <1>2, <2>2, <2>3, <2>4, <2>5 DEF TaskIo
  <2>7. ProducerOK(o)'
    <3>1. KeepsProducing(t, o)
      BY <1>2, <2>2, <2>4 DEF KeepsProducing, Producing
    <3>2. \A u \in Tasks : KeepsProducing(u, o)
      BY <2>4, <2>5, <3>1, BystandersKeep
    <3> QED BY <1>3, <2>1, <2>4, <3>2, ProducerKept DEF PortOK
  <2>8. ReceiverOK(o)'
    <3>1. \A u \in Tasks : ~Receiving(u, o)
      BY <1>3, <2>1 DEF PortOK, ReceiverOK, ReceiverFits
    <3>2. \A u \in Tasks \ {t} : ~Receiving(u, o)'
      BY <2>4, <2>5, <3>1, BystandersKeep
    <3>3. Receiving(t, o)'
      BY <1>1, <2>3, <2>4 DEF Receiving
    <3>4. ReceiverFits(t, o)'
      BY <2>3, <2>4, <2>5 DEF ReceiverFits, HoldsLease
    <3> QED BY <3>2, <3>3, <3>4 DEF ReceiverOK
  <2>9. ReadersWoken'
    BY <1>1, <2>1, <2>4, <2>5, ReadersStay DEF Readable, SameFrames
  <2> QED BY <1>0, <1>1, <2>1, <2>4, <2>5, <2>6, <2>7, <2>8, <2>9, StepKeeps
<1> QED BY <1>5, <1>6, <1>7 DEF ReceiveLease

\* The copy of the leased frame: nobody moves the head meanwhile.
LEMMA PortReceiveCopy ==
  ASSUME PInv, NEW t \in Tasks, ReceiveCopy(t)
  PROVE  PInv'
<1>0. /\ CallInv(PortOps, FrameSizes, PortPCs) /\ TaskIo(t) /\ io[t] \in IoRecords /\ ring \in [Objects -> Rings]
      /\ closed \in [Objects -> BOOLEAN] /\ \A p \in Objects : PortOK(p)
      /\ (pc[t] \notin {"idle", "dead"} => call[t].obj \in Objects)
  BY PortFacts
<1>1. /\ pc[t] = "copyout" /\ UNCHANGED <<schedVars, refcount, handles, call>> /\ UNCHANGED <<ring, closed>>
      /\ Goto(t, "lock")
  BY DEF ReceiveCopy, At
<1>2. call[t].obj \in Objects /\ pc[t] \in PortPCs /\ call[t].op = "receive" /\ io[t].copy # 0 /\ io[t].id = 0
  BY <1>0, <1>1 DEF TaskIo, PortPCs
<1> SUFFICES ASSUME NEW o \in Objects, o = call[t].obj PROVE PInv'
  BY <1>2
<1> DEFINE r == ring[o]  b == HeadFrame(r)  v == [io[t] EXCEPT !.buffer = b]
<1>3. /\ PortOK(o) /\ PortRing(r) /\ Receiving(t, o) /\ ReceiverFits(t, o) /\ r.receiver.sequence # 0
      /\ \A u \in Tasks \ {t} : ~Receiving(u, o)
  BY <1>0, <1>2 DEF PortOK, ReceiverOK, ReceiverFits, Receiving
<1>4. b \in Seq(Units)
  BY <1>3, LeasedNotEmpty, HeadFrameType DEF PortRing
<1>5. SetIo(t, v)
  BY DEF ReceiveCopy, HeadFrame
<1> HIDE DEF b
<1>6. v \in IoRecords /\ v.buffer = b /\ v.id = io[t].id /\ v.copy = io[t].copy /\ v.view = io[t].view
  BY <1>0, <1>4 DEF IoRecords
<1> HIDE DEF v
<1>7. io' \in [Tasks -> IoRecords] /\ io'[t] = v /\ \A u \in Tasks \ {t} : io'[u] = io[u]
  BY <1>3, <1>5, <1>6, PortUpdates
<1>8. CallInv(PortOps, FrameSizes, PortPCs)' /\ Others(t) /\ NobodyParks /\ pc'[t] = "lock"
  BY <1>1, <1>2, PortGoto
<1>9. TaskIo(t)'
  BY <1>0, <1>1, <1>2, <1>6, <1>7, <1>8 DEF TaskIo
<1>10. ProducerOK(o)'
  <2>1. KeepsProducing(t, o)
    BY <1>2, <1>6, <1>7 DEF KeepsProducing, Producing
  <2>2. \A u \in Tasks : KeepsProducing(u, o)
    BY <1>7, <1>8, <2>1, BystandersKeep
  <2> QED BY <1>1, <1>3, <2>2, ProducerKept DEF PortOK
<1>11. ReceiverOK(o)'
  <2>1. \A u \in Tasks \ {t} : ~Receiving(u, o)'
    BY <1>3, <1>7, <1>8, BystandersKeep
  <2>2. Receiving(t, o)'
    BY <1>1, <1>2, <1>6, <1>7 DEF Receiving
  <2>3. ring'[o] = r /\ HeadFrame(ring[o])' = b
    BY <1>1 DEF b, HeadFrame, HeadHeader, Loaded, AdvanceOffset
  <2>4. ReceiverFits(t, o)'
    BY <1>3, <1>6, <1>7, <2>3 DEF ReceiverFits, HoldsLease
  <2> QED BY <2>1, <2>2, <2>4 DEF ReceiverOK
<1>12. ReadersWoken'
  BY <1>1, <1>8, ReadersStill
<1> QED BY <1>0, <1>1, <1>3, <1>7, <1>8, <1>9, <1>10, <1>11, <1>12, StepKeeps

\* What a commit finds: its own lease and copy, and the frame it copied at the head.
LEMMA CommitFinds ==
  ASSUME PInv, NEW t \in Tasks, NEW o \in Objects, o = call[t].obj, pc[t] = "body", io[t].copy # 0
  PROVE  /\ PortRing(ring[o]) /\ ring[o].receiver.sequence # 0 /\ HoldsLease(ring[o], io[t].view)
         /\ io[t].copy \in Nat \ {0} /\ ring[o].receiver.copy = io[t].copy /\ io[t].buffer = HeadFrame(ring[o])
         /\ \A u \in Tasks \ {t} : ~Receiving(u, o)
<1>1. PortOK(o) /\ io[t] \in IoRecords /\ Receiving(t, o)
  BY DEF PInv, Receiving
<1>2. ReceiverFits(t, o) /\ \A u \in Tasks \ {t} : ~Receiving(u, o)
  BY <1>1 DEF PortOK, ReceiverOK
<1>3. io[t].copy \in Nat
  BY <1>1 DEF IoRecords
<1> QED BY <1>1, <1>2, <1>3 DEF PortOK, ReceiverFits

\* The commit, or the lease given back on a closed port.
LEMMA PortReceiveCommit ==
  ASSUME PInv, NEW t \in Tasks, ReceiveCommit(t)
  PROVE  PInv'
<1>0. /\ CallInv(PortOps, FrameSizes, PortPCs) /\ TaskIo(t) /\ io[t] \in IoRecords /\ ring \in [Objects -> Rings]
      /\ closed \in [Objects -> BOOLEAN] /\ \A p \in Objects : PortOK(p)
      /\ (pc[t] \notin {"idle", "dead"} => call[t].obj \in Objects)
      /\ call \in [Tasks -> CallRecords(PortOps, FrameSizes)] /\ call[t] \in CallRecords(PortOps, FrameSizes)
  BY PortFacts
<1>1. pc[t] = "body" /\ call[t].op = "receive" /\ io[t].copy # 0 /\ UNCHANGED closed /\ UnlockTo(t, "return")
  BY DEF ReceiveCommit, InOp, At
<1>2. call[t].obj \in Objects /\ io[t].id = 0
  BY <1>0, <1>1 DEF TaskIo
<1> SUFFICES ASSUME NEW o \in Objects, o = call[t].obj PROVE PInv'
  BY <1>2
<1> DEFINE r == ring[o]
           s == IF closed[o] THEN GivenBack(r, io[t].view, io[t].copy) ELSE CommittedOr(r, io[t].view, io[t].copy)
           ok == ~closed[o] /\ CommitSucceeds(r, io[t].view, io[t].copy)
           b == IF ok THEN io[t].buffer ELSE <<>>
           v == [NoIo EXCEPT !.buffer = b]
           result == IF ok THEN "granted" ELSE "none"
           c == [call[t] EXCEPT !.result = result]
<1>3. /\ PortRing(r) /\ r.receiver.sequence # 0 /\ HoldsLease(r, io[t].view) /\ io[t].copy \in Nat \ {0}
      /\ r.receiver.copy = io[t].copy /\ \A u \in Tasks \ {t} : ~Receiving(u, o)
  BY <1>1, CommitFinds
<1>4. PortRing(s) /\ s.producer = r.producer /\ s.receiver = NoReceiver /\ (s.queued # 0 => r.queued # 0)
  <2>1. CASE closed[o]
    BY <1>3, <2>1, GivenBackPort DEF SameFrames
  <2>2. CASE ~closed[o]
    BY <1>3, <2>2, CommittedPort
  <2> QED BY <2>1, <2>2
<1>5. SetRing(o, s) /\ SetIo(t, v) /\ call' = [call EXCEPT ![t] = c]
  BY DEF ReceiveCommit, Concluded
<1>6. v \in IoRecords /\ v.id = 0 /\ v.copy = 0 /\ v.buffer = b
  <2>1. b \in Seq(Units)
    BY <1>0 DEF IoRecords
  <2> HIDE DEF b
  <2> QED BY <2>1, NoIoFacts DEF IoRecords
<1>7. /\ c \in CallRecords(PortOps, FrameSizes) /\ c.obj = call[t].obj /\ c.op = call[t].op /\ c.woke = call[t].woke
      /\ c.arg = call[t].arg /\ c.result = result
  <2>1. result \in Results
    BY DEF Results
  <2> HIDE DEF result
  <2>2. c.arg = call[t].arg
    BY <1>0 DEF CallRecords
  <2> QED BY <1>0, <2>1, <2>2, ResultUpdate
<1>8. (v.buffer # <<>> => c.result = "granted")
  BY <1>6, <1>7
<1> HIDE DEF s, v, c, b, ok, result
<1>9. /\ ring' \in [Objects -> Rings] /\ ring'[o] = s /\ \A p \in Objects \ {o} : ring'[p] = ring[p]
      /\ io' \in [Tasks -> IoRecords] /\ io'[t] = v /\ \A u \in Tasks \ {t} : io'[u] = io[u]
  BY <1>4, <1>5, <1>6, PortUpdates
<1>10. CallInv(PortOps, FrameSizes, PortPCs)' /\ Others(t) /\ NobodyParks /\ pc'[t] = "return" /\ call'[t] = c
  BY <1>1, <1>5, <1>7, PortUnlock
<1>11. TaskIo(t)'
  BY <1>0, <1>1, <1>6, <1>7, <1>8, <1>9, <1>10 DEF TaskIo
<1>12. ProducerOK(o)'
  <2>1. KeepsProducing(t, o)
    BY <1>2, <1>6, <1>9 DEF KeepsProducing, Producing
  <2>2. \A u \in Tasks : KeepsProducing(u, o)
    BY <1>9, <1>10, <2>1, BystandersKeep
  <2> QED BY <1>0, <1>4, <1>9, <2>2, ProducerKept DEF PortOK
<1>13. ReceiverOK(o)'
  <2>1. \A u \in Tasks : ~Receiving(u, o)'
    <3>1. ~Receiving(t, o)'
      BY <1>6, <1>9 DEF Receiving
    <3> QED BY <1>3, <1>9, <1>10, <3>1, BystandersKeep
  <2>2. ring'[o].receiver.sequence = 0
    BY <1>4, <1>9 DEF NoReceiver
  <2> QED BY <2>1, <2>2 DEF ReceiverOK
<1>14. ReadersWoken'
  BY <1>1, <1>4, <1>9, <1>10, ReadersStay DEF Readable
<1> QED BY <1>0, <1>1, <1>4, <1>7, <1>9, <1>10, <1>11, <1>12, <1>13, <1>14, StepKeeps

\* The close wakes everybody.
LEMMA PortClose ==
  ASSUME PInv, NEW t \in Tasks, CloseBody(t)
  PROVE  PInv'
<1>0. /\ CallInv(PortOps, FrameSizes, PortPCs) /\ TaskIo(t) /\ io[t] \in IoRecords /\ ring \in [Objects -> Rings]
      /\ closed \in [Objects -> BOOLEAN] /\ \A p \in Objects : PortOK(p) /\ io \in [Tasks -> IoRecords]
      /\ (pc[t] \notin {"idle", "dead"} => call[t].obj \in Objects)
      /\ call \in [Tasks -> CallRecords(PortOps, FrameSizes)] /\ call[t] \in CallRecords(PortOps, FrameSizes)
  BY PortFacts
<1>1. /\ pc[t] = "body" /\ call[t].op = "close" /\ UNCHANGED <<refcount, handles>> /\ UNCHANGED call /\ UNCHANGED <<ring, io>>
      /\ Goto(t, "unlock") /\ closed' = [closed EXCEPT ![call[t].obj] = TRUE] /\ CondvarBroadcast(call[t].obj)
  BY DEF CloseBody, BodyDone, At, CloseWakes
<1>2. call[t].obj \in Objects /\ io[t].id = 0 /\ io[t].copy = 0
  BY <1>0, <1>1 DEF TaskIo
<1> SUFFICES ASSUME NEW o \in Objects, o = call[t].obj PROVE PInv'
  BY <1>2
<1>3. closed' \in [Objects -> BOOLEAN] /\ \A p \in Objects \ {o} : closed'[p] = closed[p]
  BY <1>0, <1>1
<1>4. call' = [call EXCEPT ![t] = call[t]] /\ \A p \in Objects \ {o} : Readable(p)' => Readable(p)
  BY <1>0, <1>1, <1>3 DEF Readable
<1>5. CallInv(PortOps, FrameSizes, PortPCs)' /\ Others(t) /\ ReadersWoken' /\ pc'[t] = "unlock"
  BY <1>0, <1>1, <1>4, PortBroadcast
<1>6. TaskIo(t)'
  BY <1>0, <1>1, <1>2, <1>5 DEF TaskIo
<1>7. io' \in [Tasks -> IoRecords] /\ \A u \in Tasks : io'[u] = io[u]
  BY <1>0, <1>1
<1>8. \A u \in Tasks : KeepsProducing(u, o) /\ KeepsReceiving(u, o)
  <2>1. KeepsProducing(t, o) /\ KeepsReceiving(t, o)
    BY <1>1, <1>5, <1>7 DEF KeepsProducing, KeepsReceiving
  <2> QED BY <1>5, <1>7, <2>1, BystandersKeep
<1>9. PortOK(o) /\ ring'[o] = ring[o]
  BY <1>0, <1>1
<1>10. ProducerOK(o)' /\ ReceiverOK(o)'
  BY <1>8, <1>9, ProducerKept, ReceiverKept DEF PortOK
<1>11. PortRing(ring'[o])
  BY <1>9 DEF PortOK
<1> QED BY <1>0, <1>1, <1>3, <1>5, <1>6, <1>7, <1>10, <1>11, StepKeeps

\* The return.
LEMMA PortLeave ==
  ASSUME PInv, NEW t \in Tasks, Leave(t)
  PROVE  PInv'
<1>0. /\ CallInv(PortOps, FrameSizes, PortPCs) /\ TaskIo(t) /\ io[t] \in IoRecords /\ ring \in [Objects -> Rings]
      /\ closed \in [Objects -> BOOLEAN] /\ \A p \in Objects : PortOK(p)
      /\ (pc[t] \notin {"idle", "dead"} => call[t].obj \in Objects)
      /\ call \in [Tasks -> CallRecords(PortOps, FrameSizes)] /\ pc \in [Tasks -> PCs \cup PortPCs]
  BY PortFacts
<1>1. ReturnFromCall(t) /\ SetIo(t, NoIo) /\ UNCHANGED <<ring, closed>>
  BY DEF Leave
<1>2. pc[t] = "return" /\ pc'[t] = "idle" /\ call'[t] = NoCall
  BY <1>0, <1>1 DEF ReturnFromCall, At, Goto
<1>3. call[t].obj \in Objects /\ io[t].id = 0 /\ io[t].copy = 0
  BY <1>0, <1>2 DEF TaskIo
<1> SUFFICES ASSUME NEW o \in Objects, o = call[t].obj PROVE PInv'
  BY <1>3
<1>4. CallInv(PortOps, FrameSizes, PortPCs)' /\ Others(t)
  BY <1>0, <1>1, ReturnKeeps
<1>5. NobodyParks
  BY <1>0, <1>1, <1>4, StepParksNobody DEF CallStep
<1>6. PortOK(o) /\ ring'[o] = ring[o] /\ PortRing(ring'[o])
  BY <1>0, <1>1 DEF PortOK
<1>7. io' \in [Tasks -> IoRecords] /\ io'[t] = NoIo /\ \A u \in Tasks \ {t} : io'[u] = io[u]
  BY <1>1, <1>6, NoIoFacts, PortUpdates
<1>8. TaskIo(t)'
  BY <1>2, <1>7, NoIoFacts DEF TaskIo, NoCall
<1>9. \A u \in Tasks : KeepsProducing(u, o) /\ KeepsReceiving(u, o)
  <2>1. KeepsProducing(t, o) /\ KeepsReceiving(t, o)
    BY <1>3, <1>7, NoIoFacts DEF KeepsProducing, KeepsReceiving, Producing, Receiving
  <2> QED BY <1>4, <1>7, <2>1, BystandersKeep
<1>10. ProducerOK(o)' /\ ReceiverOK(o)'
  BY <1>6, <1>9, ProducerKept, ReceiverKept DEF PortOK
<1>11. ReadersWoken'
  BY <1>1, <1>5, ReadersStill
<1>12. call'[t].obj \in {o, NULL}
  BY <1>2 DEF NoCall
<1> QED BY <1>0, <1>1, <1>4, <1>6, <1>7, <1>8, <1>10, <1>11, <1>12, StepKeeps

-----------------------------------------------------------------------------
(* The invariant *)

\* A new port is sound, and nobody has anything in hand.
LEMMA PInvInit == Init => PInv
<1> SUFFICES ASSUME Init PROVE PInv
  OBVIOUS
<1>1. CallInit /\ ring = [o \in Objects |-> EmptyRing] /\ closed = [o \in Objects |-> FALSE] /\ io = [t \in Tasks |-> NoIo]
  BY DEF Init
<1>2. CallInv(PortOps, FrameSizes, PortPCs)
  BY <1>1, CallInvInit
<1>3. RingOK(EmptyRing) /\ EmptyRing \in Rings /\ EmptyRing.producer.id = 0 /\ EmptyRing.receiver.sequence = 0
  BY EmptyRingOK DEF RingOK, EmptyRing, NoProducer, NoReceiver
<1>4. PortRing(EmptyRing)
  BY <1>3 DEF PortRing, ReservationOK
<1>5. /\ ring \in [Objects -> Rings] /\ closed \in [Objects -> BOOLEAN] /\ io \in [Tasks -> IoRecords]
      /\ \A t \in Tasks : io[t].id = 0 /\ io[t].copy = 0 /\ io[t].buffer = <<>>
  BY <1>1, <1>3, NoIoFacts
<1>6. ASSUME NEW t \in Tasks PROVE TaskIo(t)
  <2>1. pc[t] = "idle" /\ call[t].op = "none" /\ call[t].result = "none"
    BY <1>1 DEF CallInit, NoCall
  <2> QED BY <1>5, <2>1 DEF TaskIo
<1>7. ASSUME NEW o \in Objects PROVE PortOK(o)
  <2>1. PortRing(ring[o]) /\ ring[o].producer.id = 0 /\ ring[o].receiver.sequence = 0
    BY <1>1, <1>3, <1>4
  <2> QED BY <1>5, <2>1 DEF PortOK, ProducerOK, ReceiverOK, Producing, Receiving
<1>8. ReadersWoken
  <2>1. \A o \in Objects : queue[Cv(o)] = <<>>
    BY <1>1, QueueNames DEF CallInit, SchedInit
  <2> QED BY <1>2, <2>1, EmptyQueue DEF CallInv, ReadersWoken
<1> QED BY <1>2, <1>5, <1>6, <1>7, <1>8 DEF PInv

\* A step that changes nothing.
LEMMA PortStutter ==
  ASSUME PInv, UNCHANGED vars
  PROVE  PInv'
<1>1. /\ UNCHANGED <<wait, kill_ticket, queue, owner, owned_internal_mutex_count, refcount, handles, pc, call>>
      /\ UNCHANGED portVars /\ UNCHANGED <<ring, closed, io>>
  BY DEF vars, schedVars, callVars, portVars
<1>2. SchedTypeOK' /\ SchedInv'
  BY <1>1, SchedStill DEF PInv, CallInv, SchedInv, schedVars
<1>3. CallTypeOK(PortOps, FrameSizes, PortPCs)' /\ TasksFit' /\ NobodyParks
  BY <1>1, <1>2 DEF PInv, CallInv, CallTypeOK, TasksFit, TaskFits, Blocked, Holds, IsWait, NobodyParks, ParkedAt
<1>4. ReferencesOK'
  BY <1>1 DEF PInv, CallInv, ReferencesOK, Count, CallOn, WaitOn
<1>5. CallInv(PortOps, FrameSizes, PortPCs)'
  BY <1>2, <1>3, <1>4 DEF CallInv
<1>6. \A u \in Tasks : TaskIo(u)'
  BY <1>1 DEF PInv, TaskIo
<1>7. \A u \in Tasks, o \in Objects : KeepsProducing(u, o) /\ KeepsReceiving(u, o)
  BY <1>1 DEF KeepsProducing, KeepsReceiving
<1> QED BY <1>1, <1>3, <1>5, <1>6, <1>7, ReadersStill, QuietKeeps

\* Every step keeps the invariant.
LEMMA PInvNext == PInv /\ [Next]_vars => PInv'
<1> SUFFICES ASSUME PInv, [Next]_vars PROVE PInv'
  OBVIOUS
<1>0. Workers \subseteq Tasks /\ Mortals \subseteq Tasks
  BY KMessagePortAssumption
<1>1. ASSUME NEW t \in Tasks, NEW o \in Objects,
             KMessagePortSend(t, o) \/ KMessagePortTryReceive(t, o) \/ KMessagePortWaitReadable(t, o)
      PROVE  PInv'
  <2>1. CASE KMessagePortSend(t, o)
    BY <2>1, PortEnter DEF KMessagePortSend
  <2>2. CASE KMessagePortTryReceive(t, o)
    BY <2>2, PortEnter DEF KMessagePortTryReceive
  <2>3. CASE KMessagePortWaitReadable(t, o)
    BY <2>3, PortEnter DEF KMessagePortWaitReadable
  <2> QED BY <1>1, <2>1, <2>2, <2>3
<1>2. ASSUME NEW t \in Tasks, NEW o \in Objects, KMessagePortClose(t, o) PROVE PInv'
  BY <1>2, PortCloseEnter
<1>3. ASSUME NEW t \in Tasks, Step(t) PROVE PInv'
  BY <1>3, PortLocking, PortSendCheck, PortSendPrepare, PortSendCopy, PortSendPublish, PortReceiveLease,
     PortReceiveCopy, PortReceiveCommit, PortWait, PortClose, PortLeave DEF Step
<1>4. CASE \E t \in Mortals : (TaskExit(t) \/ TaskCreate(t) \/ Kill(t)) /\ UNCHANGED portVars
  BY <1>0, <1>4, PortEnvironment
<1>5. CASE \E o \in Objects : CloseHandle(o) /\ UNCHANGED portVars
  BY <1>5, PortEnvironment
<1>6. CASE UNCHANGED vars
  BY <1>6, PortStutter
<1> QED BY <1>0, <1>1, <1>2, <1>3, <1>4, <1>5, <1>6 DEF Next

(* The inductive invariant: the shared one of calls and mutexes, rings     *)
(* whose records tile their used cells, the reservation and the lease of a *)
(* port each with the one call that will end it, what a receive has copied *)
(* equal to the frame at the head, and nobody parked on a readable port.   *)
THEOREM PortInductive == Spec => []PInv
BY PInvInit, PInvNext, PTL DEF Spec

(* No operation of the ring ever meets corrupt state: its bookkeeping is   *)
(* valid and the record at its head is readable, for every capacity and    *)
(* frame size, through wrap-around, aborts and concurrent copies.          *)
THEOREM PortRingNeverCorrupt == Spec => []RingNeverCorrupt
<1>1. PInv => RingNeverCorrupt
  <2> SUFFICES ASSUME PInv, NEW o \in Objects PROVE StateIsValid(ring[o]) /\ HeadIsReadable(ring[o])
    BY DEF RingNeverCorrupt
  <2>1. RingOK(ring[o])
    BY DEF PInv, PortOK, PortRing
  <2>2. StateIsValid(ring[o])
    BY <2>1 DEF RingOK
  <2>3. ring[o].queued # 0 => HeadIsReadable(ring[o])
    BY <2>1, HeadReadable DEF HeadIsReadable
  <2>4. ring[o].queued = 0 => HeadIsReadable(ring[o])
    BY DEF HeadIsReadable
  <2> QED BY <2>2, <2>3, <2>4
<1> QED BY <1>1, PortInductive, PTL

(* The reservation and the lease of a port belong to the one call that     *)
(* will end them, whatever closes, refusals and kills come in between.     *)
THEOREM PortNoOrphanLease == Spec => []NoOrphanLease
<1>1. PInv => NoOrphanLease
  <2> SUFFICES ASSUME PInv, NEW o \in Objects
               PROVE  /\ ring[o].producer.id # 0 =>
                           \E t \in Callers(o) : call[t].op = "send" /\ io[t].id = ring[o].producer.id
                      /\ ring[o].receiver.sequence # 0 => \E t \in Callers(o) :
                           call[t].op = "receive" /\ io[t].copy # 0 /\ io[t].view.lease = ring[o].receiver.lease
                      /\ Cardinality({t \in Callers(o) : io[t].id # 0}) <= 1
                      /\ Cardinality({t \in Callers(o) : io[t].copy # 0}) <= 1
    BY DEF NoOrphanLease
  <2>0. ProducerOK(o) /\ ReceiverOK(o) /\ \A t \in Tasks : TaskIo(t)
    BY DEF PInv, PortOK
  <2>1. ASSUME ring[o].producer.id # 0
        PROVE  \E t \in Callers(o) : call[t].op = "send" /\ io[t].id = ring[o].producer.id
    BY <2>0, <2>1 DEF ProducerOK, ProducerFits, Producing, Callers, TaskIo
  <2>2. ASSUME ring[o].receiver.sequence # 0
        PROVE  \E t \in Callers(o) : call[t].op = "receive" /\ io[t].copy # 0 /\ io[t].view.lease = ring[o].receiver.lease
    BY <2>0, <2>2 DEF ReceiverOK, ReceiverFits, Receiving, HoldsLease, Callers, TaskIo
  <2>3. ASSUME NEW S \in SUBSET Tasks, \A t, u \in S : t = u PROVE Cardinality(S) <= 1
    <3>1. CASE S = {}
      BY <3>1, FS_EmptySet
    <3>2. CASE S # {}
      <4>1. PICK t : S = {t}
        BY <2>3, <3>2
      <4>2. Cardinality({t}) = 1
        BY FS_Singleton
      <4> QED BY <4>1, <4>2
    <3> QED BY <3>1, <3>2
  <2>4. Cardinality({t \in Callers(o) : io[t].id # 0}) <= 1
    <3> DEFINE S == {t \in Callers(o) : io[t].id # 0}
    <3>1. S \in SUBSET Tasks /\ \A t, u \in S : t = u
      BY <2>0 DEF ProducerOK, Producing, Callers
    <3> HIDE DEF S
    <3>2. Cardinality(S) <= 1
      BY <2>3, <3>1
    <3> QED BY <3>2 DEF S
  <2>5. Cardinality({t \in Callers(o) : io[t].copy # 0}) <= 1
    <3> DEFINE S == {t \in Callers(o) : io[t].copy # 0}
    <3>1. S \in SUBSET Tasks /\ \A t, u \in S : t = u
      BY <2>0 DEF ReceiverOK, Receiving, Callers
    <3> HIDE DEF S
    <3>2. Cardinality(S) <= 1
      BY <2>3, <3>1
    <3> QED BY <3>2 DEF S
  <2> QED BY <2>1, <2>2, <2>4, <2>5
<1> QED BY <1>1, PortInductive, PTL

(* Nobody stays parked beside a frame or on a closed port.                 *)
THEOREM PortMissesNoReadable == Spec => []NoMissedReadable
<1>1. PInv => NoMissedReadable
  <2> SUFFICES ASSUME PInv, NEW o \in Objects, Readable(o) PROVE queue[Cv(o)] = <<>>
    BY DEF NoMissedReadable
  <2> QED BY EmptyQueue DEF PInv, CallInv, ReadersWoken
<1> QED BY <1>1, PortInductive, PTL

(* Every reference to a port is accounted for, and its inner mutex is used *)
(* as the scheduler's assertions demand.                                   *)
THEOREM PortReferences == Spec => [](ReferencesExact /\ MutexDiscipline)
<1>1. PInv => ReferencesExact /\ MutexDiscipline
  BY CallInvReferences, CallInvDiscipline DEF PInv
<1> QED BY <1>1, PortInductive, PTL

-----------------------------------------------------------------------------
(* The queue *)

NoAnswer == [end |-> "none", got |-> <<>>]

(* What a call of t has made of port o, as its queue sees it.              *)
Answer(t, o) ==
  IF call[t].obj # o \/ call[t].result # "granted" \/ call[t].op = "readable" THEN NoAnswer
  ELSE [end |-> IF call[t].op = "send" THEN "sent" ELSE "received", got |-> io[t].buffer]
Answers(o) == [t \in Tasks |-> Answer(t, o)]

Queues == \A o \in Objects : UNCHANGED Queue(o)!vars \/ Queue(o)!Next

\* The frames of the ring after the step.
LEMMA QueuedAfter ==
  ASSUME NEW o \in Objects
  PROVE  Queued(ring[o])' = Queued(ring'[o])
BY DEF Queued, RecordOffsets, Loaded, AdvanceOffset

(* Nothing of port o is seen in the step.                                  *)
Unseen(o) == Queued(ring'[o]) = Queued(ring[o]) /\ closed'[o] = closed[o] /\ \A t \in Tasks : Answer(t, o)' = Answer(t, o)

\* It is a stutter of its queue.
LEMMA UnseenStutters ==
  ASSUME NEW o \in Objects, Unseen(o)
  PROVE  UNCHANGED Queue(o)!vars
<1>1. Queued(ring[o])' = Queued(ring[o]) /\ closed'[o] = closed[o]
  BY QueuedAfter DEF Unseen
<1>2. Answers(o)' = Answers(o)
  BY DEF Unseen, Answers
<1> HIDE DEF Queued
<1> QED BY <1>1, <1>2 DEF Queue!vars, Answers, Answer, NoAnswer

\* A step of t on port o is not seen elsewhere.
LEMMA OnePortMoves ==
  ASSUME NEW t \in Tasks, NEW o \in Objects, call[t].obj \in {o, NULL}, call'[t].obj \in {o, NULL},
         \A u \in Tasks \ {t} : call'[u] = call[u] /\ io'[u] = io[u],
         \A p \in Objects \ {o} : ring'[p] = ring[p] /\ closed'[p] = closed[p],
         UNCHANGED Queue(o)!vars \/ Queue(o)!Next
  PROVE  Queues
<1>1. ASSUME NEW p \in Objects \ {o} PROVE Unseen(p)
  <2>1. p # NULL /\ call[t].obj # p /\ call'[t].obj # p
    BY <1>1, SchedAssumption
  <2>2. \A u \in Tasks : Answer(u, p)' = Answer(u, p)
    BY <2>1 DEF Answer
  <2> QED BY <1>1, <2>2 DEF Unseen
<1> QED BY <1>1, UnseenStutters DEF Queues

\* Nor at o, where it moves no frame and concludes nothing.
LEMMA NoPortMoves ==
  ASSUME NEW t \in Tasks, NEW o \in Objects, call[t].obj \in {o, NULL}, call'[t].obj \in {o, NULL},
         \A u \in Tasks \ {t} : call'[u] = call[u] /\ io'[u] = io[u],
         \A p \in Objects \ {o} : ring'[p] = ring[p], UNCHANGED closed,
         Queued(ring'[o]) = Queued(ring[o]), Answer(t, o)' = Answer(t, o)
  PROVE  Queues
<1>1. \A u \in Tasks : Answer(u, o)' = Answer(u, o)
  BY DEF Answer
<1>2. UNCHANGED Queue(o)!vars
  BY <1>1, UnseenStutters DEF Unseen
<1> QED BY <1>2, OnePortMoves

\* The answers change where t's does.
LEMMA OneAnswer ==
  ASSUME NEW t \in Tasks, NEW o \in Objects, \A u \in Tasks \ {t} : call'[u] = call[u] /\ io'[u] = io[u],
         NEW a, Answer(t, o)' = a
  PROVE  Answers(o)' = [Answers(o) EXCEPT ![t] = a] /\ Answers(o)[t] = Answer(t, o)
<1>1. \A u \in Tasks \ {t} : Answer(u, o)' = Answer(u, o)
  BY DEF Answer
<1> HIDE DEF Answer
<1> QED BY <1>1 DEF Answers

\* A send that returns success has put one frame at the end.
LEMMA SendSeen ==
  ASSUME NEW t \in Tasks, NEW o \in Objects, ~closed[o], UNCHANGED closed,
         NEW m \in {Frame(id, size) : id \in 1..kU64Max, size \in FrameSizes},
         Queued(ring'[o]) = Append(Queued(ring[o]), m), Answer(t, o) = NoAnswer,
         Answers(o)' = [Answers(o) EXCEPT ![t] = [end |-> "sent", got |-> <<>>]], Answers(o)[t] = Answer(t, o)
  PROVE  Queue(o)!Next
<1>1. Queued(ring[o])' = Append(Queued(ring[o]), m)
  BY QueuedAfter
<1> HIDE DEF Queued, Frame
<1>2. Queue(o)!Send(t, m)
  BY <1>1 DEF Queue!Send, Queue!Conclude, Queue!Undecided, Answers, Answer, NoAnswer
<1> QED BY <1>2 DEF Queue!Next

\* A receive that returns success has taken the head, whole.
LEMMA ReceiveSeen ==
  ASSUME NEW t \in Tasks, NEW o \in Objects, ~closed[o], UNCHANGED closed, Queued(ring[o]) # <<>>,
         Queued(ring'[o]) = Tail(Queued(ring[o])), Answer(t, o) = NoAnswer,
         Answers(o)' = [Answers(o) EXCEPT ![t] = [end |-> "received", got |-> Head(Queued(ring[o]))]],
         Answers(o)[t] = Answer(t, o)
  PROVE  Queue(o)!Next
<1>1. Queued(ring[o])' = Tail(Queued(ring[o]))
  BY QueuedAfter
<1> HIDE DEF Queued
<1>2. Queue(o)!Receive(t)
  BY <1>1 DEF Queue!Receive, Queue!Conclude, Queue!Undecided, Answers, Answer, NoAnswer
<1> QED BY <1>2 DEF Queue!Next

\* The return of a call that was answered.
LEMMA ReturnSeenByQueue ==
  ASSUME NEW t \in Tasks, NEW o \in Objects, UNCHANGED <<ring, closed>>, Answer(t, o) # NoAnswer,
         Answers(o)' = [Answers(o) EXCEPT ![t] = NoAnswer], Answers(o)[t] = Answer(t, o)
  PROVE  Queue(o)!Next
<1>1. Queued(ring[o])' = Queued(ring[o])
  BY QueuedAfter
<1> HIDE DEF Queued
<1>2. Queue(o)!Return(t)
  BY <1>1 DEF Queue!Return, Queue!Undecided, Answers, Answer, NoAnswer
<1> QED BY <1>2 DEF Queue!Next

\* The close.
LEMMA CloseSeen ==
  ASSUME NEW o \in Objects, UNCHANGED ring, closed'[o] = TRUE, Answers(o)' = Answers(o)
  PROVE  Queue(o)!Next
<1>1. Queued(ring[o])' = Queued(ring[o])
  BY QueuedAfter
<1> HIDE DEF Queued
<1>2. Queue(o)!Close
  BY <1>1 DEF Queue!Close, Answers, Answer, NoAnswer
<1> QED BY <1>2 DEF Queue!Next

\* A step in which no ring moves and every answer stays.
LEMMA QuietQueues ==
  ASSUME UNCHANGED <<ring, closed>>, \A u \in Tasks, o \in Objects : Answer(u, o)' = Answer(u, o)
  PROVE  Queues
BY UnseenStutters DEF Unseen, Queues

\* A call that is not granted has no answer.
LEMMA NotYetAnswered ==
  ASSUME NEW t \in Tasks, NEW o \in Objects
  PROVE  /\ call[t].result # "granted" \/ call[t].op = "readable" => Answer(t, o) = NoAnswer
         /\ call'[t].result # "granted" \/ call'[t].op = "readable" => Answer(t, o)' = NoAnswer
BY DEF Answer, NoAnswer

\* Entering a call, the steps every call shares, the waits and the environment.
LEMMA SharedQueues ==
  ASSUME PInv, UNCHANGED portVars,
         \/ \E t \in Tasks, o \in Objects, op \in {"send", "receive", "readable"} : \E arg : EnterCall(t, o, op, arg, "none")
         \/ \E t \in Tasks : LockInner(t) \/ WaitResume(t) \/ UnlockInner(t) \/ WaitStep(t)
         \/ \E t \in Tasks : TaskExit(t) \/ TaskCreate(t) \/ Kill(t)
         \/ \E o \in Objects : CloseHandle(o)
         \/ UNCHANGED call
  PROVE  Queues
<1>0. UNCHANGED <<ring, closed, io>>
  BY DEF portVars
<1>1. ASSUME NEW t \in Tasks, \A u \in Tasks \ {t} : call'[u] = call[u], \A o \in Objects : Answer(t, o)' = Answer(t, o)
      PROVE  Queues
  <2>1. \A u \in Tasks, o \in Objects : Answer(u, o)' = Answer(u, o)
    BY <1>0, <1>1 DEF Answer
  <2> QED BY <1>0, <2>1, QuietQueues
<1>2. CASE \E t \in Tasks, o \in Objects, op \in {"send", "receive", "readable"} : \E arg : EnterCall(t, o, op, arg, "none")
  <2>1. PICK t \in Tasks, p \in Objects, op \in {"send", "receive", "readable"} : \E arg : EnterCall(t, p, op, arg, "none")
    BY <1>2
  <2>2. call \in [Tasks -> CallRecords(PortOps, FrameSizes)] /\ TaskIo(t) /\ pc[t] = "idle"
    BY <2>1, PortFacts DEF EnterCall, At
  <2>3. call[t].result # "granted" /\ call'[t].result = "none" /\ \A u \in Tasks \ {t} : call'[u] = call[u]
    BY <2>1, <2>2 DEF EnterCall, TaskIo
  <2>4. \A o \in Objects : Answer(t, o)' = Answer(t, o)
    BY <2>3, NotYetAnswered
  <2> QED BY <1>1, <2>3, <2>4
<1>3. CASE \E t \in Tasks : LockInner(t) \/ WaitResume(t) \/ UnlockInner(t)
  <2>1. PICK t \in Tasks : LockInner(t) \/ WaitResume(t) \/ UnlockInner(t)
    BY <1>3
  <2>2. call \in [Tasks -> CallRecords(PortOps, FrameSizes)] /\ call[t] \in CallRecords(PortOps, FrameSizes)
    BY PortFacts
  <2>3. \A u \in Tasks \ {t} : call'[u] = call[u]
    BY <2>1, <2>2 DEF LockInner, WaitResume, UnlockInner
  <2>4. call'[t].obj = call[t].obj /\ call'[t].result = call[t].result /\ call'[t].op = call[t].op
    BY <2>1, <2>2 DEF LockInner, WaitResume, UnlockInner, CallRecords
  <2>5. \A o \in Objects : Answer(t, o)' = Answer(t, o)
    BY <1>0, <2>4 DEF Answer
  <2> QED BY <1>1, <2>3, <2>5
<1>4. CASE \E t \in Tasks : WaitStep(t)
  <2>1. PICK t \in Tasks : WaitStep(t)
    BY <1>4
  <2>2. /\ call \in [Tasks -> CallRecords(PortOps, FrameSizes)] /\ call[t] \in CallRecords(PortOps, FrameSizes)
        /\ TaskFits(t) /\ pc[t] = "test"
    BY <2>1, PortFacts DEF WaitStep, WaitGranted, WaitCancelled, WaitPark, At
  <2>3. IsWait(t) /\ call[t].op # "wait"
    BY <2>2 DEF TaskFits, CallRecords, PortOps
  <2>4. \A u \in Tasks \ {t} : call'[u] = call[u]
    BY <2>1, <2>2 DEF WaitStep, WaitGranted, WaitCancelled, WaitPark, Decide
  <2>5. call[t].op = "readable" /\ call'[t].op = "readable"
    BY <2>1, <2>2, <2>3 DEF WaitStep, WaitGranted, WaitCancelled, WaitPark, Decide, CallRecords, IsWait
  <2>6. \A o \in Objects : Answer(t, o)' = Answer(t, o)
    BY <2>5, NotYetAnswered
  <2> QED BY <1>1, <2>4, <2>6
<1>5. CASE UNCHANGED call
  <2>1. \A u \in Tasks, o \in Objects : Answer(u, o)' = Answer(u, o)
    BY <1>0, <1>5 DEF Answer
  <2> QED BY <1>0, <2>1, QuietQueues
<1>6. CASE (\E t \in Tasks : TaskExit(t) \/ TaskCreate(t) \/ Kill(t)) \/ \E o \in Objects : CloseHandle(o)
  BY <1>5, <1>6 DEF TaskExit, TaskCreate, Kill, CloseHandle, callVars
<1> QED BY <1>2, <1>3, <1>4, <1>5, <1>6

\* Entering a close.
LEMMA CloseEnterQueues ==
  ASSUME PInv, NEW t \in Tasks, NEW o \in Objects, KMessagePortClose(t, o)
  PROVE  Queues
<1>1. call \in [Tasks -> CallRecords(PortOps, FrameSizes)] /\ TaskIo(t) /\ pc[t] = "idle" /\ UNCHANGED <<ring, closed, io>>
  BY PortFacts DEF KMessagePortClose, At, portVars
<1>2. call[t].result # "granted" /\ call'[t].result = "none" /\ \A u \in Tasks \ {t} : call'[u] = call[u]
  BY <1>1 DEF KMessagePortClose, TaskIo, NoCall
<1>3. \A u \in Tasks, p \in Objects : Answer(u, p)' = Answer(u, p)
  <2>1. \A p \in Objects : Answer(t, p)' = Answer(t, p)
    BY <1>2, NotYetAnswered
  <2>2. \A u \in Tasks \ {t}, p \in Objects : Answer(u, p)' = Answer(u, p)
    BY <1>1, <1>2 DEF Answer
  <2> QED BY <2>1, <2>2
<1> QED BY <1>1, <1>3, QuietQueues

\* The steps of a send before its publication, and of a receive before its commit.
LEMMA CopyingQueues ==
  ASSUME PInv, NEW t \in Tasks, SendPrepare(t) \/ SendCopy(t) \/ ReceiveLease(t) \/ ReceiveCopy(t)
  PROVE  Queues
<1>0. /\ TaskIo(t) /\ io[t] \in IoRecords /\ ring \in [Objects -> Rings] /\ io \in [Tasks -> IoRecords]
      /\ (pc[t] \notin {"idle", "dead"} => call[t].obj \in Objects) /\ \A p \in Objects : PortOK(p)
  BY PortFacts
<1>1. pc[t] \in {"prepare", "copyin", "body", "copyout"} /\ UNCHANGED <<call, closed>>
  BY DEF SendPrepare, SendCopy, ReceiveLease, ReceiveCopy, At, InOp
<1>2. call[t].obj \in Objects /\ call[t].result # "granted" /\ call'[t].result # "granted"
  BY <1>0, <1>1 DEF TaskIo
<1> SUFFICES ASSUME NEW o \in Objects, o = call[t].obj PROVE Queues
  BY <1>2
<1>3. Answer(t, o)' = Answer(t, o)
  BY <1>2, NotYetAnswered
<1>4. \A u \in Tasks \ {t} : call'[u] = call[u] /\ io'[u] = io[u]
  BY <1>0, <1>1 DEF SendPrepare, SendCopy, ReceiveLease, ReceiveCopy, SetIo
<1> DEFINE r == ring[o]
<1>5. PortRing(r) /\ PortOK(o)
  BY <1>0 DEF PortOK
<1> SUFFICES ASSUME UNCHANGED ring \/ \E s : SetRing(o, s) /\ SameFrames(r, s)
             PROVE  Queues
  <2>1. CASE SendPrepare(t)
    <3>1. CASE UNCHANGED ring
      BY <3>1
    <3>2. CASE PrepareStatus(r, call[t].arg) = "Ok" /\ SetRing(o, Prepared(r, call[t].arg))
      <4>1. call[t].arg \in FrameSizes
        BY <1>0, <2>1 DEF SendPrepare, At, TaskIo
      <4>2. SameFrames(r, Prepared(r, call[t].arg))
        BY <1>5, <3>2, <4>1, PreparedPort
      <4> QED BY <3>2, <4>2
    <3> QED BY <2>1, <3>1, <3>2 DEF SendPrepare
  <2>2. CASE SendCopy(t)
    <3>1. pc[t] = "copyin" /\ SetRing(o, CopiedIn(r))
      BY <2>2 DEF SendCopy, At
    <3>2. io[t].id # 0 /\ io[t].id = r.producer.id /\ ~r.producer.abort_requested
      BY <1>0, <1>5, <3>1 DEF TaskIo, PortOK, ProducerOK, ProducerFits, Producing
    <3>3. SameFrames(r, CopiedIn(r))
      BY <1>5, <3>2, CopiedInPort
    <3> QED BY <3>1, <3>3
  <2>3. CASE ReceiveLease(t)
    <3> DEFINE q == Peeked(r)
               view == [sequence |-> q.receiver.sequence, lease |-> q.receiver.lease]
    <3>1. CASE UNCHANGED ring
      BY <3>1
    <3>2. CASE PeekStatus(r) = "Ok" /\ SetRing(o, ReceiveCancelled(q, view))
      <4>1. HoldsLease(q, view)
        BY DEF HoldsLease
      <4>2. SameFrames(r, ReceiveCancelled(q, view))
        BY <1>5, <3>2, <4>1, DeclinedPort
      <4> QED BY <3>2, <4>2
    <3>3. CASE PeekStatus(r) = "Ok" /\ SetRing(o, CopyBegun(q))
      <4>1. SameFrames(r, CopyBegun(q))
        BY <1>5, <3>3, LeasedPort
      <4> QED BY <3>3, <4>1
    <3> QED BY <2>3, <3>1, <3>2, <3>3 DEF ReceiveLease
  <2>4. CASE ReceiveCopy(t)
    BY <2>4 DEF ReceiveCopy
  <2> QED BY <2>1, <2>2, <2>3, <2>4
<1>6. Queued(ring'[o]) = Queued(ring[o]) /\ \A p \in Objects \ {o} : ring'[p] = ring[p]
  <2>1. CASE UNCHANGED ring
    BY <2>1
  <2>2. CASE \E s : SetRing(o, s) /\ SameFrames(r, s)
    <3>1. PICK s : SetRing(o, s) /\ SameFrames(r, s)
      BY <2>2
    <3>2. ring'[o] = s /\ \A p \in Objects \ {o} : ring'[p] = ring[p]
      BY <1>0, <3>1 DEF SetRing
    <3> QED BY <3>1, <3>2 DEF SameFrames
  <2> QED BY <2>1, <2>2
<1> QED BY <1>1, <1>3, <1>4, <1>6, NoPortMoves

\* The publication is the queue's send; a reservation given up is not seen.
LEMMA PublishQueues ==
  ASSUME PInv, NEW t \in Tasks, SendPublish(t)
  PROVE  Queues
<1>0. /\ TaskIo(t) /\ ring \in [Objects -> Rings] /\ io \in [Tasks -> IoRecords]
      /\ call \in [Tasks -> CallRecords(PortOps, FrameSizes)] /\ call[t] \in CallRecords(PortOps, FrameSizes)
      /\ (pc[t] \notin {"idle", "dead"} => call[t].obj \in Objects) /\ \A p \in Objects : PortOK(p)
  BY PortFacts
<1>1. pc[t] = "body" /\ call[t].op = "send" /\ io[t].id # 0 /\ SetIo(t, NoIo) /\ UNCHANGED closed
  BY DEF SendPublish, InOp, At
<1>2. call[t].obj \in Objects /\ call[t].result # "granted"
  BY <1>0, <1>1 DEF TaskIo
<1> SUFFICES ASSUME NEW o \in Objects, o = call[t].obj PROVE Queues
  BY <1>2
<1> DEFINE r == ring[o]
<1>3. PortRing(r) /\ io[t].id = r.producer.id /\ ~r.producer.copy_active
  BY <1>0, <1>1, <1>2 DEF PortOK, ProducerOK, ProducerFits, Producing
<1>4. io'[t].buffer = <<>> /\ \A u \in Tasks \ {t} : io'[u] = io[u]
  BY <1>0, <1>1, NoIoFacts DEF SetIo
<1>5. Answer(t, o) = NoAnswer
  BY <1>2, NotYetAnswered
<1>6. CASE /\ StillOpen(o) /\ SetRing(o, Published(r)) /\ Concluded(t, "granted")
  <2>1. ~closed[o]
    BY <1>6 DEF StillOpen
  <2>2. ring'[o] = Published(r) /\ \A p \in Objects \ {o} : ring'[p] = ring[p]
    BY <1>0, <1>6 DEF SetRing
  <2>3. PICK m \in {Frame(id, size) : id \in 1..kU64Max, size \in FrameSizes} : Queued(Published(r)) = Append(Queued(r), m)
    BY <1>1, <1>3, PublishedPort
  <2>4. /\ call'[t].obj = o /\ call'[t].op = "send" /\ call'[t].result = "granted"
        /\ \A u \in Tasks \ {t} : call'[u] = call[u]
    BY <1>0, <1>1, <1>6 DEF Concluded, CallRecords
  <2>5. Answer(t, o)' = [end |-> "sent", got |-> <<>>]
    BY <1>4, <2>4 DEF Answer
  <2>6. Answers(o)' = [Answers(o) EXCEPT ![t] = [end |-> "sent", got |-> <<>>]] /\ Answers(o)[t] = Answer(t, o)
    BY <1>4, <2>4, <2>5, OneAnswer
  <2>7. Queued(ring'[o]) = Append(Queued(ring[o]), m)
    BY <2>2, <2>3
  <2>8. Queue(o)!Next
    BY <1>1, <1>5, <2>1, <2>6, <2>7, SendSeen
  <2> QED BY <1>1, <1>4, <2>2, <2>4, <2>8, OnePortMoves
<1>7. CASE SetRing(o, EnqueueAborted(r, io[t].id)) /\ UNCHANGED call
  <2>1. SameFrames(r, EnqueueAborted(r, io[t].id))
    BY <1>1, <1>3, AbortedPort
  <2>2. ring'[o] = EnqueueAborted(r, io[t].id) /\ \A p \in Objects \ {o} : ring'[p] = ring[p]
    BY <1>0, <1>7 DEF SetRing
  <2>3. Queued(ring'[o]) = Queued(ring[o])
    BY <2>1, <2>2 DEF SameFrames
  <2>4. call'[t].result # "granted"
    BY <1>2, <1>7
  <2>5. Answer(t, o)' = Answer(t, o)
    BY <1>5, <2>4, NotYetAnswered
  <2> QED BY <1>1, <1>4, <1>7, <2>2, <2>3, <2>5, NoPortMoves
<1> QED BY <1>6, <1>7 DEF SendPublish

\* The commit is the queue's receive; a lease given back is not seen.
LEMMA CommitQueues ==
  ASSUME PInv, NEW t \in Tasks, ReceiveCommit(t)
  PROVE  Queues
<1>0. /\ TaskIo(t) /\ ring \in [Objects -> Rings] /\ io \in [Tasks -> IoRecords]
      /\ call \in [Tasks -> CallRecords(PortOps, FrameSizes)] /\ call[t] \in CallRecords(PortOps, FrameSizes)
      /\ (pc[t] \notin {"idle", "dead"} => call[t].obj \in Objects)
  BY PortFacts
<1>1. pc[t] = "body" /\ call[t].op = "receive" /\ io[t].copy # 0 /\ UNCHANGED closed
  BY DEF ReceiveCommit, InOp, At
<1>2. call[t].obj \in Objects /\ call[t].result # "granted"
  BY <1>0, <1>1 DEF TaskIo
<1> SUFFICES ASSUME NEW o \in Objects, o = call[t].obj PROVE Queues
  BY <1>2
<1> DEFINE r == ring[o]
           ok == ~closed[o] /\ CommitSucceeds(r, io[t].view, io[t].copy)
<1>3. /\ PortRing(r) /\ r.receiver.sequence # 0 /\ HoldsLease(r, io[t].view) /\ io[t].copy \in Nat \ {0}
      /\ r.receiver.copy = io[t].copy /\ io[t].buffer = HeadFrame(r)
  BY <1>1, CommitFinds
<1>4. Answer(t, o) = NoAnswer
  BY <1>2, NotYetAnswered
<1>5. /\ SetRing(o, IF closed[o] THEN GivenBack(r, io[t].view, io[t].copy) ELSE CommittedOr(r, io[t].view, io[t].copy))
      /\ Concluded(t, IF ok THEN "granted" ELSE "none")
      /\ SetIo(t, [NoIo EXCEPT !.buffer = IF ok THEN io[t].buffer ELSE <<>>])
  BY DEF ReceiveCommit
<1>6. /\ call'[t].obj = o /\ call'[t].op = "receive" /\ call'[t].result = IF ok THEN "granted" ELSE "none"
      /\ \A u \in Tasks \ {t} : call'[u] = call[u] /\ io'[u] = io[u]
  <2> HIDE DEF ok
  <2> QED BY <1>0, <1>1, <1>5 DEF Concluded, CallRecords, SetIo
<1>7. CASE closed[o]
  <2>1. SameFrames(r, GivenBack(r, io[t].view, io[t].copy))
    BY <1>3, GivenBackPort
  <2>2. ring'[o] = GivenBack(r, io[t].view, io[t].copy) /\ \A p \in Objects \ {o} : ring'[p] = ring[p]
    BY <1>0, <1>5, <1>7 DEF SetRing
  <2>3. Queued(ring'[o]) = Queued(ring[o])
    BY <2>1, <2>2 DEF SameFrames
  <2>4. Answer(t, o)' = Answer(t, o)
    BY <1>4, <1>6, <1>7, NotYetAnswered
  <2> QED BY <1>1, <1>6, <2>2, <2>3, <2>4, NoPortMoves
<1>8. CASE ~closed[o]
  <2> DEFINE s == CommittedOr(r, io[t].view, io[t].copy)
  <2>1. /\ CommitSucceeds(r, io[t].view, io[t].copy) /\ Queued(r) # <<>> /\ Queued(s) = Tail(Queued(r))
        /\ Head(Queued(r)) = HeadFrame(r)
    BY <1>3, CommittedPort
  <2>2. ok
    BY <1>8, <2>1
  <2> HIDE DEF ok
  <2>3. ring'[o] = s /\ \A p \in Objects \ {o} : ring'[p] = ring[p]
    BY <1>0, <1>5, <1>8 DEF SetRing
  <2>4. call'[t].result = "granted" /\ io'[t].buffer = io[t].buffer
    <3>1. SetIo(t, [NoIo EXCEPT !.buffer = io[t].buffer])
      BY <1>5, <2>2
    <3> QED BY <1>0, <1>6, <2>2, <3>1 DEF SetIo, NoIo
  <2>5. Answer(t, o)' = [end |-> "received", got |-> Head(Queued(ring[o]))]
    BY <1>3, <1>6, <2>1, <2>4 DEF Answer
  <2> HIDE DEF s
  <2>6. /\ Answers(o)' = [Answers(o) EXCEPT ![t] = [end |-> "received", got |-> Head(Queued(ring[o]))]]
        /\ Answers(o)[t] = Answer(t, o)
    BY <1>6, <2>5, OneAnswer
  <2>7. Queued(ring[o]) # <<>> /\ Queued(ring'[o]) = Tail(Queued(ring[o]))
    BY <2>1, <2>3
  <2>8. Queue(o)!Next
    BY <1>1, <1>4, <1>8, <2>6, <2>7, ReceiveSeen
  <2> QED BY <1>1, <1>6, <2>3, <2>8, OnePortMoves
<1> QED BY <1>7, <1>8

\* The close is the queue's.
LEMMA CloseQueues ==
  ASSUME PInv, NEW t \in Tasks, CloseBody(t)
  PROVE  Queues
<1>0. /\ call[t].obj \in Objects /\ closed \in [Objects -> BOOLEAN] /\ UNCHANGED <<ring, io>> /\ UNCHANGED call
      /\ closed' = [closed EXCEPT ![call[t].obj] = TRUE]
  BY PortFacts DEF CloseBody, BodyDone, At
<1> SUFFICES ASSUME NEW o \in Objects, o = call[t].obj PROVE Queues
  BY <1>0
<1>1. closed'[o] = TRUE /\ \A p \in Objects \ {o} : closed'[p] = closed[p]
  BY <1>0
<1>2. Answers(o)' = Answers(o)
  BY <1>0 DEF Answers, Answer
<1>3. Queue(o)!Next
  BY <1>0, <1>1, <1>2, CloseSeen
<1> QED BY <1>0, <1>1, <1>3, OnePortMoves

\* A call that was answered returns; another return is not seen.
LEMMA LeaveQueues ==
  ASSUME PInv, NEW t \in Tasks, Leave(t)
  PROVE  Queues
<1>0. /\ io \in [Tasks -> IoRecords] /\ call \in [Tasks -> CallRecords(PortOps, FrameSizes)] /\ call[t].obj \in Objects
  BY PortFacts DEF Leave, ReturnFromCall, At
<1> SUFFICES ASSUME NEW o \in Objects, o = call[t].obj PROVE Queues
  BY <1>0
<1>1. UNCHANGED <<ring, closed>> /\ call' = [call EXCEPT ![t] = NoCall] /\ SetIo(t, NoIo)
  BY DEF Leave, ReturnFromCall
<1>2. call'[t].obj = NULL /\ call'[t].result = "none" /\ \A u \in Tasks \ {t} : call'[u] = call[u] /\ io'[u] = io[u]
  BY <1>0, <1>1 DEF SetIo, NoCall
<1>3. Answer(t, o)' = NoAnswer
  BY <1>2, NotYetAnswered
<1>4. CASE Answer(t, o) = NoAnswer
  BY <1>1, <1>2, <1>3, <1>4, NoPortMoves
<1>5. CASE Answer(t, o) # NoAnswer
  <2>1. Answers(o)' = [Answers(o) EXCEPT ![t] = NoAnswer] /\ Answers(o)[t] = Answer(t, o)
    BY <1>2, <1>3, OneAnswer
  <2>2. Queue(o)!Next
    BY <1>1, <1>5, <2>1, ReturnSeenByQueue
  <2> QED BY <1>1, <1>2, <2>2, OnePortMoves
<1> QED BY <1>4, <1>5

\* Every step is, for each port, a step of its queue or not seen.
LEMMA NextQueues ==
  ASSUME PInv, [Next]_vars
  PROVE  Queues
<1>0. Workers \subseteq Tasks /\ Mortals \subseteq Tasks
  BY KMessagePortAssumption
<1>1. ASSUME NEW t \in Tasks, NEW o \in Objects,
             KMessagePortSend(t, o) \/ KMessagePortTryReceive(t, o) \/ KMessagePortWaitReadable(t, o)
      PROVE  Queues
  <2>1. UNCHANGED portVars /\ \E op \in {"send", "receive", "readable"} : \E arg : EnterCall(t, o, op, arg, "none")
    BY <1>1 DEF KMessagePortSend, KMessagePortTryReceive, KMessagePortWaitReadable
  <2> QED BY <2>1, SharedQueues
<1>2. ASSUME NEW t \in Tasks, Step(t) PROVE Queues
  <2>1. CASE (LockInner(t) \/ WaitResume(t) \/ UnlockInner(t)) /\ UNCHANGED portVars
    BY <2>1, SharedQueues
  <2>2. CASE WaitStep(t)
    BY <2>2, SharedQueues DEF WaitStep
  <2>3. CASE SendCheck(t)
    BY <2>3, SharedQueues DEF SendCheck
  <2>4. CASE SendPrepare(t) \/ SendCopy(t) \/ ReceiveLease(t) \/ ReceiveCopy(t)
    BY <2>4, CopyingQueues
  <2>5. CASE SendPublish(t)
    BY <2>5, PublishQueues
  <2>6. CASE ReceiveCommit(t)
    BY <2>6, CommitQueues
  <2>7. CASE CloseBody(t)
    BY <2>7, CloseQueues
  <2>8. CASE Leave(t)
    BY <2>8, LeaveQueues
  <2> QED BY <1>2, <2>1, <2>2, <2>3, <2>4, <2>5, <2>6, <2>7, <2>8 DEF Step
<1>3. CASE \E t \in Mortals : (TaskExit(t) \/ TaskCreate(t) \/ Kill(t)) /\ UNCHANGED portVars
  BY <1>0, <1>3, SharedQueues
<1>4. CASE \E o \in Objects : CloseHandle(o) /\ UNCHANGED portVars
  BY <1>4, SharedQueues
<1>5. CASE UNCHANGED vars
  BY <1>5, SharedQueues DEF vars, callVars, portVars
<1> QED BY <1>0, <1>1, <1>2, <1>3, <1>4, <1>5, CloseEnterQueues DEF Next

(* The port implements the message queue, for every number of tasks and    *)
(* ports, every capacity and every set of frame sizes: a frame enters at   *)
(* the end in the step its send succeeds, leaves whole at the head to the  *)
(* one receive that commits it, and none passes after the close.           *)
THEOREM PortImplementsQueue == Spec => ImplementsQueue
<1>1. Init => \A o \in Objects : Queue(o)!Init
  <2> SUFFICES ASSUME Init, NEW o \in Objects PROVE Queue(o)!Init
    OBVIOUS
  <2>1. ring[o] = EmptyRing /\ closed[o] = FALSE /\ call = [t \in Tasks |-> NoCall] /\ NoCall.obj # o
    BY SchedAssumption DEF Init, CallInit, NoCall
  <2>2. Queued(ring[o]) = <<>>
    <3>1. EmptyRing.queued = 0
      BY DEF EmptyRing
    <3> DEFINE e(n) == Loaded(EmptyRing.storage, AdvanceOffset(RecordOffsets(EmptyRing)[n - 1], 1),
                              EmptyRing.storage[RecordOffsets(EmptyRing)[n - 1]].at)
    <3>2. Queued(EmptyRing) = [n \in 1..0 |-> e(n)]
      BY <3>1 DEF Queued
    <3> HIDE DEF e
    <3> QED BY <2>1, <3>2
  <2>3. Answers(o) = [t \in Tasks |-> NoAnswer]
    BY <2>1 DEF Answers, Answer
  <2> HIDE DEF Queued
  <2> QED BY <2>1, <2>2, <2>3 DEF Queue!Init, Queue!Undecided, Answers, Answer, NoAnswer
<1>2. ASSUME PInv, [Next]_vars PROVE [Queues]_vars
  BY <1>2, NextQueues
<1>3. [][Queues]_vars <=> [][\A o \in Objects : UNCHANGED Queue(o)!vars \/ Queue(o)!Next]_vars
  BY DEF Queues
<1>4. Spec => [][Queues]_vars
  BY <1>2, PortInductive, PTL DEF Spec
<1> QED BY <1>1, <1>3, <1>4 DEF Spec, ImplementsQueue
=============================================================================
