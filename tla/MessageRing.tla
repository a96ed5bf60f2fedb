---------------------------- MODULE MessageRing ----------------------------
(***************************************************************************)
(* The bounded ring of framed messages (kernel/ipc/message_ring.{h,cpp}).  *)
(* A ring is a record and each critical section of a ring operation a      *)
(* function from rings to rings; the status tests are state formulae in    *)
(* the order the code makes them.  The bytes a producer copies in and a    *)
(* consumer copies out without the ring's lock are steps of the callers    *)
(* (KMessagePort).                                                         *)
(*                                                                         *)
(* Storage is counted in units of one record header; a frame is named by   *)
(* the reservation that copied it in.  Frames are well formed: validation  *)
(* comes first and changes nothing.                                        *)
(***************************************************************************)
EXTENDS Naturals, Sequences

CONSTANTS
  Capacity,     \* capacity_bytes, in units
  FrameSizes,   \* bound: the frame sizes, in units
  kU64Max       \* the largest sequence, reservation, lease and copy number

ASSUME MessageRingAssumption ==
  /\ Capacity \in Nat \ {0, 1} /\ kU64Max \in Nat \ {0}
  /\ FrameSizes \subseteq Nat \ {0}

\* A counter that gives each number out once and then stays exhausted.
FirstNumber == [next |-> 1, exhausted |-> FALSE]
Taken(c) == IF c.next = kU64Max THEN [c EXCEPT !.exhausted = TRUE] ELSE [c EXCEPT !.next = @ + 1]

\* ClearProducer and ClearReceiver.
NoProducer == [id |-> 0, tail |-> 0, frame_size |-> 0, copy_active |-> FALSE, abort_requested |-> FALSE]
NoReceiver == [sequence |-> 0, lease |-> 0, frame_size |-> 0, copy |-> 0, copied |-> 0]

\* A unit of storage: a record header, a unit of a frame, or bytes in the middle of a copy.
HeaderUnit(sequence, size) == [unit |-> "header", of |-> sequence, at |-> size]
FrameUnit(id, i) == [unit |-> "frame", of |-> id, at |-> i]
TornUnit == [unit |-> "torn", of |-> 0, at |-> 0]

\* MessageRingInitialize.
EmptyRing ==
  [storage |-> [c \in 0..(Capacity - 1) |-> TornUnit], head |-> 0, tail |-> 0, used |-> 0, queued |-> 0,
   sequences |-> FirstNumber, reservations |-> FirstNumber, leases |-> FirstNumber, copies |-> FirstNumber,
   producer |-> NoProducer, receiver |-> NoReceiver]

AdvanceOffset(offset, n) == IF offset + n < Capacity THEN offset + n ELSE offset + n - Capacity

\* CopyIntoStorage: the units of seq from offset on, around the end.
Stored(storage, offset, seq) ==
  [c \in DOMAIN storage |->
     LET i == (c + Capacity - offset) % Capacity IN IF i < Len(seq) THEN seq[i + 1] ELSE storage[c]]

\* CopyFromStorage.
Loaded(storage, offset, n) == [i \in 1..n |-> storage[AdvanceOffset(offset, i - 1)]]

Frame(id, size) == [i \in 1..size |-> FrameUnit(id, i)]
TornFrame(size) == [i \in 1..size |-> TornUnit]

-----------------------------------------------------------------------------
(* Validity *)

\* StateIsValid.
StateIsValid(r) ==
  /\ r.head < Capacity /\ r.tail < Capacity /\ r.used <= Capacity
  /\ (r.queued = 0) <=> (r.used = 0)
  /\ r.queued # 0 => r.used >= 2
  /\ IF r.receiver.sequence = 0 THEN r.receiver = NoReceiver
     ELSE r.queued # 0 /\ r.receiver.lease # 0 /\ r.receiver.frame_size # 0
  /\ r.receiver.copy = 0 \/ r.receiver.copied = 0
  /\ IF r.producer.id = 0 THEN r.producer = [NoProducer EXCEPT !.tail = r.producer.tail]
     ELSE /\ r.producer.tail = r.tail /\ r.producer.frame_size # 0
          /\ r.producer.frame_size + 1 <= Capacity - r.used

\* ReadHeadRecord.
HeadHeader(r) == r.storage[r.head]
HeadIsReadable(r) ==
  r.queued # 0 => HeadHeader(r).unit = "header" /\ HeadHeader(r).of # 0 /\ HeadHeader(r).at + 1 <= r.used
HeadRecord(r) == [sequence |-> HeadHeader(r).of, frame_size |-> HeadHeader(r).at]

-----------------------------------------------------------------------------
(* Producer *)

\* MessageRingPrepareEnqueue, first critical section.
PrepareStatus(r, size) ==
  IF r.producer.id # 0 THEN "Busy"
  ELSE IF r.reservations.exhausted THEN "ReservationExhausted"
  ELSE IF r.sequences.exhausted THEN "SequenceExhausted"
  ELSE IF size + 1 > Capacity - r.used THEN "Full" ELSE "Ok"

FrameOffset(r) == AdvanceOffset(r.producer.tail, 1)

\* The reservation; from here until the copy ends its frame bytes may hold anything.
Prepared(r, size) ==
  [r EXCEPT !.producer = [id |-> r.reservations.next, tail |-> r.tail, frame_size |-> size,
                          copy_active |-> TRUE, abort_requested |-> FALSE],
            !.reservations = Taken(@),
            !.storage = Stored(@, AdvanceOffset(r.tail, 1), TornFrame(size))]

\* The copy into the reserved bytes and the second critical section.
CopiedIn(r) ==
  [r EXCEPT !.storage = Stored(@, FrameOffset(r), Frame(r.producer.id, r.producer.frame_size)),
            !.producer = IF @.abort_requested THEN NoProducer ELSE [@ EXCEPT !.copy_active = FALSE]]

\* MessageRingPublishEnqueue.
PublishStatus(r, id) ==
  IF r.producer.id # id THEN "StaleReservation"
  ELSE IF r.producer.copy_active THEN "Busy"
  ELSE IF r.producer.abort_requested THEN "ProducerAborted"
  ELSE IF r.sequences.exhausted THEN "SequenceExhausted" ELSE "Ok"

Published(r) ==
  [r EXCEPT !.storage = Stored(@, r.producer.tail, <<HeaderUnit(r.sequences.next, r.producer.frame_size)>>),
            !.tail = AdvanceOffset(@, r.producer.frame_size + 1),
            !.used = @ + r.producer.frame_size + 1,
            !.queued = @ + 1,
            !.sequences = Taken(@),
            !.producer = NoProducer]

\* MessageRingAbortEnqueue: deferred while the copy is active.
EnqueueAborted(r, id) ==
  IF r.producer.id # id THEN r
  ELSE IF r.producer.copy_active THEN [r EXCEPT !.producer.abort_requested = TRUE]
  ELSE [r EXCEPT !.producer = NoProducer]

-----------------------------------------------------------------------------
(* Consumer *)

PeekStatus(r) ==
  IF r.receiver.sequence # 0 THEN "Busy"
  ELSE IF r.queued = 0 THEN "Empty"
  ELSE IF r.leases.exhausted THEN "ReceiveLeaseExhausted" ELSE "Ok"

\* MessageRingPeek: the head frame is leased.
Peeked(r) ==
  [r EXCEPT !.receiver = [sequence |-> HeadRecord(r).sequence, lease |-> r.leases.next,
                          frame_size |-> HeadRecord(r).frame_size, copy |-> 0, copied |-> 0],
            !.leases = Taken(@)]

HoldsLease(r, view) == r.receiver.sequence = view.sequence /\ r.receiver.lease = view.lease

\* MessageRingBeginCopyOut.
BeginCopyStatus(r, view) ==
  IF ~HoldsLease(r, view) THEN "Stale"
  ELSE IF r.receiver.copy # 0 THEN "Busy"
  ELSE IF r.copies.exhausted THEN "CopyIdExhausted" ELSE "Ok"

CopyBegun(r) == [r EXCEPT !.receiver.copy = r.copies.next, !.receiver.copied = 0, !.copies = Taken(@)]

\* MessageRingEndCopyOut.
EndCopyStatus(r, view, copy) ==
  IF ~HoldsLease(r, view) THEN "Stale"
  ELSE IF r.receiver.copy = 0 THEN "CopyNotActive"
  ELSE IF r.receiver.copy # copy THEN "StaleCopyAttempt" ELSE "Ok"

CopyEnded(r, copy, succeeded) ==
  [r EXCEPT !.receiver.copy = 0, !.receiver.copied = IF succeeded THEN copy ELSE 0]

\* MessageRingCommit.
CommitStatus(r, view) ==
  IF ~HoldsLease(r, view) THEN "Stale"
  ELSE IF r.receiver.copy # 0 THEN "Busy"
  ELSE IF r.receiver.copied = 0 THEN "CopyRequired" ELSE "Ok"

\* Mutant: a ring that runs empty starts again at offset 0.
Rewound(r) ==
  [r EXCEPT !.head = IF r.queued = 1 THEN 0 ELSE AdvanceOffset(@, HeadRecord(r).frame_size + 1),
            !.used = @ - (HeadRecord(r).frame_size + 1), !.queued = @ - 1, !.receiver = NoReceiver]

Committed(r) ==
  [r EXCEPT !.head = IF r.queued = 1 THEN r.tail ELSE AdvanceOffset(@, HeadRecord(r).frame_size + 1),
            !.used = @ - (HeadRecord(r).frame_size + 1),
            !.queued = @ - 1,
            !.receiver = NoReceiver]

\* MessageRingCancelReceive: refused while a copy is active.
ReceiveCancelled(r, view) == IF HoldsLease(r, view) /\ r.receiver.copy = 0 THEN [r EXCEPT !.receiver = NoReceiver] ELSE r

-----------------------------------------------------------------------------
\* Where the records from head to tail begin, walked one by one.
RecordOffsets(r) ==
  LET offset[n \in 0..r.queued] ==
        IF n = 0 THEN r.head ELSE AdvanceOffset(offset[n - 1], r.storage[offset[n - 1]].at + 1)
  IN offset

\* What the storage holds: the frames of these records.
Queued(r) ==
  LET offset == RecordOffsets(r)
  IN [n \in 1..r.queued |->
        Loaded(r.storage, AdvanceOffset(offset[n - 1], 1), r.storage[offset[n - 1]].at)]
=============================================================================
