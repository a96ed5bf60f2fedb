---------------------------- MODULE KMessagePort ----------------------------
(***************************************************************************)
(* The message port (kernel/ipc/kmessage_port.{h,cpp}): a MessageRing      *)
(* behind a mutex and a condition variable, reached through handles.       *)
(* A send reserves and copies without the port's mutex and publishes under *)
(* it; a receive leases the head under the mutex, copies without it and    *)
(* commits under it.  Close may come in between.  Sections of the ring's   *)
(* own lock that one holder of the mutex runs back to back are one step:   *)
(* a send's reservation, the only ring operation outside the mutex, and a  *)
(* receive touch different fields.                                         *)
(***************************************************************************)
EXTENDS CondvarObject, MessageRing

CONSTANTS
  Workers,   \* bound: the tasks that send, receive and close; every task waits
  Mortals    \* bound: the tasks that are killed

ASSUME KMessagePortAssumption == Workers \subseteq Tasks /\ Mortals \subseteq Tasks

VARIABLES
  ring, closed,   \* of each port
  io              \* locals of each send and receive

portVars == <<ring, closed, io>>
vars == <<schedVars, callVars, portVars>>

NoIo == [id |-> 0, view |-> [sequence |-> 0, lease |-> 0], copy |-> 0, buffer |-> <<>>]

Numbers == 0..kU64Max
PortPCs == {"prepare", "copyin", "copyout"}

TypeOK ==
  /\ CallTypeOK({"send", "receive", "readable", "close"}, FrameSizes, PortPCs)
  /\ closed \in [Objects -> BOOLEAN]
  /\ \A o \in Objects :
       /\ DOMAIN ring[o].storage = 0..(Capacity - 1)
       /\ ring[o].head \in 0..(Capacity - 1) /\ ring[o].tail \in 0..(Capacity - 1)
       /\ ring[o].used \in 0..Capacity /\ ring[o].queued \in 0..Capacity
  /\ \A t \in Tasks :
       /\ io[t].id \in Numbers /\ io[t].copy \in Numbers
       /\ io[t].view.sequence \in Numbers /\ io[t].view.lease \in Numbers

\* KMessagePortCreate.
Init ==
  /\ CallInit
  /\ ring = [o \in Objects |-> EmptyRing] /\ closed = [o \in Objects |-> FALSE]
  /\ io = [t \in Tasks |-> NoIo]

InOp(t, at, op) == At(t, at) /\ call[t].op = op
SetRing(o, r) == ring' = [ring EXCEPT ![o] = r]
SetIo(t, v) == io' = [io EXCEPT ![t] = v]
Concluded(t, result) == call' = [call EXCEPT ![t].result = result]

-----------------------------------------------------------------------------
(* Send *)

KMessagePortSend(t, o) == \E size \in FrameSizes : EnterCall(t, o, "send", size, "none") /\ UNCHANGED portVars

\* A call that begins after the close is refused.
SendCheck(t) ==
  /\ InOp(t, "body", "send") /\ io[t].id = 0
  /\ UnlockTo(t, IF closed[call[t].obj] THEN "return" ELSE "prepare")
  /\ UNCHANGED <<call, portVars>>

\* Reserve; Busy, Full and exhausted end the call.
SendPrepare(t) ==
  LET o == call[t].obj  size == call[t].arg IN
  /\ At(t, "prepare")
  /\ \/ /\ PrepareStatus(ring[o], size) = "Ok"
        /\ SetRing(o, Prepared(ring[o], size)) /\ SetIo(t, [io[t] EXCEPT !.id = ring[o].reservations.next])
        /\ Goto(t, "copyin")
     \/ /\ PrepareStatus(ring[o], size) # "Ok"
        /\ Goto(t, "return") /\ UNCHANGED <<ring, io>>
  /\ UNCHANGED <<schedVars, refcount, handles, call, closed>>

SendCopy(t) ==
  /\ At(t, "copyin")
  /\ SetRing(call[t].obj, CopiedIn(ring[call[t].obj]))
  /\ Goto(t, "lock")
  /\ UNCHANGED <<schedVars, refcount, handles, call, closed, io>>

\* Mutant: the close is not looked for again.
OpenAtEntry(o) == TRUE

StillOpen(o) == ~closed[o]

SendPublish(t) ==
  LET o == call[t].obj  r == ring[o]  ok == StillOpen(o) /\ PublishStatus(r, io[t].id) = "Ok" IN
  /\ InOp(t, "body", "send") /\ io[t].id # 0
  /\ \/ /\ ok /\ SetRing(o, Published(r)) /\ CondvarBroadcast(o)
        /\ Goto(t, "unlock") /\ Concluded(t, "granted") /\ UNCHANGED <<refcount, handles>>
     \/ ~ok /\ SetRing(o, EnqueueAborted(r, io[t].id)) /\ UnlockTo(t, "return") /\ UNCHANGED call
  /\ SetIo(t, NoIo)
  /\ UNCHANGED closed

-----------------------------------------------------------------------------
(* Receive *)

KMessagePortTryReceive(t, o) == \E size \in FrameSizes : EnterCall(t, o, "receive", size, "none") /\ UNCHANGED portVars

\* Lease the head and begin the copy, or give the lease back at once.
ReceiveLease(t) ==
  LET o == call[t].obj  r == ring[o]  leased == Peeked(r)  view == [sequence |-> leased.receiver.sequence,
                                                                    lease |-> leased.receiver.lease]
      fits == call[t].arg >= leased.receiver.frame_size /\ BeginCopyStatus(leased, view) = "Ok" IN
  /\ InOp(t, "body", "receive") /\ io[t].copy = 0
  /\ \/ /\ closed[o] \/ PeekStatus(r) # "Ok"
        /\ UnlockTo(t, "return") /\ UNCHANGED <<ring, io>>
     \/ /\ ~closed[o] /\ PeekStatus(r) = "Ok" /\ ~fits
        /\ SetRing(o, ReceiveCancelled(leased, view)) /\ UnlockTo(t, "return") /\ UNCHANGED io
     \/ /\ ~closed[o] /\ PeekStatus(r) = "Ok" /\ fits
        /\ SetRing(o, CopyBegun(leased))
        /\ SetIo(t, [NoIo EXCEPT !.view = view, !.copy = leased.copies.next])
        /\ UnlockTo(t, "copyout")
  /\ UNCHANGED <<call, closed>>

\* The bytes of the leased frame, without a lock.
ReceiveCopy(t) ==
  LET r == ring[call[t].obj] IN
  /\ At(t, "copyout")
  /\ SetIo(t, [io[t] EXCEPT !.buffer = Loaded(r.storage, AdvanceOffset(r.head, 1), HeadHeader(r).at)])
  /\ Goto(t, "lock")
  /\ UNCHANGED <<schedVars, refcount, handles, call, ring, closed>>

\* Mutant: a close in the copy window leaves the lease behind.
LeaseLeft(r, view, copy) == CopyEnded(r, copy, FALSE)

\* Closed in the copy window: the copy has failed, the lease is given back.
GivenBack(r, view, copy) == ReceiveCancelled(CopyEnded(r, copy, FALSE), view)

\* EndCopyOut and Commit; a stale lease or copy is given up.
CommittedOr(r, view, copy) ==
  LET ended == CopyEnded(r, copy, TRUE) IN
  IF EndCopyStatus(r, view, copy) # "Ok" THEN ReceiveCancelled(r, view)
  ELSE IF CommitStatus(ended, view) # "Ok" THEN ReceiveCancelled(ended, view) ELSE Committed(ended)

CommitSucceeds(r, view, copy) ==
  EndCopyStatus(r, view, copy) = "Ok" /\ CommitStatus(CopyEnded(r, copy, TRUE), view) = "Ok"

ReceiveCommit(t) ==
  LET o == call[t].obj  r == ring[o]  view == io[t].view  copy == io[t].copy
      ok == ~closed[o] /\ CommitSucceeds(r, view, copy) IN
  /\ InOp(t, "body", "receive") /\ copy # 0
  /\ SetRing(o, IF closed[o] THEN GivenBack(r, view, copy) ELSE CommittedOr(r, view, copy))
  /\ Concluded(t, IF ok THEN "granted" ELSE "none")
  /\ SetIo(t, [NoIo EXCEPT !.buffer = IF ok THEN io[t].buffer ELSE <<>>])
  /\ UnlockTo(t, "return")
  /\ UNCHANGED closed

-----------------------------------------------------------------------------
(* Wait and close *)

KMessagePortWaitReadable(t, o) == EnterCall(t, o, "readable", 0, "none") /\ UNCHANGED portVars

Readable(o) == closed[o] \/ ring[o].queued # 0

WaitStep(t) ==
  LET available == Readable(call[t].obj) IN
  /\ WaitGranted(t, available) \/ WaitCancelled(t, available) \/ WaitPark(t, available)
  /\ UNCHANGED portVars

\* KMessagePortCloseHandle: the handle's reference passes to the call.
KMessagePortClose(t, o) ==
  /\ At(t, "idle") /\ handles[o] = 1
  /\ handles' = [handles EXCEPT ![o] = 0]
  /\ Goto(t, "lock")
  /\ call' = [call EXCEPT ![t] = [NoCall EXCEPT !.obj = o, !.op = "close"]]
  /\ UNCHANGED <<schedVars, refcount, portVars>>

\* Mutant: the close wakes one waiter.
CloseWakesOne(o) == CondvarSignal(o)

CloseWakes(o) == CondvarBroadcast(o)

CloseBody(t) ==
  LET o == call[t].obj IN
  /\ BodyDone(t) /\ call[t].op = "close"
  /\ closed' = [closed EXCEPT ![o] = TRUE] /\ CloseWakes(o)
  /\ UNCHANGED <<ring, io>>

\* The call returns; what a receive copied is the caller's.
Leave(t) == ReturnFromCall(t) /\ SetIo(t, NoIo) /\ UNCHANGED <<ring, closed>>

-----------------------------------------------------------------------------
Step(t) ==
  \/ (LockInner(t) \/ WaitResume(t) \/ UnlockInner(t)) /\ UNCHANGED portVars
  \/ SendCheck(t) \/ SendPrepare(t) \/ SendCopy(t) \/ SendPublish(t)
  \/ ReceiveLease(t) \/ ReceiveCopy(t) \/ ReceiveCommit(t)
  \/ WaitStep(t) \/ CloseBody(t) \/ Leave(t)

Next ==
  \/ \E t \in Workers, o \in Objects :
       KMessagePortSend(t, o) \/ KMessagePortTryReceive(t, o) \/ KMessagePortClose(t, o)
  \/ \E t \in Tasks, o \in Objects : KMessagePortWaitReadable(t, o)
  \/ \E t \in Tasks : Step(t)
  \/ \E t \in Mortals : (TaskExit(t) \/ TaskCreate(t) \/ Kill(t)) /\ UNCHANGED portVars
  \/ \E o \in Objects : CloseHandle(o) /\ UNCHANGED portVars

Spec == Init /\ [][Next]_vars

-----------------------------------------------------------------------------
(* The CorruptState status is never returned: StateIsValid holds and the   *)
(* head record is readable whenever a ring operation may look, through     *)
(* wrap-around, aborted sends and receives, and frames that fill the ring. *)
RingNeverCorrupt ==
  \A o \in Objects : StateIsValid(ring[o]) /\ HeadIsReadable(ring[o])

(* The ring's one reservation and one lease belong to the one call that    *)
(* will end them: a close, a refusal or a kill at any point leaves none    *)
(* behind, which would answer Busy to every later send or receive.         *)
NoOrphanLease ==
  \A o \in Objects :
    /\ ring[o].producer.id # 0 => \E t \in Callers(o) : call[t].op = "send" /\ io[t].id = ring[o].producer.id
    /\ ring[o].receiver.sequence # 0 => \E t \in Callers(o) :
         call[t].op = "receive" /\ io[t].copy # 0 /\ io[t].view.lease = ring[o].receiver.lease
    /\ Cardinality({t \in Callers(o) : io[t].id # 0}) <= 1
    /\ Cardinality({t \in Callers(o) : io[t].copy # 0}) <= 1

(* Nobody stays parked beside a frame or on a closed port, even when a     *)
(* publication meets a close, a kill or another receiver.                  *)
NoMissedReadable ==
  \A o \in Objects : Readable(o) => queue[Cv(o)] = <<>>

(* The port implements the queue: frames come out whole, once and in the   *)
(* order their sends returned, and none goes in or out after the close.    *)
Queue(o) == INSTANCE MessageQueue
  WITH Messages <- {Frame(id, size) : id \in 1..kU64Max, size \in FrameSizes},
       messages <- Queued(ring[o]), closed <- closed[o],
       outcome <- [t \in Tasks |->
         IF call[t].obj # o \/ call[t].result # "granted" \/ call[t].op = "readable"
           THEN [end |-> "none", got |-> <<>>]
           ELSE [end |-> IF call[t].op = "send" THEN "sent" ELSE "received", got |-> io[t].buffer]]
ImplementsQueue ==
  /\ \A o \in Objects : Queue(o)!Init
  /\ [][\A o \in Objects : UNCHANGED Queue(o)!vars \/ Queue(o)!Next]_vars

=============================================================================
