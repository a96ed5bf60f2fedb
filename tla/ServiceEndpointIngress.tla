----------------------- MODULE ServiceEndpointIngress -----------------------
(***************************************************************************)
(* The endpoint system call (kernel/syscall/service_endpoint_ingress.cpp): *)
(* what a client and a service do with the two ends of a channel.  Every   *)
(* operation looks its handle up, pins the channel, borrows a direction,   *)
(* works without the channel's locks, and releases the pin, upon which it  *)
(* may find itself the one to drain the channel.                           *)
(*                                                                         *)
(* The model has the direction in which the initiator sends requests and   *)
(* exports, and the acceptor receives, replies and imports; the opposite   *)
(* direction is the same code over the other half of the channel.  The     *)
(* handle tables keep HandleTable's promise: a reservation is published or *)
(* aborted, unless the table was drained in between.                       *)
(***************************************************************************)
EXTENDS ServiceEndpoint

Operations == {"send", "receive", "reply", "export", "import", "revoke"}

CONSTANTS
  Receipts,                                        \* the rows of the receipt table
  kServiceEndpointIngressReceiptGenerationMaximum,
  Mixes                                            \* the sets of operations the threads of a run call

ASSUME IngressAssumption ==
  /\ IsFiniteSet(Receipts) /\ kServiceEndpointIngressReceiptGenerationMaximum \in Nat \ {0}
  /\ Mixes \subseteq SUBSET Operations

VARIABLES
  receipt,      \* ServiceEndpointIngressState::receipts
  source,       \* does the client hold a handle to the object?
  destination,  \* the slot of the service's handle table that an import takes
  mix           \* the operations that are called (a bound: chosen once)

ingressVars == <<receipt, source, destination, mix>>
vars == <<coreVars, endpointVars, fate, pc, call, ingressVars>>

FreeReceipt == [state |-> "Free", generation |-> 0, key |-> 0, id |-> 0]
ReceiptRows == [state: {"Free", "Pending", "Live", "Replying", "Retired"},
                generation: 0..kServiceEndpointIngressReceiptGenerationMaximum,
                key: 0..kServiceEndpointGenerationMaximum, id: 0..kEndpointRequestIdMaximum]

RoleOf(op) == IF op \in {"send", "export", "revoke"} THEN "initiator" ELSE "acceptor"

Init ==
  /\ EndpointInit
  /\ receipt = [r \in Receipts |-> FreeReceipt]
  /\ source = TRUE /\ destination = "free"
  /\ mix \in Mixes

\* A step that leaves all but the thread's place and locals alone.
OnlyMoves == UNCHANGED <<coreVars, endpointVars, fate, ingressVars>>

-----------------------------------------------------------------------------
(* AcquireEndpoint and ReleaseEndpoint *)

\* HandleTableLookupRef; which operation it is for matters once it is pinned.
LookupEndpoint(t, r) ==
  /\ At(t, "idle") /\ handle[r] = "open"
  /\ refcount' = [refcount EXCEPT ![r] = @ + 1]
  /\ Locals(t, [NoCall EXCEPT !.role = r, !.key = slot.key])
  /\ Goto(t, "acquire")
  /\ UNCHANGED <<coreVars, slot, generation, handle, fate, ingressVars>>

\* ServiceEndpointAcquireOperation under the owner's lock.
AcquireOperation(t) ==
  LET open == ResolveExact(call[t].key) /\ slot.endpoint_reference_live[call[t].role] /\ slot.state = "Open" IN
  /\ At(t, "acquire")
  /\ Goto(t, IF open THEN "pin" ELSE "deref")
  /\ OnlyMoves /\ UNCHANGED call

\* ... and under the core's.
PinOperation(t) ==
  /\ At(t, "pin")
  /\ IF CanAcquire(call[t].key)
     THEN \E op \in {o \in mix : RoleOf(o) = call[t].role} :
            /\ ChannelCoreAcquireOperation(t)
            /\ Locals(t, [call[t] EXCEPT !.op = op])
            /\ Goto(t, IF op = "reply" THEN "claim" ELSE "borrow")
     ELSE Goto(t, "deref") /\ UNCHANGED <<coreVars, call>>
  /\ UNCHANGED <<endpointVars, fate, ingressVars>>

FirstStep == [send |-> "reserve", receive |-> "pend", reply |-> "answer",
              export |-> "retain_source", import |-> "reserve_handle", revoke |-> "revoke"]

\* ServiceEndpointBorrowDirection.
BorrowDirection(t) ==
  /\ At(t, "borrow")
  /\ Goto(t, IF PinOpen(t) THEN FirstStep[call[t].op] ELSE IF call[t].op = "reply" THEN "unclaim" ELSE "release")
  /\ OnlyMoves /\ UNCHANGED call

\* ServiceEndpointReleaseOperation: the core's pin ...
ReleasePin(t) ==
  /\ At(t, "release")
  /\ ChannelCoreReleaseOperation(t)
  /\ Goto(t, "help") /\ Locals(t, [NoCall EXCEPT !.role = call[t].role, !.key = call[t].key])
  /\ UNCHANGED <<endpointVars, fate, ingressVars>>

\* ... and the help to a drain that this pin may have held up.
HelpDrain(t) ==
  /\ At(t, "help")
  /\ IF ~ResolveExact(call[t].key) THEN Return(t)
     ELSE IF slot.state = "Draining" THEN Goto(t, "drive") /\ Locals(t, [call[t] EXCEPT !.next = "deref"])
     ELSE Goto(t, "deref") /\ UNCHANGED call
  /\ OnlyMoves

-----------------------------------------------------------------------------
(* ExecuteSendRequest *)

\* ServiceEndpointReserveRequest.
ReserveRequest(t) ==
  /\ At(t, "reserve")
  /\ \E id \in RequestIds :
       IF PinOpen(t) /\ ReserveStatus(ledger, id) = "Ok"
       THEN /\ SetLedger(RequestReserved(ledger, id))
            /\ fate' = [fate EXCEPT ![id] = IF @ = "unused" THEN "live" ELSE "twice"]
            /\ Locals(t, [call[t] EXCEPT !.id = id]) /\ Goto(t, "send")
       ELSE Goto(t, "release") /\ UNCHANGED <<coreVars, fate, call>>
  /\ UNCHANGED <<endpointVars, ingressVars>>

\* KMessagePortSend; the ring may be full.
SendRequest(t) ==
  /\ At(t, "send")
  /\ \/ /\ ~port.closed
        /\ port' = [port EXCEPT !.queue = Append(@, call[t].id)] /\ Goto(t, "release")
     \/ UNCHANGED port /\ Goto(t, "cancel_sent")
  /\ UNCHANGED <<core, ledger, table, object, endpointVars, fate, ingressVars, call>>

\* ChannelCoreCancelRequest of the call's request.
Cancels(t) ==
  IF PinValid(t) /\ FindStatus(ledger, call[t].key, call[t].id) = "Ok"
  THEN SetLedger(RequestConsumed(ledger, call[t].id)) /\ fate' = Ended({call[t].id})
  ELSE UNCHANGED <<coreVars, fate>>

CancelSentRequest(t) ==
  /\ At(t, "cancel_sent") /\ Cancels(t)
  /\ Goto(t, "release") /\ UNCHANGED <<endpointVars, ingressVars, call>>

-----------------------------------------------------------------------------
(* Receipts *)

\* ClearReceipt.
ClearedReceipt(row) ==
  [row EXCEPT !.key = 0, !.id = 0,
              !.state = IF @ = "Retired" \/ row.generation = kServiceEndpointIngressReceiptGenerationMaximum
                        THEN "Retired" ELSE "Free"]

\* Does the call's token name the row, in that state?
Names(t, r, state) ==
  call[t].token = <<r, receipt[r].generation>> /\ receipt[r].state = state

SetReceipt(r, row) == receipt' = [receipt EXCEPT ![r] = row] /\ UNCHANGED <<source, destination, mix>>

\* ReservePendingReceipt.
ReservePendingReceipt(t) ==
  LET free == {r \in Receipts : receipt[r].state = "Free"} IN
  /\ At(t, "pend")
  /\ IF free = {} THEN Goto(t, "release") /\ UNCHANGED <<call, ingressVars>>
     ELSE \E r \in free :
            LET row == [state |-> "Pending", generation |-> receipt[r].generation + 1, key |-> call[t].key, id |-> 0] IN
            /\ SetReceipt(r, row)
            /\ Locals(t, [call[t] EXCEPT !.token = <<r, row.generation>>]) /\ Goto(t, "receive")
  /\ UNCHANGED <<coreVars, endpointVars, fate>>

AbandonReceipt(t) ==
  /\ At(t, "abandon")
  /\ IF \E r \in Receipts : Names(t, r, "Pending")
     THEN LET r == call[t].token[1] IN SetReceipt(r, ClearedReceipt(receipt[r]))
     ELSE UNCHANGED ingressVars
  /\ Goto(t, "release") /\ UNCHANGED <<coreVars, endpointVars, fate, call>>

\* PublishReceipt: the row may have been cleared meanwhile.
PublishReceipt(t) ==
  LET r == call[t].token[1] IN
  /\ At(t, "publish")
  /\ IF Names(t, r, "Pending") /\ receipt[r].key = call[t].key
     THEN SetReceipt(r, [receipt[r] EXCEPT !.state = "Live", !.id = call[t].id]) /\ Goto(t, "release")
     ELSE Goto(t, "abandon") /\ UNCHANGED ingressVars
  /\ UNCHANGED <<coreVars, endpointVars, fate, call>>

\* Mutant: a receipt whose reply is under way is claimed again.
ClaimsTwice(row) == row.state \in {"Live", "Replying"}

Claimable(row) == row.state = "Live"

\* ClaimReceipt, for any token a service may hold; the reply may name another request.
ClaimReceipt(t) ==
  /\ At(t, "claim")
  /\ \E r \in Receipts :
       \/ /\ receipt[r].key = call[t].key /\ Claimable(receipt[r])
          /\ SetReceipt(r, [receipt[r] EXCEPT !.state = "Replying"])
          /\ Locals(t, [call[t] EXCEPT !.token = <<r, receipt[r].generation>>, !.id = receipt[r].id])
          /\ \E matches \in BOOLEAN : Goto(t, IF matches THEN "borrow" ELSE "unclaim")
       \/ Goto(t, "release") /\ UNCHANGED <<call, ingressVars>>
  /\ UNCHANGED <<coreVars, endpointVars, fate>>

\* FinishReceipt, consumed or given back.
FinishReceipt(t) ==
  LET r == call[t].token[1] IN
  /\ pc[t] \in {"retire", "unclaim"}
  /\ IF Names(t, r, "Replying")
     THEN SetReceipt(r, IF At(t, "retire") THEN ClearedReceipt(receipt[r]) ELSE [receipt[r] EXCEPT !.state = "Live"])
     ELSE UNCHANGED ingressVars
  /\ Goto(t, "release") /\ UNCHANGED <<coreVars, endpointVars, fate, call>>

\* CancelEndpointState and ServiceEndpointIngressCancelProcess clear the rows of a channel, or all.
ClearsReceipts(keys) ==
  /\ receipt' = [r \in Receipts |-> IF receipt[r].key \in keys THEN ClearedReceipt(receipt[r]) ELSE receipt[r]]
  /\ UNCHANGED <<source, destination, mix>>

ServiceEndpointIngressCancelProcess ==
  /\ ClearsReceipts(1..kServiceEndpointGenerationMaximum)
  /\ receipt' # receipt
  /\ UNCHANGED <<coreVars, endpointVars, fate, pc, call>>

-----------------------------------------------------------------------------
(* ExecuteReceive *)

\* KMessagePortTryReceive and WaitReadable: the head of the queue, whose
\* frame may be refused, or no frame: closed, cancelled, empty, too large.
ReceiveFrame(t) ==
  /\ At(t, "receive")
  /\ \/ /\ ~port.closed /\ port.queue # <<>>
        /\ port' = [port EXCEPT !.queue = Tail(@)]
        /\ Locals(t, [call[t] EXCEPT !.id = Head(port.queue)])
        /\ \E valid \in BOOLEAN : Goto(t, IF valid THEN "commit" ELSE "reject")
     \/ Goto(t, "abandon") /\ UNCHANGED <<port, call>>
  /\ UNCHANGED <<core, ledger, table, object, endpointVars, fate, ingressVars>>

\* ServiceEndpointCommitReceivedRequest.
CommitReceivedRequest(t) ==
  /\ At(t, "commit")
  /\ IF PinValid(t) /\ CommitStatus(ledger, call[t].key, call[t].id) = "Ok"
     THEN SetLedger(RequestCommitted(ledger, call[t].id)) /\ Goto(t, "publish")
     ELSE Goto(t, "abandon") /\ UNCHANGED coreVars
  /\ UNCHANGED <<endpointVars, fate, ingressVars, call>>

RejectReceivedRequest(t) ==
  /\ At(t, "reject") /\ Cancels(t)
  /\ Goto(t, "abandon") /\ UNCHANGED <<endpointVars, ingressVars, call>>

-----------------------------------------------------------------------------
(* ExecuteReply *)

\* KMessagePortSend on the port of the replies.
SendReply(t) ==
  /\ At(t, "answer")
  /\ \/ ~port.closed /\ Goto(t, "complete")
     \/ Goto(t, "unclaim")
  /\ OnlyMoves /\ UNCHANGED call

Completes(t) == PinValid(t) /\ CompleteStatus(ledger, call[t].key, call[t].id) = "Ok"

\* ServiceEndpointCompleteReceivedRequest.
CompleteReceivedRequest(t) ==
  /\ At(t, "complete")
  /\ IF Completes(t)
     THEN SetLedger(RequestConsumed(ledger, call[t].id)) /\ fate' = Ended({call[t].id})
     ELSE UNCHANGED <<coreVars, fate>>
  /\ Goto(t, "retire") /\ UNCHANGED <<endpointVars, ingressVars, call>>

-----------------------------------------------------------------------------
(* ExecuteExport and ExecuteRevoke *)

SetTable(rows, references) == table' = rows /\ object' = references /\ UNCHANGED <<core, ledger, port>>

\* ObjectTransferExport: the source handle's object is retained ...
RetainSource(t) ==
  /\ At(t, "retain_source")
  /\ IF source THEN SetTable(table, object + 1) /\ Goto(t, "export") ELSE UNCHANGED coreVars /\ Goto(t, "release")
  /\ UNCHANGED <<endpointVars, fate, ingressVars, call>>

\* ... and a row adopts the reference, or it is released.
ObjectTransferExport(t) ==
  /\ At(t, "export")
  /\ IF ExportRows(table) = {} THEN SetTable(table, object - 1)
     ELSE \E r \in ExportRows(table) : SetTable(Exported(table, r), object)
  /\ Goto(t, "release") /\ UNCHANGED <<endpointVars, fate, ingressVars, call>>

\* ObjectTransferRevoke of any reference the client may hold.
ObjectTransferRevoke(t) ==
  /\ At(t, "revoke")
  /\ \E r \in Rows, g \in Generations :
       IF CanRevoke(table, r, g)
       THEN SetTable(Revoked(table, r), IF Unused(table.rows[r]) THEN object - 1 ELSE object)
       ELSE UNCHANGED coreVars
  /\ Goto(t, "release") /\ UNCHANGED <<endpointVars, fate, ingressVars, call>>

-----------------------------------------------------------------------------
(* ExecuteImport: ObjectTransferImport *)

SetDestination(d) == destination' = d /\ UNCHANGED <<receipt, source, mix>>

\* HandleTableReserve.
ReserveHandle(t) ==
  /\ At(t, "reserve_handle")
  /\ IF destination = "free" THEN SetDestination("reserved") /\ Goto(t, "pin_row")
     ELSE UNCHANGED ingressVars /\ Goto(t, "release")
  /\ UNCHANGED <<coreVars, endpointVars, fate, call>>

PinRow(t) ==
  /\ At(t, "pin_row")
  /\ \E r \in Rows, g \in Generations :
       IF CanPin(table, r, g)
       THEN /\ SetTable(Pinned(table, r), object)
            /\ Locals(t, [call[t] EXCEPT !.reference = <<r, g>>]) /\ Goto(t, "retain")
       ELSE UNCHANGED <<coreVars, call>> /\ Goto(t, "abort")
  /\ UNCHANGED <<endpointVars, fate, ingressVars>>

\* KObjectAcquire of the pinned row's object, without the table's lock.
RetainObject(t) ==
  /\ At(t, "retain")
  /\ SetTable(table, IF object > 0 THEN object + 1 ELSE 0)
  /\ Locals(t, [call[t] EXCEPT !.result = IF object > 0 THEN "Ok" ELSE "RetainFailed"])
  /\ Goto(t, "unpin") /\ UNCHANGED <<endpointVars, fate, ingressVars>>

UnpinRow(t) ==
  LET r == call[t].reference[1]
      intact == IdentityIntact(table, r, call[t].reference[2])
      retained == call[t].result = "Ok" IN
  /\ At(t, "unpin")
  /\ SetTable(Unpinned(table, r), IF retained /\ ~intact THEN object - 1 ELSE object)
  /\ Goto(t, IF retained /\ intact THEN "publish_handle" ELSE "abort")
  /\ UNCHANGED <<endpointVars, fate, ingressVars, call>>

\* HandleTablePublish: refused when the table was drained meanwhile.
PublishImported(t) ==
  /\ At(t, "publish_handle")
  /\ IF destination = "reserved"
     THEN SetDestination("live") /\ UNCHANGED coreVars /\ Goto(t, "release")
     ELSE SetTable(table, object - 1) /\ UNCHANGED ingressVars /\ Goto(t, "abort")
  /\ UNCHANGED <<endpointVars, fate, call>>

\* AbortImportReservation: HandleTableAbort.
AbortImport(t) ==
  /\ At(t, "abort")
  /\ SetDestination(IF destination = "reserved" THEN "free" ELSE destination)
  /\ Goto(t, "release") /\ UNCHANGED <<coreVars, endpointVars, fate, call>>

\* The service drains its table, closes the imported handle; the client closes its own.
DrainDestination ==
  /\ "import" \in mix /\ destination # "drained" /\ SetDestination("drained")
  /\ SetTable(table, IF destination = "live" THEN object - 1 ELSE object)
  /\ UNCHANGED <<endpointVars, fate, pc, call>>

CloseImported ==
  /\ destination = "live" /\ SetDestination("free")
  /\ SetTable(table, object - 1) /\ UNCHANGED <<endpointVars, fate, pc, call>>

CloseSource ==
  /\ "export" \in mix /\ source /\ source' = FALSE /\ SetTable(table, object - 1)
  /\ UNCHANGED <<endpointVars, fate, pc, call, receipt, destination, mix>>

-----------------------------------------------------------------------------
(* CloseEndpointHandle *)

\* The reference under which the handle is recognised.
RecogniseEndpoint(t, r) ==
  /\ At(t, "idle") /\ handle[r] = "open"
  /\ refcount' = [refcount EXCEPT ![r] = @ + 1]
  /\ Locals(t, [NoCall EXCEPT !.op = "close", !.role = r, !.key = slot.key])
  /\ Goto(t, IF r = "acceptor" THEN "accepted" ELSE "detach")
  /\ UNCHANGED <<coreVars, slot, generation, handle, fate, ingressVars>>

\* ServiceDirectoryReleaseAcceptedHandle: the owner of an accepted channel goes first.
ReleaseAccepted(t) ==
  /\ At(t, "accepted")
  /\ IF ~slot.outer_owner_live THEN Goto(t, "detach") /\ UNCHANGED <<slot, call>>
     ELSE IF Releasing THEN Goto(t, "deref") /\ UNCHANGED <<slot, call>>
     ELSE OwnerMark(t, call[t])
  /\ UNCHANGED <<coreVars, generation, handle, refcount, fate, ingressVars>>

\* It may be Busy: then the handle stays.
AcceptedReleased(t) ==
  /\ At(t, "owned") /\ call[t].op = "close"
  /\ ReleaseOwnerEnds(t)
  /\ Locals(t, [call[t] EXCEPT !.result = "Ok"])
  /\ Goto(t, IF OwnerLetsGo(t) THEN "detach" ELSE "deref")
  /\ UNCHANGED <<generation, handle, refcount, fate, ingressVars>>

\* HandleTableDetach; a concurrent close may have been first.
DetachHandle(t) ==
  LET r == call[t].role IN
  /\ At(t, "detach")
  /\ IF handle[r] = "open" THEN handle' = [handle EXCEPT ![r] = "none"] /\ Deref(t, 2, "cancel")
     ELSE UNCHANGED handle /\ Deref(t, 1, "idle")
  /\ UNCHANGED <<coreVars, slot, generation, fate, ingressVars>>

CancelEndpointState(t) ==
  /\ At(t, "cancel") /\ Return(t)
  /\ IF call[t].role = "acceptor" THEN ClearsReceipts({call[t].key}) ELSE UNCHANGED ingressVars
  /\ UNCHANGED <<coreVars, endpointVars, fate>>

\* HandleTableDrain of a process that ends with the handle open.
DrainHandle(t, r) ==
  /\ At(t, "idle") /\ handle[r] = "open"
  /\ handle' = [handle EXCEPT ![r] = "none"]
  /\ Locals(t, [NoCall EXCEPT !.op = "drain", !.role = r, !.key = slot.key])
  /\ Goto(t, "deref")
  /\ UNCHANGED <<coreVars, slot, generation, refcount, fate, ingressVars>>

-----------------------------------------------------------------------------
(* The specification *)

\* The steps of the modules below.
EndpointStep(t) ==
  /\ \/ DriveDrain(t) \/ DropReference(t) \/ DestroyEndpointObject(t)
     \/ ReleaseOwner(t) \/ ReleaseOwnerEnd(t) \/ InitiatorUnpublished(t)
  /\ UNCHANGED ingressVars

Connects ==
  /\ \/ CreateReserve \/ CreatePair \/ CreateFails
     \/ PublishInitiator \/ ServiceEndpointActivate \/ PublishAcceptor
  /\ UNCHANGED ingressVars

Acquires(t) == AcquireOperation(t) \/ PinOperation(t) \/ BorrowDirection(t) \/ ReleasePin(t) \/ HelpDrain(t)
Sends(t) == ReserveRequest(t) \/ SendRequest(t) \/ CancelSentRequest(t)
Receives(t) ==
  \/ ReservePendingReceipt(t) \/ ReceiveFrame(t) \/ CommitReceivedRequest(t) \/ RejectReceivedRequest(t)
  \/ PublishReceipt(t) \/ AbandonReceipt(t)
Replies(t) == ClaimReceipt(t) \/ SendReply(t) \/ CompleteReceivedRequest(t) \/ FinishReceipt(t)
Transfers(t) ==
  \/ RetainSource(t) \/ ObjectTransferExport(t) \/ ObjectTransferRevoke(t)
  \/ ReserveHandle(t) \/ PinRow(t) \/ RetainObject(t) \/ UnpinRow(t) \/ PublishImported(t) \/ AbortImport(t)
Closes(t) == ReleaseAccepted(t) \/ AcceptedReleased(t) \/ DetachHandle(t) \/ CancelEndpointState(t)

Next ==
  \/ Connects \/ ServiceEndpointIngressCancelProcess \/ DrainDestination \/ CloseImported \/ CloseSource
  \/ \E t \in Threads :
       \/ EndpointStep(t) \/ Acquires(t) \/ Sends(t) \/ Receives(t) \/ Replies(t) \/ Transfers(t) \/ Closes(t)
       \/ \E r \in Roles : LookupEndpoint(t, r) \/ RecogniseEndpoint(t, r) \/ DrainHandle(t, r)

Spec == Init /\ [][Next]_vars

-----------------------------------------------------------------------------
(* Properties *)

\* The places of a thread whose operation is pinned.
PinnedPlaces ==
  {"claim", "borrow", "release", "reserve", "send", "cancel_sent", "pend", "receive", "commit", "reject", "publish",
   "abandon", "answer", "complete", "retire", "unclaim", "retain_source", "export", "revoke", "reserve_handle",
   "pin_row", "retain", "unpin", "publish_handle", "abort"}
Driving == {"drain", "close", "finish", "cleanup", "settle"}
Places == PinnedPlaces \cup Driving \cup
  {"idle", "acquire", "pin", "help", "deref", "destroy", "drive", "owned", "accepted", "detach", "cancel"}

\* Every variable has its type: no count of references or pins goes below
\* zero, and no slot, row or receipt is given out past its last generation.
TypeOK ==
  /\ EndpointTypeOK
  /\ receipt \in [Receipts -> ReceiptRows]
  /\ source \in BOOLEAN /\ destination \in {"free", "reserved", "live", "drained"}
  /\ pc \in [Threads -> Places]

\* The channel stays what CoreIsCanonical demands through every interleaving
\* of operations, drains and recycling: no operation ever answers
\* CorruptState.  A canonical core has one driver, who finds the core in his
\* channel and no other driver in it.
CoreNeverCorrupt ==
  /\ CoreIsCanonical
  /\ \A t \in Threads : pc[t] \in Driving =>
       /\ slot.drain_driver_active /\ ResolveExact(call[t].key)
       /\ \A u \in Threads \ {t} : pc[u] \notin Driving
       /\ At(t, "drain") => core.epoch = call[t].key /\ core.state \in {"Open", "Draining"} /\ ~core.drain_driver_active

\* A closer that finds operations pinned, or a driver at work, leaves: yet a
\* channel that is Draining always has a thread that will go on with it (a
\* driver, a pinned operation, a thread on its way to drive), or a live
\* owner who has the released charge to try again.
NoAbandonedDrain ==
  slot.state = "Draining" =>
    \/ \E t \in Threads : call[t].key = slot.key /\ pc[t] \in PinnedPlaces \cup Driving \cup {"help", "drive"}
    \/ slot.outer_owner_live /\ slot.detached_cleanup

\* What an operation borrowed is neither closed under it nor given to
\* another channel: until it has dropped its reference its slot is not
\* recycled, and until it has released its pin the ports, tables and
\* ledgers stay attached.  An operation that waits for its drain thus finds
\* the slot again, and ServiceEndpointReleaseOperation never answers
\* StaleIdentity, which would leak the reference.
NothingInUseDetached ==
  \A t \in Threads :
    /\ pc[t] \in PinnedPlaces =>
         /\ t \in core.pins /\ core.epoch = call[t].key
         /\ core.attached /\ table.state \in {"Open", "Draining"}
    /\ pc[t] \in PinnedPlaces \cup {"acquire", "pin", "help", "deref"} =>
         /\ ResolveExact(call[t].key) /\ slot.endpoint_reference_live[call[t].role]
         /\ refcount[call[t].role] > 0

\* A request that was reserved ends once: cancelled, completed by its
\* reply, or delivered to the cleanup sink by the drain.  It is in the
\* ledger, or with the drain's driver, until then, and never a second time;
\* a reply that was sent always completes its request.
RequestEndsOnce ==
  /\ \A id \in RequestIds : fate[id] # "twice"
  /\ {id \in RequestIds : fate[id] = "live"} = LiveRequests(ledger) \cup UNION {call[t].requests : t \in Threads}
  /\ \A t \in Threads : At(t, "complete") => Completes(t)

\* The exported object has exactly the references that are held: by the
\* client's handle, the table's rows, the calls under way and the imported
\* handle.  A pinned row keeps it alive for the import that retains it.
ObjectReferencesExact ==
  LET Count(S) == Cardinality(S)
      Carries(t) == \/ At(t, "export")
                    \/ pc[t] \in {"unpin", "publish_handle"} /\ call[t].result = "Ok" IN
  /\ object = (IF source THEN 1 ELSE 0) + Count(Holding(table)) + Count({t \in Threads : Carries(t)})
              + (IF destination = "live" THEN 1 ELSE 0)
  /\ \A t \in Threads : At(t, "retain") => object > 0
=============================================================================
