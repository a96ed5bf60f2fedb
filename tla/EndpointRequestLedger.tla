----------------------- MODULE EndpointRequestLedger -----------------------
(***************************************************************************)
(* The request ledger of one direction of a channel                        *)
(* (kernel/ipc/endpoint_request_ledger.{h,cpp}): request ids are taken in  *)
(* order, once each, and live from their reservation until a cancellation, *)
(* a completion or the drain.  The ledger has no lock of its own;          *)
(* ChannelCore calls it under the core's.                                  *)
(*                                                                         *)
(* A ledger is a record and each operation a status test and a function.   *)
(* A slot is named by the request it holds; its index and the free hint    *)
(* are left out.                                                           *)
(***************************************************************************)
EXTENDS Naturals, FiniteSets

CONSTANTS
  kEndpointRequestLedgerCapacity,
  kEndpointRequestIdMaximum        \* the largest id; after it the sequence is retired

ASSUME EndpointRequestLedgerAssumption ==
  kEndpointRequestLedgerCapacity \in Nat \ {0} /\ kEndpointRequestIdMaximum \in Nat \ {0}

RequestIds == 1..kEndpointRequestIdMaximum
SlotStates == {"Free", "Reserved", "Committed"}
NoRequests == [id \in RequestIds |-> "Free"]

Ledgers == [state: {"Uninitialized", "Open", "SequenceRetired", "Draining"}, identity: Nat,
            next_request_id: 0..kEndpointRequestIdMaximum, slots: [RequestIds -> SlotStates]]

NoLedger == [state |-> "Uninitialized", identity |-> 0, next_request_id |-> 0, slots |-> NoRequests]

\* EndpointRequestLedgerInitialize.
LedgerInitialized(epoch) == [state |-> "Open", identity |-> epoch, next_request_id |-> 1, slots |-> NoRequests]

LiveRequests(ledger) == {id \in RequestIds : ledger.slots[id] # "Free"}

\* EndpointRequestLedgerIsCanonical.
LedgerIsCanonical(ledger) ==
  /\ Cardinality(LiveRequests(ledger)) <= kEndpointRequestLedgerCapacity
  /\ (ledger.state = "Open") <=> (ledger.next_request_id # 0)
  /\ ledger.state \in {"Uninitialized", "Draining"} => LiveRequests(ledger) = {}
  /\ ledger.state = "Open" => \A id \in LiveRequests(ledger) : id < ledger.next_request_id

-----------------------------------------------------------------------------
ReserveStatus(ledger, id) ==
  CASE ledger.state = "Draining" -> "Draining"
    [] ledger.state = "SequenceRetired" -> "SequenceExhausted"
    [] ledger.state = "Open" /\ id < ledger.next_request_id -> "ReplayRejected"
    [] ledger.state = "Open" /\ id > ledger.next_request_id -> "OutOfOrder"
    [] OTHER -> IF Cardinality(LiveRequests(ledger)) = kEndpointRequestLedgerCapacity THEN "Full" ELSE "Ok"

\* EndpointRequestLedgerReserve.
RequestReserved(ledger, id) ==
  LET last == id = kEndpointRequestIdMaximum IN
  [ledger EXCEPT !.slots[id] = "Reserved",
                 !.next_request_id = IF last THEN 0 ELSE id + 1,
                 !.state = IF last THEN "SequenceRetired" ELSE "Open"]

\* What Commit, Cancel and Complete test first.
FindStatus(ledger, epoch, id) ==
  IF ledger.identity # epoch THEN "StaleIdentity"
  ELSE IF ledger.state = "Draining" THEN "Draining"
  ELSE IF ledger.slots[id] = "Free" THEN "Missing" ELSE "Ok"

CommitStatus(ledger, epoch, id) ==
  IF FindStatus(ledger, epoch, id) = "Ok" /\ ledger.slots[id] # "Reserved"
  THEN "ReplayRejected" ELSE FindStatus(ledger, epoch, id)

\* EndpointRequestLedgerCommit.
RequestCommitted(ledger, id) == [ledger EXCEPT !.slots[id] = "Committed"]

CompleteStatus(ledger, epoch, id) ==
  IF FindStatus(ledger, epoch, id) = "Ok" /\ ledger.slots[id] # "Committed"
  THEN "NotCommitted" ELSE FindStatus(ledger, epoch, id)

\* ConsumeSlot, by EndpointRequestLedgerCancel and Complete.
RequestConsumed(ledger, id) == [ledger EXCEPT !.slots[id] = "Free"]

\* Mutant: the slots are not reset.
KeepsRequests(ledger) == [ledger EXCEPT !.state = "Draining", !.next_request_id = 0]

\* EndpointRequestLedgerDrain; what it detaches is LiveRequests.
LedgerDrained(ledger) == [ledger EXCEPT !.state = "Draining", !.next_request_id = 0, !.slots = NoRequests]
=============================================================================
