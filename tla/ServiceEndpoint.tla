--------------------------- MODULE ServiceEndpoint ---------------------------
(***************************************************************************)
(* The endpoint owner (kernel/core/service_endpoint.{h,cpp}): one slot     *)
(* that holds a ChannelCore and the two endpoint objects, its life from    *)
(* creation to recycling, and DriveDrain, by which closers, the last       *)
(* operation and the owner hand the drain of the channel to one another.   *)
(*                                                                         *)
(* A step is one hold of the owner's lock or of the core's, or the work    *)
(* between two.  A channel key (slot, generation, epoch) is its            *)
(* generation: a generation and an epoch are given out once.  The pair's   *)
(* references travel as ServiceDirectory moves them: the initiator is      *)
(* published to the client before the activation, the acceptor after it.   *)
(***************************************************************************)
EXTENDS ChannelCore

CONSTANT kServiceEndpointGenerationMaximum   \* a slot is retired after this many channels

ASSUME ServiceEndpointAssumption == kServiceEndpointGenerationMaximum \in Nat \ {0}

VARIABLES
  slot,        \* ServiceEndpointOwnerSlot
  generation,  \* g_last_endpoint_generations of the slot
  handle,      \* where the pair's reference to each endpoint object is
  refcount,    \* KObject::refcount of each endpoint object
  fate,        \* did each request of the channel end, once? (a history variable)
  pc, call     \* where each thread stands, and the locals of its call

endpointVars == <<slot, generation, handle, refcount>>

Roles == {"initiator", "acceptor"}
SlotStatesOf == {"Empty", "Constructing", "Private", "Open", "Draining", "Drained", "Retired"}
EmptySlot == [state |-> "Empty", key |-> 0, endpoint_reference_live |-> [r \in Roles |-> FALSE],
              outer_owner_live |-> FALSE, drain_driver_active |-> FALSE, drain_retry_requested |-> FALSE,
              detached_cleanup |-> FALSE]
Fates == {"unused", "live", "ended", "twice"}
NoCall == [op |-> "none", role |-> "initiator", key |-> 0, next |-> "idle", finalize |-> FALSE,
           result |-> "Ok", detached |-> "none", requests |-> {}, id |-> 0, token |-> <<>>, reference |-> <<>>]

EndpointTypeOK ==
  /\ CoreTypeOK
  /\ slot \in [state: SlotStatesOf, key: 0..kServiceEndpointGenerationMaximum,
               endpoint_reference_live: [Roles -> BOOLEAN], outer_owner_live: BOOLEAN,
               drain_driver_active: BOOLEAN, drain_retry_requested: BOOLEAN, detached_cleanup: BOOLEAN]
  /\ generation \in 0..kServiceEndpointGenerationMaximum
  /\ handle \in [Roles -> {"none", "unpublished", "queued", "open"}] /\ refcount \in [Roles -> Nat]
  /\ fate \in [RequestIds -> Fates]

EndpointInit ==
  /\ CoreInit
  /\ slot = EmptySlot /\ generation = 0
  /\ handle = [r \in Roles |-> "none"] /\ refcount = [r \in Roles |-> 0]
  /\ fate = [id \in RequestIds |-> "unused"]
  /\ pc = [t \in Threads |-> "idle"] /\ call = [t \in Threads |-> NoCall]

At(t, at) == pc[t] = at
Goto(t, at) == pc' = [pc EXCEPT ![t] = at]
Locals(t, locals) == call' = [call EXCEPT ![t] = locals]
Return(t) == Goto(t, "idle") /\ Locals(t, NoCall)

\* The rest of the call after a destruction or a drain; only the owner looks at the result.
Continue(t, result) ==
  IF call[t].next = "idle" THEN Return(t)
  ELSE /\ Goto(t, call[t].next)
       /\ Locals(t, [NoCall EXCEPT !.op = call[t].op, !.role = call[t].role, !.key = call[t].key,
                                   !.result = IF call[t].next = "owned" THEN result ELSE "Ok"])

\* An end of requests.  One that is not live ends a second time.
Ended(ids) == [id \in RequestIds |-> IF id \notin ids THEN fate[id] ELSE IF fate[id] = "live" THEN "ended" ELSE "twice"]

-----------------------------------------------------------------------------
(* The slot *)

\* ResolveExactLocked.
ResolveExact(key) == slot.key = key /\ slot.state \in {"Private", "Open", "Draining", "Drained"}

\* Mutant: no slot is retired.
NeverRetired(key) == EmptySlot

\* A slot that is cleared keeps its generation count outside.
ClearedSlot(key) == [EmptySlot EXCEPT !.state = IF key = kServiceEndpointGenerationMaximum THEN "Retired" ELSE "Empty"]

\* TryRecycleLocked's test.
Recyclable(s) ==
  /\ s.state = "Drained" /\ ~s.outer_owner_live
  /\ ~s.drain_driver_active /\ ~s.drain_retry_requested /\ ~s.detached_cleanup
  /\ \A r \in Roles : ~s.endpoint_reference_live[r]

\* The end of a hold of the owner's lock: the slot, recycled if it can be.
SetSlot(s) ==
  IF Recyclable(s) THEN slot' = ClearedSlot(s.key) /\ CoreCleared ELSE slot' = s /\ UNCHANGED coreVars

\* A close turns a channel that is not yet draining to Draining.
Closing(s) == IF s.state \in {"Private", "Open"} THEN [s EXCEPT !.state = "Draining"] ELSE s

\* release_driver_active: a thread is in ServiceEndpointReleaseOwner.
Releasing == \E u \in Threads : call[u].next = "owned" \/ pc[u] = "owned"

-----------------------------------------------------------------------------
(* Creation: ServiceEndpointCreatePair and its caller ServiceDirectory *)

CreateReserve ==
  /\ slot.state = "Empty"
  /\ generation' = generation + 1
  /\ slot' = [EmptySlot EXCEPT !.state = "Constructing", !.key = generation + 1]
  /\ UNCHANGED <<coreVars, handle, refcount, fate, pc, call>>

CreatePair ==
  /\ slot.state = "Constructing"
  /\ ChannelCoreInitialize(slot.key)
  /\ slot' = [slot EXCEPT !.state = "Private", !.outer_owner_live = TRUE,
                          !.endpoint_reference_live = [r \in Roles |-> TRUE]]
  /\ handle' = [r \in Roles |-> "unpublished"] /\ refcount' = [r \in Roles |-> 1]
  /\ fate' = [id \in RequestIds |-> "unused"]
  /\ UNCHANGED <<generation, pc, call>>

\* The core could not be built: no charge, no memory.
CreateFails ==
  /\ slot.state = "Constructing"
  /\ slot' = ClearedSlot(slot.key)
  /\ UNCHANGED <<coreVars, generation, handle, refcount, fate, pc, call>>

\* ServiceDirectoryConnect publishes the client's end and then activates.
PublishInitiator ==
  /\ handle["initiator"] = "unpublished"
  /\ handle' = [handle EXCEPT !["initiator"] = "open"]
  /\ UNCHANGED <<coreVars, slot, generation, refcount, fate, pc, call>>

ServiceEndpointActivate ==
  /\ slot.state = "Private" /\ handle["initiator"] # "unpublished" /\ ~Releasing
  /\ slot' = [slot EXCEPT !.state = "Open"]
  /\ handle' = [handle EXCEPT !["acceptor"] = "queued"]
  /\ UNCHANGED <<coreVars, generation, refcount, fate, pc, call>>

\* ServiceDirectoryAccept publishes the server's end of a queued channel.
PublishAcceptor ==
  /\ handle["acceptor"] = "queued" /\ ~Releasing
  /\ handle' = [handle EXCEPT !["acceptor"] = "open"]
  /\ UNCHANGED <<coreVars, slot, generation, refcount, fate, pc, call>>

-----------------------------------------------------------------------------
(* References to an endpoint object *)

\* KObjectRelease of n references; the last one destroys.
Deref(t, n, next) ==
  LET r == call[t].role IN
  /\ refcount' = [refcount EXCEPT ![r] = @ - n]
  /\ IF refcount[r] = n
     THEN Goto(t, "destroy") /\ Locals(t, [call[t] EXCEPT !.next = next])
     ELSE IF next = "idle" THEN Return(t) ELSE Goto(t, next) /\ UNCHANGED call

DropReference(t) ==
  /\ At(t, "deref") /\ Deref(t, 1, "idle")
  /\ UNCHANGED <<coreVars, slot, generation, handle, fate>>

DestroyEndpointObject(t) ==
  LET r == call[t].role
      gone == Closing([slot EXCEPT !.endpoint_reference_live[r] = FALSE]) IN
  /\ At(t, "destroy")
  /\ \/ /\ ResolveExact(call[t].key) /\ slot.endpoint_reference_live[r]
        /\ SetSlot(gone)
        /\ IF gone.state = "Draining" THEN Goto(t, "drive") /\ UNCHANGED call ELSE Continue(t, "Ok")
     \/ /\ ~(ResolveExact(call[t].key) /\ slot.endpoint_reference_live[r])
        /\ Continue(t, "Ok") /\ UNCHANGED <<coreVars, slot>>
  /\ UNCHANGED <<generation, handle, refcount, fate>>

-----------------------------------------------------------------------------
(* DriveDrain *)

\* Mutant: a contender leaves without a word.
NotHandedOff == slot

\* The contender's message to the driver.
RetryRequested == [slot EXCEPT !.drain_retry_requested = TRUE]

DriveEnter(t) ==
  LET key == call[t].key  s == Closing(slot) IN
  /\ At(t, "drive")
  /\ \/ ~ResolveExact(key) /\ Continue(t, "StaleIdentity") /\ UNCHANGED slot
     \/ ResolveExact(key) /\ s.state = "Drained" /\ Continue(t, "Ok") /\ UNCHANGED slot
     \/ /\ ResolveExact(key) /\ s.state = "Draining" /\ s.drain_driver_active
        /\ slot' = RetryRequested /\ Continue(t, "Busy")
     \/ /\ ResolveExact(key) /\ s.state = "Draining" /\ ~s.drain_driver_active
        /\ slot' = [s EXCEPT !.drain_driver_active = TRUE, !.drain_retry_requested = FALSE, !.detached_cleanup = FALSE]
        /\ Locals(t, [call[t] EXCEPT !.result = "Ok", !.requests = {},
                                     !.detached = IF s.detached_cleanup THEN "charge" ELSE "none"])
        /\ Goto(t, IF s.detached_cleanup THEN "cleanup" ELSE "drain")
  /\ UNCHANGED <<coreVars, generation, handle, refcount, fate>>

\* ChannelCoreDrainExpected, first hold; another driver of the core is never met.
DriveBegin(t) ==
  /\ At(t, "drain") /\ core.epoch = call[t].key /\ core.state \in {"Open", "Draining"} /\ ~core.drain_driver_active
  /\ DrainBegin
  /\ Locals(t, [call[t] EXCEPT !.finalize = Quiescent])
  /\ Goto(t, "close")
  /\ UNCHANGED <<endpointVars, fate>>

DriveClose(t) ==
  /\ At(t, "close") /\ DrainClose(call[t].finalize)
  /\ Goto(t, "finish") /\ UNCHANGED <<endpointVars, fate, call>>

DriveEnd(t) ==
  /\ At(t, "finish") /\ DrainEnd(call[t].finalize)
  /\ IF DrainDetaches(call[t].finalize)
     THEN Goto(t, "cleanup") /\ Locals(t, [call[t] EXCEPT !.detached = "complete", !.requests = LiveRequests(ledger)])
     ELSE Goto(t, "settle") /\ Locals(t, [call[t] EXCEPT !.result = "Busy"])
  /\ UNCHANGED <<endpointVars, fate>>

\* DeliverRequestCleanup, then ChannelCoreReleaseDetachedCleanup; the
\* release of the resource charge may fail and leaves the charge to a later driver.
DriveCleanup(t) ==
  /\ At(t, "cleanup")
  /\ fate' = Ended(call[t].requests)
  /\ IF call[t].detached = "complete" THEN ReleaseDetached ELSE UNCHANGED coreVars
  /\ \E released \in BOOLEAN :
       Locals(t, [call[t] EXCEPT !.requests = {}, !.detached = IF released THEN "none" ELSE "charge",
                                 !.result = IF released THEN "Ok" ELSE "ResourceReleaseFailed"])
  /\ Goto(t, "settle")
  /\ UNCHANGED endpointVars

DriveSettle(t) ==
  LET result == call[t].result
      retry == result = "Busy" /\ slot.drain_retry_requested
      settled == [slot EXCEPT !.detached_cleanup = call[t].detached = "charge",
                              !.state = IF result = "Ok" THEN "Drained" ELSE @,
                              !.drain_retry_requested = FALSE,
                              !.drain_driver_active = retry] IN
  /\ At(t, "settle")
  /\ SetSlot(settled)
  /\ \/ retry /\ Goto(t, "drain") /\ Locals(t, [call[t] EXCEPT !.result = "Ok"])
     \/ ~retry /\ Continue(t, result)
  /\ UNCHANGED <<generation, handle, refcount, fate>>

DriveDrain(t) ==
  DriveEnter(t) \/ DriveBegin(t) \/ DriveClose(t) \/ DriveEnd(t) \/ DriveCleanup(t) \/ DriveSettle(t)

-----------------------------------------------------------------------------
(* ServiceEndpointReleaseOwner, as ServiceDirectory calls it: one caller at  *)
(* a time, again after Busy.                                                 *)

OwnerMark(t, locals) ==
  /\ slot' = Closing(slot)
  /\ Locals(t, [locals EXCEPT !.key = slot.key, !.next = "owned"])
  /\ Goto(t, "drive")

\* The test of its second hold.
OwnerLetsGo(t) ==
  /\ call[t].result = "Ok"
  /\ ResolveExact(call[t].key) /\ slot.outer_owner_live /\ slot.state = "Drained"
  /\ ~slot.drain_driver_active /\ ~slot.drain_retry_requested /\ ~slot.detached_cleanup

ReleaseOwnerEnds(t) ==
  IF OwnerLetsGo(t) THEN SetSlot([slot EXCEPT !.outer_owner_live = FALSE]) ELSE UNCHANGED <<coreVars, slot>>

\* ServiceDirectoryDrainOwnedChannel: a channel nobody accepted, or a service that closes.
ReleaseOwner(t) ==
  /\ At(t, "idle") /\ slot.outer_owner_live /\ ~Releasing /\ handle["initiator"] # "unpublished"
  /\ OwnerMark(t, [NoCall EXCEPT !.op = "owner", !.role = "acceptor"])
  /\ UNCHANGED <<coreVars, generation, handle, refcount, fate>>

\* The second hold, and the reference to an acceptor that was never published.
ReleaseOwnerEnd(t) ==
  /\ At(t, "owned") /\ call[t].op = "owner"
  /\ ReleaseOwnerEnds(t)
  /\ IF handle["acceptor"] \in {"unpublished", "queued"}
     THEN handle' = [handle EXCEPT !["acceptor"] = "none"] /\ Goto(t, "deref") /\ Locals(t, [call[t] EXCEPT !.result = "Ok"])
     ELSE Return(t) /\ UNCHANGED handle
  /\ UNCHANGED <<generation, refcount, fate>>

\* The client's table refused the initiator: its reference is released.
InitiatorUnpublished(t) ==
  /\ At(t, "idle") /\ handle["initiator"] = "unpublished"
  /\ handle' = [handle EXCEPT !["initiator"] = "none"]
  /\ Goto(t, "deref") /\ Locals(t, [NoCall EXCEPT !.op = "owner", !.role = "initiator", !.key = slot.key])
  /\ UNCHANGED <<coreVars, slot, generation, refcount, fate>>
=============================================================================
