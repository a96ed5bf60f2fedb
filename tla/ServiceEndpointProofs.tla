----------------------- MODULE ServiceEndpointProofs -----------------------
(***************************************************************************)
(* The service endpoint, for any number of threads, channels, requests,    *)
(* receipts and rows: the core of a channel is never corrupt, no drain is  *)
(* abandoned, nothing in use is detached, a request ends once, and the     *)
(* references to endpoints and to the exported object are exact.           *)
(*                                                                         *)
(* The invariant has one part per thing that is counted or handed over:    *)
(* the slot and its core, the driver of the drain, the references, the     *)
(* requests, their holders, the receipts, the object.  A thread matters to *)
(* each part only by what it holds, so a step is checked against a part    *)
(* only where it changes who holds what.                                   *)
(***************************************************************************)
EXTENDS ServiceEndpointIngress, FiniteSetTheorems, SequenceTheorems, TLAPS

(* Locals *)

Calls ==
  [op: Operations \cup {"none", "close", "drain", "owner"}, role: Roles, key: 0..kServiceEndpointGenerationMaximum,
   next: {"idle", "deref", "cancel", "owned"}, finalize: BOOLEAN,
   result: {"Ok", "Busy", "StaleIdentity", "ResourceReleaseFailed", "RetainFailed"},
   detached: {"none", "charge", "complete"}, requests: SUBSET RequestIds, id: 0..kEndpointRequestIdMaximum,
   token: {<<>>} \cup (Receipts \X (0..kServiceEndpointIngressReceiptGenerationMaximum)),
   reference: {<<>>} \cup (Rows \X Generations)]

(* The places at which a call has somewhere to go on after a drain.        *)
Underway == {"drive"} \cup Driving

(* The places that are reached with known locals.                          *)
Known == {"borrow", "claim", "publish_handle"}

CallsInv ==
  /\ pc \in [Threads -> Places] /\ call \in [Threads -> Calls]
  /\ \A t \in Threads :
       /\ pc[t] \notin Underway \cup {"destroy"} => call[t].next = "idle"
       /\ pc[t] = "destroy" => call[t].next \in {"idle", "cancel"}
       /\ call[t].requests # {} => pc[t] = "cleanup"
       /\ pc[t] = "borrow" => call[t].op \in Operations
       /\ pc[t] = "claim" => call[t].op = "reply"
       /\ pc[t] = "publish_handle" => call[t].result = "Ok"
       /\ pc[t] = "accepted" => call[t].op = "close" /\ call[t].role = "acceptor"

(* The slot and its core *)

Up == slot.state \in {"Private", "Open", "Draining", "Drained"}
Active == core.state \in {"Open", "Draining"}

SlotInv ==
  /\ slot.state \in {"Empty", "Retired"} =>
       slot.key = 0 /\ ~slot.outer_owner_live /\ \A r \in Roles : ~slot.endpoint_reference_live[r]
  /\ slot.state = "Empty" => generation < kServiceEndpointGenerationMaximum
  /\ slot.state = "Constructing" \/ Up => slot.key = generation /\ generation > 0
  /\ ~Up => /\ core = NoCore /\ ledger = NoLedger /\ ~slot.outer_owner_live
            /\ ~slot.drain_driver_active /\ ~slot.drain_retry_requested /\ ~slot.detached_cleanup
            /\ \A r \in Roles : ~slot.endpoint_reference_live[r]
  /\ Up => core.epoch = slot.key /\ ledger.identity = slot.key
  /\ slot.state \in {"Private", "Open"} =>
       core.state = "Open" /\ ~slot.drain_driver_active /\ ~slot.drain_retry_requested
  /\ slot.state = "Draining" => core.state \in {"Open", "Draining", "Drained"}
  /\ slot.state = "Drained" => core.state = "Drained" /\ ~slot.drain_driver_active /\ ~slot.drain_retry_requested
  /\ slot.state \in {"Private", "Open", "Draining"} => slot.outer_owner_live
  /\ slot.detached_cleanup => slot.state = "Draining" /\ core.state = "Drained" /\ ~slot.drain_driver_active
  /\ slot.state = "Draining" /\ ~slot.drain_driver_active /\ ~slot.detached_cleanup => Active
  /\ slot.drain_driver_active => slot.state = "Draining"

CoreInv ==
  /\ core.state = "Uninitialized" => core = NoCore /\ ledger = NoLedger
  /\ Active => core.attached /\ ~core.request_ledgers_drained /\ ledger.state \in {"Open", "SequenceRetired"}
  /\ core.state = "Open" => ~core.drain_driver_active /\ ~core.ports_close_notified /\ table.state = "Open"
  /\ core.state = "Draining" => table.state = "Open" \/ (table.state = "Closed" /\ core.pins = {})
  /\ core.state = "Drained" =>
       /\ ~core.attached /\ core.pins = {} /\ ~core.drain_driver_active
       /\ core.ports_close_notified /\ core.request_ledgers_drained /\ ledger.state = "Draining"
  /\ ~Active => table.state \in {"Closed", "Uninitialized"}
  /\ core.drain_driver_active => \E t \in Threads : pc[t] \in {"close", "finish"}
  /\ \A t \in Threads : t \in core.pins <=> pc[t] \in PinnedPlaces

(* The driver of the drain *)

(* A thread, other than the driver, that will look at the channel again.   *)
WillLook(t) == call[t].key = slot.key /\ pc[t] \in PinnedPlaces \cup {"help", "drive"}

(* A drain without a driver, and not left to the owner, has such a thread. *)
DrainSeen ==
  slot.state = "Draining" /\ ~slot.drain_driver_active /\ ~slot.detached_cleanup => \E t \in Threads : WillLook(t)

DriverInv ==
  /\ DrainSeen
  /\ slot.drain_driver_active => \E t \in Threads : pc[t] \in Driving
  /\ \A t \in Threads : pc[t] \in Driving =>
       /\ slot.drain_driver_active /\ call[t].key = slot.key
       /\ \A u \in Threads \ {t} : pc[u] \notin Driving
  /\ \A t \in Threads :
       /\ pc[t] = "drain" => Active /\ ~core.drain_driver_active /\ call[t].detached = "none"
       /\ pc[t] \in {"close", "finish"} =>
            /\ core.state = "Draining" /\ core.drain_driver_active /\ call[t].detached = "none"
            /\ IF call[t].finalize THEN core.pins = {} /\ (pc[t] = "finish" => table.state = "Closed")
               ELSE slot.drain_retry_requested \/ \E u \in Threads : WillLook(u)
       /\ pc[t] = "cleanup" =>
            core.state = "Drained" /\ call[t].detached \in {"charge", "complete"} /\ ~core.drain_driver_active
       /\ pc[t] = "settle" =>
            \/ /\ call[t].result = "Busy" /\ call[t].detached = "none"
               /\ core.state = "Draining" /\ ~core.drain_driver_active
               /\ slot.drain_retry_requested \/ \E u \in Threads : WillLook(u)
            \/ call[t].result = "Ok" /\ call[t].detached = "none" /\ core.state = "Drained"
            \/ call[t].result = "ResourceReleaseFailed" /\ call[t].detached = "charge" /\ core.state = "Drained"

(* The one that releases the owner's hold.                                 *)
Releases(t) == call[t].next = "owned" \/ pc[t] = "owned"

OwnerInv ==
  \A t \in Threads : Releases(t) =>
    /\ slot.outer_owner_live /\ slot.key = call[t].key /\ slot.state \in {"Draining", "Drained"}
    /\ call[t].role = "acceptor" /\ call[t].op \in {"owner", "close"}
    /\ \A u \in Threads \ {t} : ~Releases(u)

(* References to the endpoint objects *)

HoldsReference(t) ==
  \/ pc[t] \in PinnedPlaces \cup {"acquire", "pin", "help", "deref", "accepted", "detach"}
  \/ pc[t] = "owned" /\ call[t].op = "close"
  \/ pc[t] \in Underway /\ (call[t].next = "deref" \/ (call[t].next = "owned" /\ call[t].op = "close"))

Referents(r) == {t \in Threads : HoldsReference(t) /\ call[t].role = r}

ReferenceInv ==
  /\ \A r \in Roles :
       /\ refcount[r] = Cardinality(Referents(r)) + (IF handle[r] = "none" THEN 0 ELSE 1)
       /\ refcount[r] > 0 => Up /\ slot.endpoint_reference_live[r]
  /\ \A t \in Threads :
       /\ HoldsReference(t) => call[t].key = slot.key
       /\ pc[t] = "destroy" =>
            /\ Up /\ slot.endpoint_reference_live[call[t].role] /\ call[t].key = slot.key
            /\ refcount[call[t].role] = 0
            /\ \A u \in Threads \ {t} : pc[u] = "destroy" => call[u].role # call[t].role
  /\ slot.state = "Private" => handle["acceptor"] = "unpublished"

(* Requests *)

RequestInv ==
  /\ LedgerIsCanonical(ledger)
  /\ \A id \in RequestIds :
       /\ fate[id] # "twice"
       /\ fate[id] = "live" <=> ledger.slots[id] # "Free" \/ \E t \in Threads : id \in call[t].requests
       /\ ledger.state = "Open" /\ id >= ledger.next_request_id => fate[id] = "unused"

(* Who has the id of a request: before its commitment a sender, the queue  *)
(* or a receiver, after it a receiver, a receipt or a reply.               *)
Offers(t) == pc[t] \in {"send", "cancel_sent", "commit", "reject"}
Replying(t) == pc[t] \in {"answer", "complete", "unclaim"} \/ (pc[t] = "borrow" /\ call[t].op = "reply")
Answers(t) == pc[t] = "publish" \/ Replying(t)
Owed(r) == receipt[r].state = "Live" /\ receipt[r].key = slot.key

QueueInv ==
  Active => \A i \in 1..Len(port.queue) :
    /\ ledger.slots[port.queue[i]] = "Reserved"
    /\ \A j \in 1..Len(port.queue) : port.queue[i] = port.queue[j] => i = j
OwedInv ==
  Active => \A r \in Receipts : Owed(r) =>
    /\ ledger.slots[receipt[r].id] = "Committed"
    /\ \A q \in Receipts : Owed(q) /\ receipt[q].id = receipt[r].id => q = r
OfferInv ==
  \A t \in Threads : Offers(t) =>
    /\ call[t].id \in RequestIds /\ ledger.slots[call[t].id] = "Reserved"
    /\ \A i \in 1..Len(port.queue) : port.queue[i] # call[t].id
    /\ \A u \in Threads : Offers(u) /\ call[u].id = call[t].id => u = t
AnswerInv ==
  \A t \in Threads : Answers(t) =>
    /\ call[t].id \in RequestIds /\ ledger.slots[call[t].id] = "Committed"
    /\ \A r \in Receipts : Owed(r) => receipt[r].id # call[t].id
    /\ \A u \in Threads : Answers(u) /\ call[u].id = call[t].id => u = t
HolderInv == QueueInv /\ OwedInv /\ OfferInv /\ AnswerInv

(* Receipts *)

Claimant(t) == Replying(t) \/ pc[t] = "retire"
HasToken(t) == Claimant(t) \/ pc[t] \in {"receive", "commit", "reject", "publish", "abandon"}

(* The last channel that was built.                                        *)
Built == IF slot.state = "Constructing" THEN generation - 1 ELSE generation

RowInv(r) ==
  /\ receipt[r].state = "Free" => receipt[r].generation < kServiceEndpointIngressReceiptGenerationMaximum
  /\ receipt[r].key # 0 => receipt[r].key <= Built
  /\ receipt[r].state \in {"Live", "Replying"} => receipt[r].id \in RequestIds
(* The row that a reply has claimed is its own, or has been cleared.       *)
ClaimInv(t) ==
  LET r == call[t].token[1]  g == call[t].token[2] IN
  /\ g <= receipt[r].generation
  /\ g = receipt[r].generation =>
       /\ receipt[r].state \notin {"Pending", "Live"}
       /\ receipt[r].state = "Replying" => receipt[r].id = call[t].id /\ receipt[r].key = call[t].key
ReceiptInv ==
  /\ \A r \in Receipts : RowInv(r)
  /\ \A t \in Threads :
       /\ HasToken(t) => call[t].token # <<>>
       /\ Claimant(t) => ClaimInv(t) /\ \A u \in Threads : Claimant(u) /\ call[u].token = call[t].token => u = t

(* The object *)

Imports(t) == pc[t] \in {"retain", "unpin"}
Importers(r) == {t \in Threads : Imports(t) /\ call[t].reference[1] = r}
Carriers == {t \in Threads : pc[t] = "export" \/ (pc[t] \in {"unpin", "publish_handle"} /\ call[t].result = "Ok")}

PinsInv ==
  /\ table.active_operations = Cardinality({t \in Threads : Imports(t)})
  /\ \A r \in Rows : table.rows[r].pins = Cardinality(Importers(r))
RowsInv ==
  /\ \A r \in Rows : table.rows[r].state = "Free" => table.rows[r].generation < kObjectTransferGenerationMax
  /\ table.state \in {"Closed", "Uninitialized"} => Holding(table) = {}
ImportInv ==
  \A t \in Threads : Imports(t) =>
    /\ call[t].reference # <<>> /\ call[t].reference[1] \in Holding(table)
    /\ table.rows[call[t].reference[1]].generation = call[t].reference[2]
CountInv ==
  object = Cardinality(Holding(table)) + Cardinality(Carriers)
           + (IF source THEN 1 ELSE 0) + (IF destination = "live" THEN 1 ELSE 0)
ObjectInv == PinsInv /\ RowsInv /\ ImportInv /\ CountInv

Ports == [queue: Seq(RequestIds), closed: BOOLEAN]

(* The type of the shared state.                                           *)
StateTypes ==
  /\ EndpointTypeOK /\ receipt \in [Receipts -> ReceiptRows]
  /\ port \in Ports
  /\ source \in BOOLEAN /\ destination \in {"free", "reserved", "live", "drained"} /\ mix \subseteq Operations

EInv ==
  /\ StateTypes /\ CallsInv /\ SlotInv /\ CoreInv /\ DriverInv /\ OwnerInv /\ ReferenceInv
  /\ RequestInv /\ HolderInv /\ ReceiptInv /\ ObjectInv

-----------------------------------------------------------------------------
(* Counting, and the steps of one thread *)

\* One element enters or leaves a finite set, or neither.
LEMMA OneMoves ==
  ASSUME NEW S, IsFiniteSet(S), NEW A \in SUBSET S, NEW B \in SUBSET S, NEW x \in S,
         \A y \in S : y # x => (y \in A <=> y \in B)
  PROVE  /\ Cardinality(A) \in Nat /\ Cardinality(B) \in Nat
         /\ Cardinality(B) = Cardinality(A) + (IF x \in B THEN 1 ELSE 0) - (IF x \in A THEN 1 ELSE 0)
<1>1. IsFiniteSet(A) /\ IsFiniteSet(B)
  BY FS_Subset
<1>2. Cardinality(A) \in Nat /\ Cardinality(B) \in Nat
  BY <1>1, FS_CardinalityType
<1>3. CASE x \in A <=> x \in B
  <2>1. A = B
    BY <1>3
  <2> QED BY <1>2, <1>3, <2>1
<1>4. CASE x \in A /\ x \notin B
  <2>1. B = A \ {x}
    BY <1>4
  <2>2. Cardinality(B) = Cardinality(A) - 1
    BY <1>1, <1>4, <2>1, FS_RemoveElement
  <2> QED BY <1>2, <1>4, <2>2
<1>5. CASE x \notin A /\ x \in B
  <2>1. B = A \cup {x}
    BY <1>5
  <2>2. Cardinality(B) = Cardinality(A) + 1
    BY <1>1, <1>5, <2>1, FS_AddElement
  <2> QED BY <1>2, <1>5, <2>2
<1> QED BY <1>3, <1>4, <1>5

\* A finite set has a member exactly if its cardinality is not zero.
LEMMA SomeMember ==
  ASSUME NEW S, IsFiniteSet(S), NEW A \in SUBSET S
  PROVE  Cardinality(A) \in Nat /\ (Cardinality(A) = 0 <=> A = {})
<1>1. IsFiniteSet(A)
  BY FS_Subset
<1> QED BY <1>1, FS_CardinalityType, FS_EmptySet

(* Only t moves.                                                           *)
Moves(t) == \A u \in Threads : u # t => pc'[u] = pc[u] /\ call'[u] = call[u]

\* A thread that goes somewhere with new locals.
LEMMA GotoLocals ==
  ASSUME CallsInv, NEW t \in Threads, NEW p \in Places, NEW c \in Calls, Goto(t, p), Locals(t, c)
  PROVE  /\ Moves(t) /\ pc'[t] = p /\ call'[t] = c
         /\ pc' \in [Threads -> Places] /\ call' \in [Threads -> Calls]
BY DEF CallsInv, Goto, Locals, Moves

\* A thread that goes somewhere and keeps its locals.
LEMMA GotoOnly ==
  ASSUME CallsInv, NEW t \in Threads, NEW p \in Places, Goto(t, p), UNCHANGED call
  PROVE  /\ Moves(t) /\ pc'[t] = p /\ call'[t] = call[t]
         /\ pc' \in [Threads -> Places] /\ call' \in [Threads -> Calls]
BY DEF CallsInv, Goto, Moves

\* Where a call ends its locals are reset.
LEMMA NoCallType == NoCall \in Calls
BY ServiceEndpointAssumption, EndpointRequestLedgerAssumption DEF NoCall, Calls, Roles

\* The locals of the threads that do not move keep their shape.
LEMMA CallsKept ==
  ASSUME CallsInv, NEW t \in Threads, Moves(t), pc' \in [Threads -> Places], call' \in [Threads -> Calls],
         pc'[t] \notin Underway \cup {"destroy"} => call'[t].next = "idle",
         pc'[t] = "destroy" => call'[t].next \in {"idle", "cancel"},
         call'[t].requests # {} => pc'[t] = "cleanup",
         pc'[t] = "borrow" => call'[t].op \in Operations,
         pc'[t] = "claim" => call'[t].op = "reply",
         pc'[t] = "publish_handle" => call'[t].result = "Ok",
         pc'[t] = "accepted" => call'[t].op = "close" /\ call'[t].role = "acceptor"
  PROVE  CallsInv'
BY DEF CallsInv, Moves

-----------------------------------------------------------------------------
(* What a step leaves alone *)

\* No request begins, is committed or ends.
LEMMA RequestsKept ==
  ASSUME RequestInv, CallsInv, NEW t \in Threads, Moves(t), ledger' = ledger, fate' = fate,
         call'[t].requests = call[t].requests
  PROVE  RequestInv'
<1>1. \A u \in Threads : call'[u].requests = call[u].requests
  BY DEF Moves
<1> QED BY <1>1 DEF RequestInv

\* No request changes hands.
LEMMA HoldersKept ==
  ASSUME HolderInv, NEW t \in Threads, Moves(t), ledger'.slots = ledger.slots, port'.queue = port.queue,
         Active' => Active,
         \A r \in Receipts : Owed(r)' => Owed(r) /\ receipt'[r].id = receipt[r].id,
         Offers(t)' => Offers(t) /\ call'[t].id = call[t].id,
         Answers(t)' => Answers(t) /\ call'[t].id = call[t].id
  PROVE  HolderInv'
<1>1. \A u \in Threads : Offers(u)' => Offers(u) /\ call'[u].id = call[u].id
  BY DEF Moves, Offers
<1>2. \A u \in Threads : Answers(u)' => Answers(u) /\ call'[u].id = call[u].id
  BY DEF Moves, Answers, Replying
<1>3. QueueInv'
  BY DEF HolderInv, QueueInv
<1>4. OwedInv'
  BY DEF HolderInv, OwedInv
<1>5. OfferInv'
  BY <1>1 DEF HolderInv, OfferInv
<1>6. AnswerInv'
  BY <1>2 DEF HolderInv, AnswerInv
<1> QED BY <1>3, <1>4, <1>5, <1>6 DEF HolderInv

\* No receipt changes, and no token is taken.
LEMMA ReceiptsKept ==
  ASSUME ReceiptInv, NEW t \in Threads, Moves(t), receipt' = receipt, Built' = Built,
         HasToken(t)' => HasToken(t) /\ call'[t].token = call[t].token,
         Claimant(t)' => Claimant(t) /\ call'[t].id = call[t].id /\ call'[t].key = call[t].key
  PROVE  ReceiptInv'
<1>1. \A u \in Threads : HasToken(u)' => HasToken(u) /\ call'[u].token = call[u].token
  BY DEF Moves, HasToken, Claimant, Replying
<1>2. \A u \in Threads : Claimant(u)' =>
        Claimant(u) /\ call'[u].id = call[u].id /\ call'[u].key = call[u].key /\ call'[u].token = call[u].token
  BY <1>1 DEF Moves, Claimant, Replying, HasToken
<1>3. \A r \in Receipts : RowInv(r)'
  BY DEF ReceiptInv, RowInv
<1>4. \A u \in Threads : Claimant(u)' => ClaimInv(u)'
  BY <1>2 DEF ReceiptInv, ClaimInv
<1> QED BY <1>1, <1>2, <1>3, <1>4 DEF ReceiptInv

\* Nobody takes or gives up the object or a pin of a row.
LEMMA ObjectKept ==
  ASSUME ObjectInv, NEW t \in Threads, Moves(t), UNCHANGED <<table, object, source, destination>>,
         Imports(t)' <=> Imports(t), Imports(t) => call'[t].reference = call[t].reference,
         (t \in Carriers)' <=> t \in Carriers
  PROVE  ObjectInv'
<1>1. \A u \in Threads : (Imports(u)' <=> Imports(u)) /\ (Imports(u) => call'[u].reference = call[u].reference)
  BY DEF Moves, Imports
<1>2. {u \in Threads : Imports(u)'} = {u \in Threads : Imports(u)} /\ \A r \in Rows : Importers(r)' = Importers(r)
  BY <1>1 DEF Importers
<1>3. Carriers' = Carriers
  BY DEF Carriers, Moves
<1>4. Holding(table') = Holding(table)
  OBVIOUS
<1> QED BY <1>1, <1>2, <1>3, <1>4 DEF ObjectInv, PinsInv, RowsInv, ImportInv, CountInv

\* The parts of the type of the shared state ...
LEMMA TypeParts ==
  ASSUME StateTypes
  PROVE  /\ ledger \in Ledgers /\ table \in Tables /\ object \in Nat /\ port \in Ports
         /\ fate \in [RequestIds -> Fates] /\ receipt \in [Receipts -> ReceiptRows]
         /\ source \in BOOLEAN /\ destination \in {"free", "reserved", "live", "drained"} /\ mix \subseteq Operations
BY DEF StateTypes, EndpointTypeOK, CoreTypeOK

\* ... and the type after a step that keeps the slot and the core.
LEMMA DataTypes ==
  ASSUME StateTypes, UNCHANGED <<core, endpointVars, mix>>,
         ledger' \in Ledgers, table' \in Tables, object' \in Nat, port' \in Ports,
         fate' \in [RequestIds -> Fates], receipt' \in [Receipts -> ReceiptRows],
         source' \in BOOLEAN, destination' \in {"free", "reserved", "live", "drained"}
  PROVE  StateTypes'
<1>1. port'.closed \in BOOLEAN /\ port'.queue \in Seq(RequestIds)
  BY DEF Ports
<1> QED BY <1>1 DEF StateTypes, EndpointTypeOK, CoreTypeOK, endpointVars

\* A pin holds the channel up.
LEMMA PinFacts ==
  ASSUME StateTypes, SlotInv, CoreInv, NEW t \in Threads, pc[t] \in PinnedPlaces
  PROVE  t \in core.pins /\ Active /\ Up /\ slot.key = core.epoch /\ ledger.state \in {"Open", "SequenceRetired"}
<1>1. t \in core.pins
  BY DEF CoreInv
<1>2. Active
  BY <1>1 DEF CoreInv, Active, NoCore, StateTypes, EndpointTypeOK, CoreTypeOK, CoreStates
<1> QED BY <1>1, <1>2 DEF SlotInv, CoreInv, Active, NoCore

\* The steps of an operation between its pin and its release.
Inner(t) ==
  /\ Moves(t) /\ pc[t] \in PinnedPlaces /\ pc'[t] \in PinnedPlaces
  /\ core' = core /\ UNCHANGED endpointVars
  /\ call'[t].role = call[t].role /\ call'[t].key = call[t].key /\ call'[t].next = call[t].next
  /\ ledger'.identity = ledger.identity /\ ledger'.state \in {"Open", "SequenceRetired"} /\ table'.state = table.state

\* They leave the slot, the drain, the owner and the endpoints' references alone.
LEMMA InnerKeeps ==
  ASSUME EInv, NEW t \in Threads, Inner(t)
  PROVE  SlotInv' /\ CoreInv' /\ DriverInv' /\ OwnerInv' /\ ReferenceInv'
<1>0. t \in core.pins /\ Active /\ Up /\ slot.key = core.epoch /\ ledger.state \in {"Open", "SequenceRetired"}
  BY PinFacts DEF EInv, Inner
<1>1. /\ UNCHANGED <<core, slot, generation, handle, refcount>>
      /\ \A u \in Threads : /\ u # t => pc'[u] = pc[u] /\ call'[u] = call[u]
                            /\ call'[u].role = call[u].role /\ call'[u].key = call[u].key /\ call'[u].next = call[u].next
  BY DEF Inner, Moves, endpointVars
<1>2. /\ Driving \cap PinnedPlaces = {} /\ Underway \cap PinnedPlaces = {}
      /\ \A p \in {"close", "finish", "owned", "destroy", "drain", "cleanup", "settle"} : p \notin PinnedPlaces
  BY DEF Driving, PinnedPlaces, Underway
<1>3. SlotInv'
  BY <1>0, <1>1 DEF EInv, SlotInv, Inner, Up, Active
<1>4. CoreInv'
  BY <1>0, <1>1, <1>2 DEF EInv, CoreInv, Inner, Active
<1>5. \A u \in Threads : WillLook(u) => WillLook(u)'
  BY <1>1 DEF WillLook, Inner
<1>6. DriverInv'
  BY <1>1, <1>2, <1>5 DEF EInv, DriverInv, DrainSeen, Inner, Active
<1>7. OwnerInv'
  <2>1. ~Releases(t)' /\ \A u \in Threads : u # t => (Releases(u)' <=> Releases(u))
    BY <1>1, <1>2 DEF EInv, CallsInv, Releases, Inner
  <2> QED BY <1>1, <2>1 DEF EInv, OwnerInv
<1>8. \A u \in Threads : HoldsReference(u)' <=> HoldsReference(u)
  BY <1>1, <1>2 DEF HoldsReference, Inner
<1>9. \A r \in Roles : Referents(r)' = Referents(r)
  BY <1>1, <1>8 DEF Referents
<1>10. ReferenceInv'
  BY <1>1, <1>2, <1>8, <1>9 DEF EInv, ReferenceInv, Inner, Up
<1> QED BY <1>3, <1>4, <1>6, <1>7, <1>10

(* What the thread has in hand is what it had, or less.                    *)
HandsKept(t) ==
  /\ Offers(t)' => Offers(t) /\ call'[t].id = call[t].id
  /\ Answers(t)' => Answers(t) /\ call'[t].id = call[t].id
  /\ HasToken(t)' => HasToken(t) /\ call'[t].token = call[t].token
  /\ Claimant(t)' => Claimant(t) /\ call'[t].id = call[t].id /\ call'[t].key = call[t].key
  /\ Imports(t)' <=> Imports(t)
  /\ Imports(t) => call'[t].reference = call[t].reference
  /\ (t \in Carriers)' <=> t \in Carriers
  /\ call'[t].requests = call[t].requests

dataVars == <<ledger, table, port, object, fate, ingressVars>>

\* A step of one thread that takes nothing into its hands.
LEMMA DataKept ==
  ASSUME EInv, NEW t \in Threads, Moves(t), HandsKept(t), UNCHANGED dataVars,
         Active' => Active, slot'.key = slot.key, Built' = Built
  PROVE  RequestInv' /\ HolderInv' /\ ReceiptInv' /\ ObjectInv'
<1>1. RequestInv'
  BY RequestsKept DEF EInv, HandsKept, dataVars
<1>2. \A r \in Receipts : Owed(r)' => Owed(r) /\ receipt'[r].id = receipt[r].id
  BY DEF Owed, dataVars, ingressVars
<1>3. HolderInv'
  BY <1>2, HoldersKept DEF EInv, HandsKept, dataVars
<1>4. ReceiptInv'
  BY ReceiptsKept DEF EInv, HandsKept, dataVars, ingressVars
<1>5. ObjectInv'
  BY ObjectKept DEF EInv, HandsKept, dataVars, ingressVars
<1> QED BY <1>1, <1>3, <1>4, <1>5

\* An operation that only goes on.
LEMMA InnerMoves ==
  ASSUME EInv, NEW t \in Threads, NEW p \in PinnedPlaces \ Known, pc[t] \in PinnedPlaces, Goto(t, p),
         UNCHANGED <<coreVars, endpointVars, fate, ingressVars, call>>, HandsKept(t)
  PROVE  EInv'
<1>0. p \in Places /\ pc[t] \notin Underway \cup {"destroy", "cleanup", "accepted"} /\ p \notin Underway \cup Known \cup {"destroy", "cleanup", "accepted"}
  BY DEF PinnedPlaces, Places, Underway, Driving, Known
<1>1. /\ Moves(t) /\ pc'[t] = p /\ call'[t] = call[t]
      /\ pc' \in [Threads -> Places] /\ call' \in [Threads -> Calls]
  BY <1>0, GotoOnly DEF EInv
<1>2. CallsInv'
  BY <1>0, <1>1, CallsKept DEF EInv, CallsInv, Known
<1>3. ledger.state \in {"Open", "SequenceRetired"}
  BY PinFacts DEF EInv
<1>4. Inner(t)
  BY <1>1, <1>3 DEF Inner, coreVars
<1>5. SlotInv' /\ CoreInv' /\ DriverInv' /\ OwnerInv' /\ ReferenceInv'
  BY <1>4, InnerKeeps
<1>6. RequestInv' /\ HolderInv' /\ ReceiptInv' /\ ObjectInv'
  BY <1>1, DataKept DEF dataVars, coreVars, endpointVars, ingressVars, Active, Built
<1>7. StateTypes'
  BY DEF EInv, StateTypes, EndpointTypeOK, CoreTypeOK, coreVars, endpointVars, ingressVars
<1> QED BY <1>2, <1>5, <1>6, <1>7 DEF EInv

-----------------------------------------------------------------------------
(* Operations: sending *)

\* ServiceEndpointBorrowDirection preserves the invariant.
LEMMA BorrowKeeps == ASSUME EInv, NEW t \in Threads, BorrowDirection(t) PROVE EInv'
<1> DEFINE p == IF PinOpen(t) THEN FirstStep[call[t].op] ELSE IF call[t].op = "reply" THEN "unclaim" ELSE "release"
<1>1. /\ pc[t] = "borrow" /\ Goto(t, p) /\ UNCHANGED <<coreVars, endpointVars, fate, ingressVars, call>>
  BY DEF BorrowDirection, At, OnlyMoves
<1>2. call[t].op \in Operations
  BY <1>1 DEF EInv, CallsInv
<1>3. \/ call[t].op = "reply" /\ p \in {"answer", "unclaim"}
      \/ call[t].op # "reply" /\ p \in {"reserve", "pend", "retain_source", "reserve_handle", "revoke", "release"}
  BY <1>2 DEF FirstStep, Operations
<1>4. p \in PinnedPlaces \ Known /\ pc[t] \in PinnedPlaces
  BY <1>1, <1>3 DEF PinnedPlaces, Known
<1>5. pc'[t] = p /\ call'[t] = call[t]
  BY <1>1 DEF EInv, CallsInv, Goto
<1> HIDE DEF p
<1>6. HandsKept(t)
  BY <1>1, <1>3, <1>5 DEF HandsKept, Offers, Answers, Replying, Claimant, HasToken, Imports, Carriers
<1> QED BY <1>1, <1>4, <1>6, InnerMoves

\* The locals of an operation that stays pinned.
LEMMA InnerCall ==
  ASSUME EInv, NEW t \in Threads, NEW p \in PinnedPlaces, NEW c \in Calls, pc[t] \in PinnedPlaces,
         Goto(t, p), Locals(t, c), c.next = call[t].next, c.requests = call[t].requests,
         p # "claim", p = "borrow" => c.op \in Operations, p = "publish_handle" => c.result = "Ok"
  PROVE  CallsInv' /\ Moves(t) /\ pc'[t] = p /\ call'[t] = c
<1>0. p \in Places /\ pc[t] \notin Underway \cup {"destroy", "cleanup", "accepted"} /\ p \notin Underway \cup {"destroy", "cleanup", "accepted"}
  BY DEF PinnedPlaces, Places, Underway, Driving
<1>1. /\ Moves(t) /\ pc'[t] = p /\ call'[t] = c
      /\ pc' \in [Threads -> Places] /\ call' \in [Threads -> Calls]
  BY <1>0, GotoLocals DEF EInv
<1>2. CallsInv'
  BY <1>0, <1>1, CallsKept DEF EInv, CallsInv
<1> QED BY <1>1, <1>2

\* ... and one that also keeps its locals.
LEMMA InnerStay ==
  ASSUME EInv, NEW t \in Threads, NEW p \in PinnedPlaces \ Known, pc[t] \in PinnedPlaces,
         Goto(t, p), UNCHANGED call
  PROVE  CallsInv' /\ Moves(t) /\ pc'[t] = p /\ call'[t] = call[t]
<1>1. Locals(t, call[t]) /\ call[t] \in Calls
  BY DEF EInv, CallsInv, Locals
<1>2. p \in PinnedPlaces /\ p \notin {"borrow", "claim", "publish_handle"}
  BY DEF Known
<1> QED BY <1>1, <1>2, InnerCall

\* A reservation that is accepted takes the next id, which nobody has used.
LEMMA ReserveFacts ==
  ASSUME StateTypes, RequestInv, ledger.state \in {"Open", "SequenceRetired"},
         NEW id \in RequestIds, ReserveStatus(ledger, id) = "Ok"
  PROVE  /\ ledger.state = "Open" /\ ledger.next_request_id = id /\ fate[id] = "unused" /\ ledger.slots[id] = "Free"
         /\ Cardinality(LiveRequests(ledger)) # kEndpointRequestLedgerCapacity
<1>1. ledger \in Ledgers /\ kEndpointRequestIdMaximum \in Nat
  BY EndpointRequestLedgerAssumption DEF StateTypes, EndpointTypeOK, CoreTypeOK
<1>2. id \in Nat /\ ledger.next_request_id \in Nat
  BY <1>1 DEF RequestIds, Ledgers
<1>3. ledger.state = "Open" /\ ~(id < ledger.next_request_id) /\ ~(id > ledger.next_request_id)
  BY DEF ReserveStatus
<1>4. Cardinality(LiveRequests(ledger)) # kEndpointRequestLedgerCapacity
  BY <1>3 DEF ReserveStatus
<1>5. ledger.next_request_id = id
  BY <1>2, <1>3
<1>6. fate[id] = "unused"
  BY <1>2, <1>3, <1>5 DEF RequestInv
<1> QED BY <1>3, <1>4, <1>5, <1>6 DEF RequestInv

\* The ledger after a reservation.
LEMMA ReservedLedger ==
  ASSUME NEW l \in Ledgers, NEW id \in RequestIds
  PROVE  LET m == RequestReserved(l, id) IN
         /\ m \in Ledgers /\ m.identity = l.identity /\ m.slots = [l.slots EXCEPT ![id] = "Reserved"]
         /\ \/ id = kEndpointRequestIdMaximum /\ m.next_request_id = 0 /\ m.state = "SequenceRetired"
            \/ id < kEndpointRequestIdMaximum /\ m.next_request_id = id + 1 /\ m.state = "Open"
<1> DEFINE m == RequestReserved(l, id)
<1>0. id \in Nat /\ id <= kEndpointRequestIdMaximum /\ kEndpointRequestIdMaximum \in Nat \ {0} /\ id \in 1..kEndpointRequestIdMaximum
  BY EndpointRequestLedgerAssumption DEF RequestIds
<1>1. /\ m.identity = l.identity /\ m.slots = [l.slots EXCEPT ![id] = "Reserved"]
      /\ m.next_request_id = (IF id = kEndpointRequestIdMaximum THEN 0 ELSE id + 1)
      /\ m.state = (IF id = kEndpointRequestIdMaximum THEN "SequenceRetired" ELSE "Open")
  BY DEF RequestReserved, Ledgers
<1>2. [l.slots EXCEPT ![id] = "Reserved"] \in [RequestIds -> SlotStates]
  BY DEF Ledgers, SlotStates
<1>3. (IF id = kEndpointRequestIdMaximum THEN 0 ELSE id + 1) \in 0..kEndpointRequestIdMaximum
  BY <1>0
<1>4. m \in Ledgers
  BY <1>2, <1>3 DEF RequestReserved, Ledgers
<1> QED BY <1>0, <1>1, <1>4

\* The ledger after another change of one slot.
LEMMA ChangedLedger ==
  ASSUME NEW l \in Ledgers, NEW id \in RequestIds
  PROVE  /\ RequestCommitted(l, id) \in Ledgers /\ RequestCommitted(l, id).identity = l.identity
         /\ RequestCommitted(l, id).state = l.state /\ RequestCommitted(l, id).next_request_id = l.next_request_id
         /\ RequestCommitted(l, id).slots = [l.slots EXCEPT ![id] = "Committed"]
         /\ RequestConsumed(l, id) \in Ledgers /\ RequestConsumed(l, id).identity = l.identity
         /\ RequestConsumed(l, id).state = l.state /\ RequestConsumed(l, id).next_request_id = l.next_request_id
         /\ RequestConsumed(l, id).slots = [l.slots EXCEPT ![id] = "Free"]
BY DEF RequestCommitted, RequestConsumed, Ledgers, SlotStates

\* A ledger has finitely many request ids.
LEMMA FiniteRequests == IsFiniteSet(RequestIds)
BY EndpointRequestLedgerAssumption, FS_Interval DEF RequestIds

\* ServiceEndpointReserveRequest, accepted.
LEMMA ReserveAccepted ==
  ASSUME EInv, NEW t \in Threads, NEW id \in RequestIds, pc[t] = "reserve",
         ReserveStatus(ledger, id) = "Ok", SetLedger(RequestReserved(ledger, id)),
         fate' = [fate EXCEPT ![id] = IF @ = "unused" THEN "live" ELSE "twice"],
         Locals(t, [call[t] EXCEPT !.id = id]), Goto(t, "send"), UNCHANGED <<endpointVars, ingressVars>>
  PROVE  EInv'
<1> DEFINE c == [call[t] EXCEPT !.id = id]
<1>0. /\ ledger \in Ledgers /\ kEndpointRequestIdMaximum \in Nat \ {0} /\ kEndpointRequestLedgerCapacity \in Nat
      /\ fate \in [RequestIds -> Fates] /\ call[t] \in Calls /\ "reserve" \in PinnedPlaces /\ "send" \in PinnedPlaces
  BY EndpointRequestLedgerAssumption DEF EInv, StateTypes, EndpointTypeOK, CoreTypeOK, CallsInv, PinnedPlaces
<1>1. Active /\ ledger.state \in {"Open", "SequenceRetired"}
  BY <1>0, PinFacts DEF EInv
<1>2. /\ ledger.state = "Open" /\ ledger.next_request_id = id /\ fate[id] = "unused" /\ ledger.slots[id] = "Free"
      /\ Cardinality(LiveRequests(ledger)) # kEndpointRequestLedgerCapacity
  BY <1>1, ReserveFacts DEF EInv
<1>3. /\ ledger' \in Ledgers /\ ledger'.identity = ledger.identity
      /\ ledger'.slots = [ledger.slots EXCEPT ![id] = "Reserved"]
      /\ \/ id = kEndpointRequestIdMaximum /\ ledger'.next_request_id = 0 /\ ledger'.state = "SequenceRetired"
         \/ id < kEndpointRequestIdMaximum /\ ledger'.next_request_id = id + 1 /\ ledger'.state = "Open"
      /\ UNCHANGED <<core, table, port, object>>
  BY <1>0, ReservedLedger DEF SetLedger
<1>4. Locals(t, c) /\ c \in Calls /\ c.id = id /\ c.next = call[t].next /\ c.requests = call[t].requests
      /\ c.role = call[t].role /\ c.key = call[t].key
  <2>1. id \in 0..kEndpointRequestIdMaximum
    BY <1>0 DEF RequestIds
  <2>2. c \in Calls
    BY <1>0, <2>1 DEF Calls
  <2>3. c.id = id /\ c.next = call[t].next /\ c.requests = call[t].requests /\ c.role = call[t].role /\ c.key = call[t].key
    BY <1>0 DEF Calls
  <2> QED BY <2>2, <2>3
<1> HIDE DEF c
<1>5. CallsInv' /\ Moves(t) /\ pc'[t] = "send" /\ call'[t] = c
  BY <1>0, <1>4, InnerCall
<1>6. StateTypes'
  <2>1. fate' \in [RequestIds -> Fates]
    BY <1>0 DEF Fates
  <2> QED BY <1>3, <2>1, TypeParts, DataTypes DEF EInv, ingressVars
<1>7. SlotInv' /\ CoreInv' /\ DriverInv' /\ OwnerInv' /\ ReferenceInv'
  BY <1>0, <1>3, <1>4, <1>5, InnerKeeps DEF Inner
<1>8. RequestInv'
  <2>1. \A u \in Threads : call'[u].requests = call[u].requests
    BY <1>4, <1>5 DEF Moves
  <2>2. \A i \in RequestIds : ledger'.slots[i] = IF i = id THEN "Reserved" ELSE ledger.slots[i]
    BY <1>0, <1>3 DEF Ledgers
  <2>3. \A i \in RequestIds : fate'[i] = IF i = id THEN "live" ELSE fate[i]
    BY <1>0, <1>2
  <2>4. LiveRequests(ledger') = LiveRequests(ledger) \cup {id} /\ id \notin LiveRequests(ledger)
    BY <1>2, <2>2 DEF LiveRequests
  <2>5. IsFiniteSet(LiveRequests(ledger)) /\ Cardinality(LiveRequests(ledger)) \in Nat
    <3>1. LiveRequests(ledger) \subseteq RequestIds
      BY DEF LiveRequests
    <3>2. IsFiniteSet(LiveRequests(ledger))
      BY <3>1, FiniteRequests, FS_Subset
    <3> QED BY <3>2, FS_CardinalityType
  <2>6. Cardinality(LiveRequests(ledger')) = Cardinality(LiveRequests(ledger)) + 1
    BY <2>4, <2>5, FS_AddElement
  <2>7. Cardinality(LiveRequests(ledger)) <= kEndpointRequestLedgerCapacity
        /\ \A i \in LiveRequests(ledger) : i < id
    BY <1>2 DEF EInv, RequestInv, LedgerIsCanonical
  <2>8. \A i \in RequestIds : i \in Nat
    BY <1>0 DEF RequestIds
  <2>9. LedgerIsCanonical(ledger')
    <3>1. Cardinality(LiveRequests(ledger')) <= kEndpointRequestLedgerCapacity
      BY <1>0, <1>2, <2>5, <2>6, <2>7
    <3>2. \A i \in LiveRequests(ledger') : i < id + 1
      BY <2>4, <2>7, <2>8 DEF LiveRequests
    <3> QED BY <1>3, <2>8, <3>1, <3>2 DEF LedgerIsCanonical
  <2>10. ASSUME NEW i \in RequestIds
         PROVE  /\ fate'[i] # "twice"
                /\ fate'[i] = "live" <=> ledger'.slots[i] # "Free" \/ \E u \in Threads : i \in call'[u].requests
                /\ ledger'.state = "Open" /\ i >= ledger'.next_request_id => fate'[i] = "unused"
    <3>1. CASE i = id
      BY <1>3, <2>2, <2>3, <2>8, <3>1
    <3>2. CASE i # id
      <4>1. ledger'.state = "Open" /\ i >= ledger'.next_request_id => i >= ledger.next_request_id
        BY <1>2, <1>3, <2>8
      <4> QED BY <1>2, <2>1, <2>2, <2>3, <3>2, <4>1 DEF EInv, RequestInv
    <3> QED BY <3>1, <3>2
  <2> QED BY <2>9, <2>10 DEF RequestInv
<1>9. HolderInv'
  <2>1. /\ \A u \in Threads : u # t => (Offers(u)' <=> Offers(u)) /\ (Answers(u)' <=> Answers(u)) /\ call'[u].id = call[u].id
        /\ ~Offers(t) /\ ~Answers(t) /\ Offers(t)' /\ ~Answers(t)' /\ call'[t].id = id
    BY <1>4, <1>5 DEF Moves, Offers, Answers, Replying
  <2>2. \A i : i # id => ledger'.slots[i] = ledger.slots[i]
    BY <1>0, <1>3 DEF Ledgers
  <2>3. ledger'.slots[id] = "Reserved"
    BY <1>0, <1>3 DEF Ledgers
  <2>4. Active' /\ port' = port /\ receipt' = receipt /\ \A r \in Receipts : Owed(r)' <=> Owed(r)
    BY <1>1, <1>3 DEF Active, Owed, ingressVars, endpointVars
  <2>5. \A i \in 1..Len(port.queue) : port.queue[i] # id
    BY <1>1, <1>2 DEF EInv, HolderInv, QueueInv
  <2>6. \A r \in Receipts : Owed(r) => receipt[r].id # id
    BY <1>1, <1>2 DEF EInv, HolderInv, OwedInv
  <2>7. \A u \in Threads : Offers(u) \/ Answers(u) => call[u].id # id
    BY <1>2 DEF EInv, HolderInv, OfferInv, AnswerInv
  <2>8. QueueInv'
    BY <1>1, <2>2, <2>4, <2>5 DEF EInv, HolderInv, QueueInv
  <2>9. OwedInv'
    BY <1>1, <2>2, <2>4, <2>6 DEF EInv, HolderInv, OwedInv
  <2>10. OfferInv'
    BY <2>1, <2>2, <2>3, <2>4, <2>5, <2>7 DEF EInv, HolderInv, OfferInv
  <2>11. AnswerInv'
    BY <2>1, <2>2, <2>4, <2>7 DEF EInv, HolderInv, AnswerInv
  <2> QED BY <2>8, <2>9, <2>10, <2>11 DEF HolderInv
<1>10. ReceiptInv'
  BY <1>4, <1>5, ReceiptsKept DEF EInv, HasToken, Claimant, Replying, endpointVars, ingressVars, Built
<1>11. ObjectInv'
  BY <1>3, <1>5, ObjectKept DEF EInv, Imports, Carriers, ingressVars
<1> QED BY <1>5, <1>6, <1>7, <1>8, <1>9, <1>10, <1>11 DEF EInv

\* The request that a thread has is in no other hands.
LEMMA SoleHolder ==
  ASSUME HolderInv, Active, NEW t \in Threads, Offers(t) \/ Answers(t)
  PROVE  /\ call[t].id \in RequestIds
         /\ \A i \in 1..Len(port.queue) : port.queue[i] # call[t].id
         /\ \A r \in Receipts : Owed(r) => receipt[r].id # call[t].id
         /\ \A u \in Threads : u # t /\ (Offers(u) \/ Answers(u)) => call[u].id # call[t].id
<1>1. CASE Offers(t)
  BY <1>1 DEF HolderInv, QueueInv, OwedInv, OfferInv, AnswerInv
<1>2. CASE Answers(t)
  BY <1>2 DEF HolderInv, QueueInv, OwedInv, OfferInv, AnswerInv
<1> QED BY <1>1, <1>2

\* Nobody else is concerned by what becomes of it.
LEMMA HolderGone ==
  ASSUME HolderInv, Active, Active', NEW t \in Threads, Offers(t) \/ Answers(t), Moves(t), ~Offers(t)', ~Answers(t)',
         UNCHANGED <<slot, receipt, port>>, \A i : i # call[t].id => ledger'.slots[i] = ledger.slots[i]
  PROVE  HolderInv'
<1>1. /\ \A i \in 1..Len(port.queue) : port.queue[i] # call[t].id
      /\ \A r \in Receipts : Owed(r) => receipt[r].id # call[t].id
      /\ \A u \in Threads : u # t /\ (Offers(u) \/ Answers(u)) => call[u].id # call[t].id
  BY SoleHolder
<1>2. /\ \A u \in Threads : Offers(u)' => u # t /\ Offers(u) /\ call'[u].id = call[u].id
      /\ \A u \in Threads : Answers(u)' => u # t /\ Answers(u) /\ call'[u].id = call[u].id
  BY DEF Moves, Offers, Answers, Replying
<1>3. \A r \in Receipts : Owed(r)' <=> Owed(r)
  BY DEF Owed
<1>4. QueueInv'
  BY <1>1 DEF HolderInv, QueueInv
<1>5. OwedInv'
  BY <1>1, <1>3 DEF HolderInv, OwedInv
<1>6. OfferInv'
  BY <1>1, <1>2 DEF HolderInv, OfferInv
<1>7. AnswerInv'
  BY <1>1, <1>2, <1>3 DEF HolderInv, AnswerInv
<1> QED BY <1>4, <1>5, <1>6, <1>7 DEF HolderInv

\* A request that is live and consumed has ended, once.
LEMMA ConsumedEnds ==
  ASSUME EInv, Active, NEW t \in Threads, Moves(t), call'[t].requests = call[t].requests,
         NEW id \in RequestIds, ledger.slots[id] # "Free", ledger' = RequestConsumed(ledger, id), fate' = Ended({id})
  PROVE  RequestInv'
<1>0. ledger \in Ledgers /\ fate \in [RequestIds -> Fates] /\ IsFiniteSet(RequestIds)
  BY FiniteRequests, TypeParts DEF EInv
<1>1. /\ ledger'.state = ledger.state /\ ledger'.next_request_id = ledger.next_request_id
      /\ \A i \in RequestIds : ledger'.slots[i] = IF i = id THEN "Free" ELSE ledger.slots[i]
  <2>1. /\ ledger'.state = ledger.state /\ ledger'.next_request_id = ledger.next_request_id
        /\ ledger'.slots = [ledger.slots EXCEPT ![id] = "Free"]
    BY <1>0, ChangedLedger
  <2>2. ledger.slots \in [RequestIds -> SlotStates]
    BY <1>0 DEF Ledgers
  <2> QED BY <2>1, <2>2
<1>2. \A u \in Threads : call[u].requests = {} /\ call'[u].requests = {}
  <2>1. \A u \in Threads : pc[u] # "cleanup"
    BY DEF EInv, DriverInv, Active
  <2> QED BY <2>1 DEF EInv, CallsInv, Moves
<1>3. \A i \in RequestIds : fate'[i] = IF i = id THEN "ended" ELSE fate[i]
  BY DEF EInv, RequestInv, Ended
<1>4. LiveRequests(ledger') \subseteq LiveRequests(ledger)
  BY <1>1 DEF LiveRequests
<1>5. /\ Cardinality(LiveRequests(ledger')) \in Nat /\ Cardinality(LiveRequests(ledger)) \in Nat
      /\ Cardinality(LiveRequests(ledger')) <= Cardinality(LiveRequests(ledger))
  <2>1. IsFiniteSet(LiveRequests(ledger))
    BY <1>0, FS_Subset DEF LiveRequests
  <2> QED BY <1>4, <2>1, FS_Subset, FS_CardinalityType
<1>6. LedgerIsCanonical(ledger')
  <2>1. LedgerIsCanonical(ledger)
    BY DEF EInv, RequestInv
  <2>2. Cardinality(LiveRequests(ledger')) <= kEndpointRequestLedgerCapacity
    BY <1>5, <2>1, EndpointRequestLedgerAssumption DEF LedgerIsCanonical
  <2> QED BY <1>1, <1>4, <2>1, <2>2 DEF LedgerIsCanonical
<1>7. ASSUME NEW i \in RequestIds
      PROVE  /\ fate'[i] # "twice"
             /\ fate'[i] = "live" <=> ledger'.slots[i] # "Free" \/ \E u \in Threads : i \in call'[u].requests
             /\ ledger'.state = "Open" /\ i >= ledger'.next_request_id => fate'[i] = "unused"
  <2>1. CASE i # id
    BY <1>1, <1>2, <1>3, <2>1 DEF EInv, RequestInv
  <2>2. CASE i = id
    <3>1. ~(ledger.state = "Open" /\ id >= ledger.next_request_id)
      BY DEF EInv, RequestInv
    <3> QED BY <1>1, <1>2, <1>3, <2>2, <3>1
  <2> QED BY <2>1, <2>2
<1> QED BY <1>6, <1>7 DEF RequestInv

\* A request that is consumed by the operation that has it.
LEMMA ConsumeKeeps ==
  ASSUME EInv, NEW t \in Threads, NEW p \in PinnedPlaces \ Known, pc[t] \in PinnedPlaces, Goto(t, p),
         Offers(t) \/ Answers(t), HandsKept(t), ~Offers(t)', ~Answers(t)', ledger.slots[call[t].id] # "Free",
         SetLedger(RequestConsumed(ledger, call[t].id)), fate' = Ended({call[t].id}),
         UNCHANGED <<endpointVars, ingressVars, call>>
  PROVE  EInv'
<1>0. ledger \in Ledgers /\ fate \in [RequestIds -> Fates]
  BY DEF EInv, StateTypes, EndpointTypeOK, CoreTypeOK
<1>1. Active /\ ledger.state \in {"Open", "SequenceRetired"}
  BY PinFacts DEF EInv
<1>2. CallsInv' /\ Moves(t) /\ pc'[t] = p /\ call'[t] = call[t]
  BY InnerStay
<1>3. call[t].id \in RequestIds
  BY <1>1, SoleHolder DEF EInv
<1>4. /\ ledger' = RequestConsumed(ledger, call[t].id) /\ UNCHANGED <<core, table, port, object>>
      /\ ledger' \in Ledgers /\ ledger'.identity = ledger.identity /\ ledger'.state = ledger.state
      /\ ledger'.slots = [ledger.slots EXCEPT ![call[t].id] = "Free"]
  BY <1>0, <1>3, ChangedLedger DEF SetLedger
<1>5. StateTypes'
  <2>1. fate' \in [RequestIds -> Fates]
    BY <1>0 DEF Fates, Ended
  <2> QED BY <1>4, <2>1, TypeParts, DataTypes DEF EInv, ingressVars
<1>6. SlotInv' /\ CoreInv' /\ DriverInv' /\ OwnerInv' /\ ReferenceInv'
  BY <1>1, <1>2, <1>4, InnerKeeps DEF Inner
<1>7. RequestInv'
  BY <1>1, <1>2, <1>3, <1>4, ConsumedEnds
<1>8. HolderInv'
  <2>1. \A i : i # call[t].id => ledger'.slots[i] = ledger.slots[i]
    BY <1>0, <1>4 DEF Ledgers
  <2> QED BY <1>1, <1>2, <1>4, <2>1, HolderGone DEF EInv, Active, endpointVars, ingressVars
<1>9. ReceiptInv'
  BY <1>2, ReceiptsKept DEF EInv, HandsKept, endpointVars, ingressVars, Built
<1>10. ObjectInv'
  BY <1>2, <1>4, ObjectKept DEF EInv, HandsKept, ingressVars
<1> QED BY <1>2, <1>5, <1>6, <1>7, <1>8, <1>9, <1>10 DEF EInv

\* The port with another queue.
LEMMA PortQueue ==
  ASSUME NEW q \in Seq(RequestIds), NEW m \in Ports
  PROVE  [m EXCEPT !.queue = q] \in Ports /\ [m EXCEPT !.queue = q].queue = q /\ [m EXCEPT !.queue = q].closed = m.closed
BY DEF Ports

\* Locals with another request.
LEMMA CallId ==
  ASSUME NEW d \in Calls, NEW id \in RequestIds
  PROVE  LET c == [d EXCEPT !.id = id] IN
         /\ c \in Calls /\ c.id = id /\ c.next = d.next /\ c.requests = d.requests
         /\ c.role = d.role /\ c.key = d.key /\ c.token = d.token /\ c.op = d.op
BY EndpointRequestLedgerAssumption DEF Calls, RequestIds

\* ServiceEndpointReserveRequest.
LEMMA ReserveKeeps == ASSUME EInv, NEW t \in Threads, ReserveRequest(t) PROVE EInv'
<1>1. PICK id \in RequestIds :
        IF PinOpen(t) /\ ReserveStatus(ledger, id) = "Ok"
        THEN /\ SetLedger(RequestReserved(ledger, id))
             /\ fate' = [fate EXCEPT ![id] = IF @ = "unused" THEN "live" ELSE "twice"]
             /\ Locals(t, [call[t] EXCEPT !.id = id]) /\ Goto(t, "send")
        ELSE Goto(t, "release") /\ UNCHANGED <<coreVars, fate, call>>
  BY DEF ReserveRequest
<1>2. pc[t] = "reserve" /\ UNCHANGED <<endpointVars, ingressVars>>
  BY DEF ReserveRequest, At
<1>3. CASE PinOpen(t) /\ ReserveStatus(ledger, id) = "Ok"
  BY <1>1, <1>2, <1>3, ReserveAccepted
<1>4. CASE ~(PinOpen(t) /\ ReserveStatus(ledger, id) = "Ok")
  <2>1. Goto(t, "release") /\ UNCHANGED <<coreVars, endpointVars, fate, ingressVars, call>>
    BY <1>1, <1>2, <1>4
  <2>2. "release" \in PinnedPlaces \ Known /\ pc[t] \in PinnedPlaces
    BY <1>2 DEF PinnedPlaces, Known
  <2>3. pc'[t] = "release" /\ call'[t] = call[t]
    BY <2>1 DEF EInv, CallsInv, Goto
  <2>4. HandsKept(t)
    BY <1>2, <2>3 DEF HandsKept, Offers, Answers, Replying, Claimant, HasToken, Imports, Carriers
  <2> QED BY <2>1, <2>2, <2>4, InnerMoves
<1> QED BY <1>3, <1>4

\* KMessagePortSend of a request.
LEMMA SendKeeps == ASSUME EInv, NEW t \in Threads, SendRequest(t) PROVE EInv'
<1>1. /\ pc[t] = "send" /\ UNCHANGED <<core, ledger, table, object, endpointVars, fate, ingressVars, call>>
      /\ {"send", "release", "cancel_sent"} \subseteq PinnedPlaces \ Known
  BY DEF SendRequest, At, PinnedPlaces, Known
<1>2. CASE UNCHANGED port /\ Goto(t, "cancel_sent")
  <2>1. pc'[t] = "cancel_sent" /\ call'[t] = call[t]
    BY <1>1, <1>2 DEF EInv, CallsInv, Goto
  <2>2. HandsKept(t)
    BY <1>1, <2>1 DEF HandsKept, Offers, Answers, Replying, Claimant, HasToken, Imports, Carriers
  <2> QED BY <1>1, <1>2, <2>2, InnerMoves DEF coreVars
<1>3. CASE port' = [port EXCEPT !.queue = Append(@, call[t].id)] /\ Goto(t, "release")
  <2>0. ledger \in Ledgers /\ port \in Ports /\ port.queue \in Seq(RequestIds)
    BY TypeParts DEF EInv, Ports
  <2>1. Active /\ ledger.state \in {"Open", "SequenceRetired"}
    BY <1>1, PinFacts DEF EInv
  <2>2. CallsInv' /\ Moves(t) /\ pc'[t] = "release" /\ call'[t] = call[t]
    BY <1>1, <1>3, InnerStay
  <2>3. Offers(t) /\ ~Answers(t) /\ ~Offers(t)' /\ ~Answers(t)'
    BY <1>1, <2>2 DEF Offers, Answers, Replying
  <2>4. /\ call[t].id \in RequestIds /\ ledger.slots[call[t].id] = "Reserved"
        /\ \A i \in 1..Len(port.queue) : port.queue[i] # call[t].id
        /\ \A u \in Threads : u # t /\ Offers(u) => call[u].id # call[t].id
    BY <2>3 DEF EInv, HolderInv, OfferInv
  <2>5. /\ port'.queue = Append(port.queue, call[t].id) /\ port' \in Ports
    <3>1. Append(port.queue, call[t].id) \in Seq(RequestIds)
      BY <2>0, <2>4
    <3> QED BY <1>3, <2>0, <3>1, PortQueue
  <2>6. /\ Len(port'.queue) = Len(port.queue) + 1 /\ Len(port.queue) \in Nat
        /\ \A i \in 1..Len(port'.queue) : port'.queue[i] = IF i \in 1..Len(port.queue) THEN port.queue[i] ELSE call[t].id
    BY <2>0, <2>4, <2>5
  <2>7. StateTypes'
    BY <1>1, <2>5, TypeParts, DataTypes DEF EInv, ingressVars
  <2>8. SlotInv' /\ CoreInv' /\ DriverInv' /\ OwnerInv' /\ ReferenceInv'
    BY <1>1, <2>1, <2>2, InnerKeeps DEF Inner
  <2>9. RequestInv'
    BY <1>1, <2>2, RequestsKept DEF EInv
  <2>10. HolderInv'
    <3>1. \A u \in Threads : Offers(u)' => u # t /\ Offers(u) /\ call'[u].id = call[u].id
      BY <2>2, <2>3 DEF Moves, Offers
    <3>2. \A u \in Threads : Answers(u)' => Answers(u) /\ call'[u].id = call[u].id
      BY <2>2, <2>3 DEF Moves, Answers, Replying
    <3>3. \A r \in Receipts : Owed(r)' <=> Owed(r)
      BY <1>1 DEF Owed, endpointVars, ingressVars
    <3>4. QueueInv'
      <4>1. ASSUME NEW i \in 1..Len(port'.queue)
            PROVE  /\ ledger.slots[port'.queue[i]] = "Reserved"
                   /\ \A j \in 1..Len(port'.queue) : port'.queue[i] = port'.queue[j] => i = j
        <5>1. CASE i \in 1..Len(port.queue)
          BY <2>1, <2>4, <2>6, <5>1 DEF EInv, HolderInv, QueueInv
        <5>2. CASE i \notin 1..Len(port.queue)
          BY <2>4, <2>6, <5>2
        <5> QED BY <5>1, <5>2
      <4> QED BY <1>1, <4>1 DEF QueueInv
    <3>5. OwedInv'
      BY <1>1, <2>1, <3>3 DEF EInv, HolderInv, OwedInv, ingressVars
    <3>6. OfferInv'
      BY <1>1, <2>4, <2>6, <3>1 DEF EInv, HolderInv, OfferInv
    <3>7. AnswerInv'
      BY <1>1, <3>2, <3>3 DEF EInv, HolderInv, AnswerInv, ingressVars
    <3> QED BY <3>4, <3>5, <3>6, <3>7 DEF HolderInv
  <2>11. ReceiptInv'
    BY <1>1, <2>2, ReceiptsKept DEF EInv, HasToken, Claimant, Replying, endpointVars, ingressVars, Built
  <2>12. ObjectInv'
    BY <1>1, <2>2, ObjectKept DEF EInv, Imports, Carriers, ingressVars
  <2> QED BY <2>2, <2>7, <2>8, <2>9, <2>10, <2>11, <2>12 DEF EInv
<1> QED BY <1>2, <1>3 DEF SendRequest

\* ChannelCoreCancelRequest by the operation that has the request.
LEMMA CancelKeeps ==
  ASSUME EInv, NEW t \in Threads, Cancels(t), UNCHANGED <<endpointVars, ingressVars, call>>,
         \/ pc[t] = "cancel_sent" /\ Goto(t, "release")
         \/ pc[t] = "reject" /\ Goto(t, "abandon")
  PROVE  EInv'
<1>1. PICK p \in {"release", "abandon"} : Goto(t, p) /\ (p = "abandon" => pc[t] = "reject")
  OBVIOUS
<1>2. p \in PinnedPlaces \ Known /\ pc[t] \in PinnedPlaces
  BY DEF PinnedPlaces, Known
<1>3. pc'[t] = p /\ call'[t] = call[t]
  BY <1>1 DEF EInv, CallsInv, Goto
<1>4. HandsKept(t) /\ Offers(t) /\ ~Offers(t)' /\ ~Answers(t)'
  BY <1>1, <1>3 DEF HandsKept, Offers, Answers, Replying, Claimant, HasToken, Imports, Carriers
<1>5. CASE UNCHANGED <<coreVars, fate>>
  BY <1>1, <1>2, <1>4, <1>5, InnerMoves
<1>6. CASE ~UNCHANGED <<coreVars, fate>>
  <2>1. SetLedger(RequestConsumed(ledger, call[t].id)) /\ fate' = Ended({call[t].id})
    BY <1>6 DEF Cancels
  <2>2. ledger.slots[call[t].id] # "Free"
    BY <1>4 DEF EInv, HolderInv, OfferInv
  <2> QED BY <1>1, <1>2, <1>4, <2>1, <2>2, ConsumeKeeps
<1> QED BY <1>5, <1>6

\* ServiceEndpointCancelSentRequest and the refusal of a received frame.
LEMMA CancelSentKeeps == ASSUME EInv, NEW t \in Threads, CancelSentRequest(t) \/ RejectReceivedRequest(t) PROVE EInv'
BY CancelKeeps DEF CancelSentRequest, RejectReceivedRequest, At

-----------------------------------------------------------------------------
(* Operations: receiving and replying *)

\* KMessagePortTryReceive: the head of the queue goes to the receiver.
LEMMA ReceiveKeeps == ASSUME EInv, NEW t \in Threads, ReceiveFrame(t) PROVE EInv'
<1>1. /\ pc[t] = "receive" /\ UNCHANGED <<core, ledger, table, object, endpointVars, fate, ingressVars>>
      /\ {"receive", "abandon", "commit", "reject"} \subseteq PinnedPlaces \ Known
  BY DEF ReceiveFrame, At, PinnedPlaces, Known
<1>2. CASE Goto(t, "abandon") /\ UNCHANGED <<port, call>>
  <2>1. pc'[t] = "abandon" /\ call'[t] = call[t]
    BY <1>1, <1>2 DEF EInv, CallsInv, Goto
  <2>2. HandsKept(t)
    BY <1>1, <2>1 DEF HandsKept, Offers, Answers, Replying, Claimant, HasToken, Imports, Carriers
  <2> QED BY <1>1, <1>2, <2>2, InnerMoves DEF coreVars
<1>3. ASSUME port.queue # <<>>, port' = [port EXCEPT !.queue = Tail(@)],
             Locals(t, [call[t] EXCEPT !.id = Head(port.queue)]), NEW p \in {"commit", "reject"}, Goto(t, p)
      PROVE  EInv'
  <2> DEFINE c == [call[t] EXCEPT !.id = Head(port.queue)]
  <2>0. ledger \in Ledgers /\ port \in Ports /\ port.queue \in Seq(RequestIds) /\ call[t] \in Calls
    BY TypeParts DEF EInv, Ports, CallsInv
  <2>1. Active /\ ledger.state \in {"Open", "SequenceRetired"}
    BY <1>1, PinFacts DEF EInv
  <2>2. Head(port.queue) = port.queue[1] /\ Len(port.queue) \in Nat \ {0} /\ Head(port.queue) \in RequestIds
    BY <1>3, <2>0
  <2>3. /\ port'.queue = Tail(port.queue) /\ Tail(port.queue) \in Seq(RequestIds) /\ port' \in Ports
    <3>1. Tail(port.queue) \in Seq(RequestIds)
      BY <1>3, <2>0
    <3> QED BY <1>3, <2>0, <3>1, PortQueue
  <2>4. /\ Len(port'.queue) = Len(port.queue) - 1
        /\ \A i \in 1..Len(port'.queue) : port'.queue[i] = port.queue[i + 1] /\ i + 1 \in 1..Len(port.queue) /\ i + 1 # 1
    BY <1>3, <2>0, <2>3
  <2>5. Locals(t, c) /\ c \in Calls /\ c.id = port.queue[1] /\ c.next = call[t].next /\ c.requests = call[t].requests
        /\ c.role = call[t].role /\ c.key = call[t].key /\ c.token = call[t].token
    BY <1>3, <2>0, <2>2, CallId
  <2> HIDE DEF c
  <2>6. CallsInv' /\ Moves(t) /\ pc'[t] = p /\ call'[t] = c
    BY <1>1, <1>3, <2>5, InnerCall
  <2>7. StateTypes'
    BY <1>1, <2>3, TypeParts, DataTypes DEF EInv, ingressVars
  <2>8. SlotInv' /\ CoreInv' /\ DriverInv' /\ OwnerInv' /\ ReferenceInv'
    BY <1>1, <2>1, <2>5, <2>6, InnerKeeps DEF Inner
  <2>9. RequestInv'
    BY <1>1, <2>5, <2>6, RequestsKept DEF EInv
  <2>10. HolderInv'
    <3>1. /\ \A u \in Threads : u # t => (Offers(u)' <=> Offers(u)) /\ call'[u].id = call[u].id
          /\ ~Offers(t) /\ Offers(t)' /\ call'[t].id = port.queue[1]
      BY <1>1, <2>5, <2>6 DEF Moves, Offers
    <3>2. \A u \in Threads : Answers(u)' => Answers(u) /\ call'[u].id = call[u].id
      BY <1>1, <2>6 DEF Moves, Answers, Replying
    <3>3. \A r \in Receipts : Owed(r)' <=> Owed(r)
      BY <1>1 DEF Owed, endpointVars, ingressVars
    <3>4. /\ 1 \in 1..Len(port.queue) /\ ledger.slots[port.queue[1]] = "Reserved"
          /\ \A i \in 1..Len(port'.queue) : port'.queue[i] # port.queue[1]
      BY <2>1, <2>2, <2>4 DEF EInv, HolderInv, QueueInv
    <3>5. QueueInv'
      <4>1. ASSUME NEW i \in 1..Len(port'.queue)
            PROVE  /\ ledger.slots[port'.queue[i]] = "Reserved"
                   /\ \A j \in 1..Len(port'.queue) : port'.queue[i] = port'.queue[j] => i = j
        BY <2>1, <2>4 DEF EInv, HolderInv, QueueInv
      <4> QED BY <1>1, <4>1 DEF QueueInv
    <3>6. OwedInv'
      BY <1>1, <2>1, <3>3 DEF EInv, HolderInv, OwedInv, ingressVars
    <3>7. \A u \in Threads : Offers(u) => call[u].id # port.queue[1]
      BY <3>4 DEF EInv, HolderInv, OfferInv
    <3>8. OfferInv'
      BY <1>1, <2>2, <2>4, <3>1, <3>4, <3>7 DEF EInv, HolderInv, OfferInv
    <3>9. AnswerInv'
      BY <1>1, <3>2, <3>3 DEF EInv, HolderInv, AnswerInv, ingressVars
    <3> QED BY <3>5, <3>6, <3>8, <3>9 DEF HolderInv
  <2>11. ReceiptInv'
    BY <1>1, <1>3, <2>5, <2>6, ReceiptsKept DEF EInv, HasToken, Claimant, Replying, endpointVars, ingressVars, Built
  <2>12. ObjectInv'
    BY <1>1, <1>3, <2>6, ObjectKept DEF EInv, Imports, Carriers, ingressVars
  <2> QED BY <2>6, <2>7, <2>8, <2>9, <2>10, <2>11, <2>12 DEF EInv
<1> QED BY <1>2, <1>3 DEF ReceiveFrame

\* ServiceEndpointCommitReceivedRequest.
LEMMA CommitKeeps == ASSUME EInv, NEW t \in Threads, CommitReceivedRequest(t) PROVE EInv'
<1>1. /\ pc[t] = "commit" /\ UNCHANGED <<endpointVars, fate, ingressVars, call>>
      /\ {"commit", "publish", "abandon"} \subseteq PinnedPlaces \ Known
  BY DEF CommitReceivedRequest, At, PinnedPlaces, Known
<1>2. CASE Goto(t, "abandon") /\ UNCHANGED coreVars
  <2>1. pc'[t] = "abandon" /\ call'[t] = call[t]
    BY <1>1, <1>2 DEF EInv, CallsInv, Goto
  <2>2. HandsKept(t)
    BY <1>1, <2>1 DEF HandsKept, Offers, Answers, Replying, Claimant, HasToken, Imports, Carriers
  <2> QED BY <1>1, <1>2, <2>2, InnerMoves
<1>3. CASE SetLedger(RequestCommitted(ledger, call[t].id)) /\ Goto(t, "publish")
  <2>0. ledger \in Ledgers /\ ledger.slots \in [RequestIds -> SlotStates]
    BY TypeParts DEF EInv, Ledgers
  <2>1. Active /\ ledger.state \in {"Open", "SequenceRetired"}
    BY <1>1, PinFacts DEF EInv
  <2>2. CallsInv' /\ Moves(t) /\ pc'[t] = "publish" /\ call'[t] = call[t]
    BY <1>1, <1>3, InnerStay
  <2>3. Offers(t) /\ ~Answers(t) /\ ~Offers(t)' /\ Answers(t)'
    BY <1>1, <2>2 DEF Offers, Answers, Replying
  <2>4. call[t].id \in RequestIds /\ ledger.slots[call[t].id] = "Reserved"
    BY <2>3 DEF EInv, HolderInv, OfferInv
  <2>5. /\ UNCHANGED <<core, table, port, object>> /\ ledger' \in Ledgers
        /\ ledger'.identity = ledger.identity /\ ledger'.state = ledger.state
        /\ ledger'.next_request_id = ledger.next_request_id
        /\ ledger'.slots = [ledger.slots EXCEPT ![call[t].id] = "Committed"]
    BY <1>3, <2>0, <2>4, ChangedLedger DEF SetLedger
  <2>6. \A i : i # call[t].id => ledger'.slots[i] = ledger.slots[i]
    BY <2>0, <2>5
  <2>7. ledger'.slots[call[t].id] = "Committed"
    BY <2>0, <2>4, <2>5
  <2>8. StateTypes'
    BY <1>1, <2>5, TypeParts, DataTypes DEF EInv, ingressVars
  <2>9. SlotInv' /\ CoreInv' /\ DriverInv' /\ OwnerInv' /\ ReferenceInv'
    BY <1>1, <2>1, <2>2, <2>5, InnerKeeps DEF Inner
  <2>10. RequestInv'
    <3>1. \A i \in RequestIds : ledger'.slots[i] # "Free" <=> ledger.slots[i] # "Free"
      BY <2>4, <2>6, <2>7
    <3>2. LiveRequests(ledger') = LiveRequests(ledger)
      BY <3>1 DEF LiveRequests
    <3>3. LedgerIsCanonical(ledger')
      BY <2>5, <3>2 DEF EInv, RequestInv, LedgerIsCanonical
    <3> QED BY <1>1, <2>5, <3>1, <3>3 DEF EInv, RequestInv
  <2>11. HolderInv'
    <3>1. /\ \A i \in 1..Len(port.queue) : port.queue[i] # call[t].id
          /\ \A r \in Receipts : Owed(r) => receipt[r].id # call[t].id
          /\ \A u \in Threads : u # t /\ (Offers(u) \/ Answers(u)) => call[u].id # call[t].id
      BY <2>1, <2>3, SoleHolder DEF EInv
    <3>2. \A u \in Threads : u # t => (Offers(u)' <=> Offers(u)) /\ (Answers(u)' <=> Answers(u)) /\ call'[u].id = call[u].id
      BY <2>2 DEF Moves, Offers, Answers, Replying
    <3>3. receipt' = receipt /\ \A r \in Receipts : Owed(r)' <=> Owed(r)
      BY <1>1 DEF Owed, endpointVars, ingressVars
    <3>4. QueueInv'
      BY <2>1, <2>5, <2>6, <3>1 DEF EInv, HolderInv, QueueInv
    <3>5. OwedInv'
      BY <2>1, <2>6, <3>1, <3>3 DEF EInv, HolderInv, OwedInv
    <3>6. OfferInv'
      BY <2>3, <2>5, <2>6, <3>1, <3>2 DEF EInv, HolderInv, OfferInv
    <3>7. AnswerInv'
      BY <2>2, <2>4, <2>6, <2>7, <3>1, <3>2, <3>3 DEF EInv, HolderInv, AnswerInv
    <3> QED BY <3>4, <3>5, <3>6, <3>7 DEF HolderInv
  <2>12. ReceiptInv'
    BY <1>1, <2>2, ReceiptsKept DEF EInv, HasToken, Claimant, Replying, endpointVars, ingressVars, Built
  <2>13. ObjectInv'
    BY <1>1, <2>2, <2>5, ObjectKept DEF EInv, Imports, Carriers, ingressVars
  <2> QED BY <2>2, <2>8, <2>9, <2>10, <2>11, <2>12, <2>13 DEF EInv
<1> QED BY <1>2, <1>3 DEF CommitReceivedRequest

\* KMessagePortSend of a reply.
LEMMA SendReplyKeeps == ASSUME EInv, NEW t \in Threads, SendReply(t) PROVE EInv'
<1>1. PICK p \in {"complete", "unclaim"} : Goto(t, p)
  BY DEF SendReply
<1>2. /\ pc[t] = "answer" /\ UNCHANGED <<coreVars, endpointVars, fate, ingressVars, call>>
      /\ {"answer", "complete", "unclaim"} \subseteq PinnedPlaces \ Known
  BY DEF SendReply, At, OnlyMoves, PinnedPlaces, Known
<1>3. pc'[t] = p /\ call'[t] = call[t]
  BY <1>1, <1>2 DEF EInv, CallsInv, Goto
<1>4. HandsKept(t)
  BY <1>1, <1>2, <1>3 DEF HandsKept, Offers, Answers, Replying, Claimant, HasToken, Imports, Carriers
<1> QED BY <1>1, <1>2, <1>4, InnerMoves

\* ServiceEndpointCompleteReceivedRequest.
LEMMA CompleteKeeps == ASSUME EInv, NEW t \in Threads, CompleteReceivedRequest(t) PROVE EInv'
<1>1. /\ pc[t] = "complete" /\ Goto(t, "retire") /\ UNCHANGED <<endpointVars, ingressVars, call>>
      /\ {"complete", "retire"} \subseteq PinnedPlaces \ Known
  BY DEF CompleteReceivedRequest, At, PinnedPlaces, Known
<1>2. pc'[t] = "retire" /\ call'[t] = call[t]
  BY <1>1 DEF EInv, CallsInv, Goto
<1>3. HandsKept(t) /\ Answers(t) /\ ~Offers(t)' /\ ~Answers(t)'
  BY <1>1, <1>2 DEF HandsKept, Offers, Answers, Replying, Claimant, HasToken, Imports, Carriers
<1>4. CASE UNCHANGED <<coreVars, fate>>
  BY <1>1, <1>3, <1>4, InnerMoves
<1>5. CASE SetLedger(RequestConsumed(ledger, call[t].id)) /\ fate' = Ended({call[t].id})
  <2>1. ledger.slots[call[t].id] # "Free"
    BY <1>3 DEF EInv, HolderInv, AnswerInv
  <2> QED BY <1>1, <1>3, <1>5, <2>1, ConsumeKeeps
<1> QED BY <1>4, <1>5 DEF CompleteReceivedRequest

\* A token names a row and a generation.
LEMMA TokenFacts ==
  ASSUME CallsInv, ReceiptInv, NEW t \in Threads, HasToken(t)
  PROVE  call[t].token[1] \in Receipts /\ call[t].token[2] \in Nat /\ call[t].token = <<call[t].token[1], call[t].token[2]>>
<1>1. call[t].token \in Receipts \X (0..kServiceEndpointIngressReceiptGenerationMaximum)
  BY DEF CallsInv, ReceiptInv, Calls
<1> QED BY <1>1, IngressAssumption

\* One row changes: the claims on it are the mover's, or it is cleared.
LEMMA RowChanged ==
  ASSUME StateTypes, CallsInv, ReceiptInv, NEW t \in Threads, Moves(t), NEW r \in Receipts, NEW row \in ReceiptRows,
         receipt' = [receipt EXCEPT ![r] = row], Built' = Built,
         row.generation >= receipt[r].generation, RowInv(r)',
         \A u \in Threads : u # t /\ Claimant(u) /\ call[u].token = <<r, row.generation>> => row.state \in {"Free", "Retired"},
         HasToken(t)' => call'[t].token # <<>>,
         Claimant(t)' => ClaimInv(t)' /\ \A u \in Threads : u # t /\ Claimant(u) => call[u].token # call'[t].token
  PROVE  ReceiptInv'
<1>0. receipt \in [Receipts -> ReceiptRows] /\ receipt[r].generation \in Nat /\ row.generation \in Nat
  BY IngressAssumption, TypeParts DEF ReceiptRows
<1>1. receipt'[r] = row /\ \A q \in Receipts : q # r => receipt'[q] = receipt[q]
  BY <1>0
<1>2. \A u \in Threads : u # t => (HasToken(u)' <=> HasToken(u)) /\ (Claimant(u)' <=> Claimant(u)) /\ call'[u] = call[u]
  BY DEF Moves, HasToken, Claimant, Replying
<1>3. \A q \in Receipts : RowInv(q)'
  <2>1. ASSUME NEW q \in Receipts, q # r PROVE RowInv(q)'
    BY <1>1, <2>1 DEF ReceiptInv, RowInv
  <2> QED BY <2>1
<1>4. ASSUME NEW u \in Threads, u # t, Claimant(u) PROVE ClaimInv(u)'
  <2>0. call[u].token[1] \in Receipts /\ call[u].token[2] \in Nat /\ call[u].token = <<call[u].token[1], call[u].token[2]>>
    BY <1>4, TokenFacts DEF HasToken
  <2>1. CASE call[u].token[1] # r
    BY <1>1, <1>2, <1>4, <2>0, <2>1 DEF ReceiptInv, ClaimInv
  <2>2. CASE call[u].token[1] = r
    <3>1. call[u].token[2] <= receipt[r].generation
      BY <1>4, <2>2 DEF ReceiptInv, ClaimInv
    <3>2. call[u].token[2] <= row.generation
      BY <1>0, <2>0, <3>1
    <3>3. call[u].token[2] = row.generation => row.state \in {"Free", "Retired"}
      BY <1>4, <2>0, <2>2
    <3> QED BY <1>1, <1>2, <1>4, <2>2, <3>2, <3>3 DEF ClaimInv
  <2> QED BY <2>1, <2>2
<1>5. ASSUME NEW u \in Threads PROVE HasToken(u)' => call'[u].token # <<>>
  BY <1>2 DEF ReceiptInv
<1>6. ASSUME NEW u \in Threads, NEW w \in Threads, Claimant(u)', Claimant(w)', call'[w].token = call'[u].token PROVE w = u
  BY <1>2, <1>6 DEF ReceiptInv
<1> QED BY <1>2, <1>3, <1>4, <1>5, <1>6 DEF ReceiptInv

\* A step of an operation that changes one row, but for holders and receipts.
LEMMA RowStep ==
  ASSUME EInv, NEW t \in Threads, NEW p \in PinnedPlaces, NEW c \in Calls, pc[t] \in PinnedPlaces,
         Goto(t, p), Locals(t, c), c.next = call[t].next, c.requests = call[t].requests,
         c.role = call[t].role, c.key = call[t].key, p # "claim", p = "borrow" => c.op \in Operations, p = "publish_handle" => c.result = "Ok",
         {p, pc[t]} \cap {"retain", "unpin", "export", "publish_handle"} = {},
         NEW r \in Receipts, NEW row \in ReceiptRows, SetReceipt(r, row), UNCHANGED <<coreVars, endpointVars, fate>>
  PROVE  /\ Moves(t) /\ pc'[t] = p /\ call'[t] = c
         /\ StateTypes' /\ CallsInv' /\ SlotInv' /\ CoreInv' /\ DriverInv' /\ OwnerInv' /\ ReferenceInv'
         /\ RequestInv' /\ ObjectInv'
<1>1. CallsInv' /\ Moves(t) /\ pc'[t] = p /\ call'[t] = c
  BY InnerCall
<1>2. receipt' \in [Receipts -> ReceiptRows] /\ UNCHANGED <<source, destination, mix>>
  BY TypeParts DEF EInv, SetReceipt
<1>3. StateTypes'
  BY <1>2, TypeParts, DataTypes DEF EInv, coreVars
<1>4. ledger.state \in {"Open", "SequenceRetired"}
  BY PinFacts DEF EInv
<1>5. SlotInv' /\ CoreInv' /\ DriverInv' /\ OwnerInv' /\ ReferenceInv'
  BY <1>1, <1>4, InnerKeeps DEF Inner, coreVars
<1>6. RequestInv'
  BY <1>1, RequestsKept DEF EInv, coreVars
<1>7. ObjectInv'
  BY <1>1, <1>2, ObjectKept DEF EInv, Imports, Carriers, coreVars
<1> QED BY <1>1, <1>3, <1>5, <1>6, <1>7

\* The fields of a cleared row.
LEMMA ClearedRow ==
  ASSUME NEW row \in ReceiptRows
  PROVE  /\ ClearedReceipt(row) \in ReceiptRows /\ ClearedReceipt(row).generation = row.generation
         /\ ClearedReceipt(row).key = 0 /\ ClearedReceipt(row).state \in {"Free", "Retired"}
         /\ ClearedReceipt(row).state = "Free" => row.generation < kServiceEndpointIngressReceiptGenerationMaximum
<1>1. row.generation \in 0..kServiceEndpointIngressReceiptGenerationMaximum /\ kServiceEndpointIngressReceiptGenerationMaximum \in Nat
  BY IngressAssumption DEF ReceiptRows
<1>2. /\ ClearedReceipt(row).generation = row.generation /\ ClearedReceipt(row).key = 0
      /\ ClearedReceipt(row).state = IF row.state = "Retired" \/ row.generation = kServiceEndpointIngressReceiptGenerationMaximum
                                     THEN "Retired" ELSE "Free"
  BY DEF ClearedReceipt, ReceiptRows
<1>3. ClearedReceipt(row) \in ReceiptRows
  <2>1. 0 \in 0..kServiceEndpointGenerationMaximum /\ 0 \in 0..kEndpointRequestIdMaximum
    BY ServiceEndpointAssumption, EndpointRequestLedgerAssumption
  <2> DEFINE s == IF row.state = "Retired" \/ row.generation = kServiceEndpointIngressReceiptGenerationMaximum
                  THEN "Retired" ELSE "Free"
  <2>2. s \in {"Free", "Pending", "Live", "Replying", "Retired"}
    OBVIOUS
  <2>3. ClearedReceipt(row) = [row EXCEPT !.key = 0, !.id = 0, !.state = s]
    BY DEF ClearedReceipt, ReceiptRows
  <2> HIDE DEF s
  <2> QED BY <2>1, <2>2, <2>3 DEF ReceiptRows
<1> QED BY <1>1, <1>2, <1>3

\* ReservePendingReceipt.
LEMMA PendKeeps == ASSUME EInv, NEW t \in Threads, ReservePendingReceipt(t) PROVE EInv'
<1> DEFINE free == {r \in Receipts : receipt[r].state = "Free"}
<1>1. /\ pc[t] = "pend" /\ UNCHANGED <<coreVars, endpointVars, fate>>
      /\ {"pend", "release", "receive"} \subseteq PinnedPlaces \ Known
  BY DEF ReservePendingReceipt, At, PinnedPlaces, Known
<1>2. CASE free = {}
  <2>1. Goto(t, "release") /\ UNCHANGED <<call, ingressVars>>
    BY <1>2 DEF ReservePendingReceipt
  <2>2. pc'[t] = "release" /\ call'[t] = call[t]
    BY <2>1 DEF EInv, CallsInv, Goto
  <2>3. HandsKept(t)
    BY <1>1, <2>2 DEF HandsKept, Offers, Answers, Replying, Claimant, HasToken, Imports, Carriers
  <2> QED BY <1>1, <2>1, <2>3, InnerMoves
<1>3. CASE free # {}
  <2>1. PICK r \in Receipts :
          LET row == [state |-> "Pending", generation |-> receipt[r].generation + 1, key |-> call[t].key, id |-> 0] IN
          /\ receipt[r].state = "Free" /\ SetReceipt(r, row)
          /\ Locals(t, [call[t] EXCEPT !.token = <<r, row.generation>>]) /\ Goto(t, "receive")
    BY <1>3 DEF ReservePendingReceipt
  <2> DEFINE row == [state |-> "Pending", generation |-> receipt[r].generation + 1, key |-> call[t].key, id |-> 0]
             c == [call[t] EXCEPT !.token = <<r, row.generation>>]
  <2>2. /\ receipt \in [Receipts -> ReceiptRows] /\ receipt[r].generation \in Nat /\ call[t] \in Calls
        /\ receipt[r].generation < kServiceEndpointIngressReceiptGenerationMaximum
        /\ kServiceEndpointIngressReceiptGenerationMaximum \in Nat
        /\ call[t].key \in 0..kServiceEndpointGenerationMaximum
    BY <2>1, IngressAssumption, TypeParts DEF EInv, CallsInv, ReceiptInv, RowInv, ReceiptRows, Calls
  <2>3. receipt[r].generation + 1 \in 0..kServiceEndpointIngressReceiptGenerationMaximum
    BY <2>2
  <2>4. /\ row \in ReceiptRows /\ row.generation = receipt[r].generation + 1 /\ row.state = "Pending"
        /\ row.key = call[t].key /\ SetReceipt(r, row)
    BY <2>1, <2>2, <2>3, EndpointRequestLedgerAssumption DEF ReceiptRows
  <2>5. /\ c \in Calls /\ Locals(t, c) /\ c.token = <<r, row.generation>> /\ c.token # <<>> /\ c.next = call[t].next
        /\ c.requests = call[t].requests /\ c.role = call[t].role /\ c.key = call[t].key
    BY <2>1, <2>2, <2>3 DEF Calls
  <2>6. Active /\ Up /\ call[t].key = slot.key /\ slot.key = Built
    <3>1. HoldsReference(t)
      BY <1>1 DEF HoldsReference
    <3> QED BY <1>1, <3>1, PinFacts DEF EInv, ReferenceInv, SlotInv, Up, Built
  <2> HIDE DEF row, c
  <2>7. /\ Moves(t) /\ pc'[t] = "receive" /\ call'[t] = c
        /\ StateTypes' /\ CallsInv' /\ SlotInv' /\ CoreInv' /\ DriverInv' /\ OwnerInv' /\ ReferenceInv'
        /\ RequestInv' /\ ObjectInv'
    BY <1>1, <2>1, <2>4, <2>5, RowStep
  <2>8. receipt' = [receipt EXCEPT ![r] = row] /\ receipt'[r] = row /\ Built' = Built /\ slot' = slot
    BY <1>1, <2>2, <2>4 DEF SetReceipt, endpointVars, Built
  <2>9. HolderInv'
    <3>1. \A q \in Receipts : Owed(q)' => Owed(q) /\ receipt'[q].id = receipt[q].id
      BY <2>2, <2>4, <2>8 DEF Owed
    <3>2. ~Offers(t)' /\ ~Answers(t)'
      BY <2>7 DEF Offers, Answers, Replying
    <3> QED BY <1>1, <2>7, <3>1, <3>2, HoldersKept DEF EInv, coreVars, Active
  <2>10. RowInv(r)'
    BY <2>4, <2>6, <2>8, <2>2 DEF RowInv, EInv, StateTypes, EndpointTypeOK
  <2>11. ~Claimant(t)' /\ call'[t].token # <<>>
    BY <2>5, <2>7 DEF Claimant, Replying
  <2>12. ASSUME NEW u \in Threads, u # t, Claimant(u), call[u].token = <<r, row.generation>> PROVE FALSE
    <3>1. ClaimInv(u) /\ call[u].token[1] = r /\ call[u].token[2] = receipt[r].generation + 1
      BY <2>4, <2>12 DEF EInv, ReceiptInv
    <3> QED BY <2>2, <3>1 DEF ClaimInv
  <2>13. row.generation >= receipt[r].generation
    BY <2>2, <2>4
  <2>14. ReceiptInv'
    <3>1. \A u \in Threads : u # t /\ Claimant(u) /\ call[u].token = <<r, row.generation>> => row.state \in {"Free", "Retired"}
      BY <2>12
    <3>2. StateTypes /\ CallsInv /\ ReceiptInv
      BY DEF EInv
    <3> QED BY <2>1, <2>4, <2>7, <2>8, <2>10, <2>11, <2>13, <3>1, <3>2, RowChanged
  <2> QED BY <2>7, <2>9, <2>14 DEF EInv
<1> QED BY <1>2, <1>3

\* An operation clears a row and leaves it.
LEMMA RowCleared ==
  ASSUME EInv, NEW t \in Threads, NEW r \in Receipts, pc[t] \in {"abandon", "retire"}, Goto(t, "release"),
         SetReceipt(r, ClearedReceipt(receipt[r])), UNCHANGED <<coreVars, endpointVars, fate, call>>
  PROVE  EInv'
<1> DEFINE row == ClearedReceipt(receipt[r])
<1>0. /\ receipt \in [Receipts -> ReceiptRows] /\ Locals(t, call[t]) /\ call[t] \in Calls
      /\ {"abandon", "retire", "release"} \subseteq PinnedPlaces \ Known
  BY TypeParts DEF EInv, CallsInv, Locals, PinnedPlaces, Known
<1>1. /\ row \in ReceiptRows /\ row.generation = receipt[r].generation /\ row.key = 0
      /\ row.state \in {"Free", "Retired"}
      /\ row.state = "Free" => row.generation < kServiceEndpointIngressReceiptGenerationMaximum
      /\ SetReceipt(r, row)
  BY <1>0, ClearedRow
<1> HIDE DEF row
<1>2. /\ Moves(t) /\ pc'[t] = "release" /\ call'[t] = call[t]
      /\ StateTypes' /\ CallsInv' /\ SlotInv' /\ CoreInv' /\ DriverInv' /\ OwnerInv' /\ ReferenceInv'
      /\ RequestInv' /\ ObjectInv'
  BY <1>0, <1>1, RowStep
<1>3. receipt' = [receipt EXCEPT ![r] = row] /\ receipt'[r] = row /\ Built' = Built /\ slot' = slot
  BY <1>0, <1>1 DEF SetReceipt, endpointVars, Built
<1>4. HolderInv'
  <2>1. \A q \in Receipts : Owed(q)' => Owed(q) /\ receipt'[q].id = receipt[q].id
    BY <1>0, <1>1, <1>3 DEF Owed
  <2>2. ~Offers(t)' /\ ~Answers(t)'
    BY <1>2 DEF Offers, Answers, Replying
  <2> QED BY <1>2, <2>1, <2>2, HoldersKept DEF EInv, coreVars, Active
<1>5. ReceiptInv'
  <2>1. RowInv(r)'
    BY <1>1, <1>3 DEF RowInv
  <2>2. ~HasToken(t)' /\ ~Claimant(t)'
    BY <1>2 DEF HasToken, Claimant, Replying
  <2>3. StateTypes /\ CallsInv /\ ReceiptInv
    BY DEF EInv
  <2>4. row.generation >= receipt[r].generation
    BY <1>0, <1>1, IngressAssumption DEF ReceiptRows
  <2> QED BY <1>1, <1>2, <1>3, <2>1, <2>2, <2>3, <2>4, RowChanged
<1> QED BY <1>2, <1>4, <1>5 DEF EInv

\* The request of a thread goes to a receipt.
LEMMA AnswerFiled ==
  ASSUME EInv, Active, Active', NEW t \in Threads, Answers(t), Moves(t), ~Offers(t)', ~Answers(t)',
         ledger' = ledger, port' = port, slot' = slot, NEW r \in Receipts, receipt'[r].id = call[t].id,
         \A q \in Receipts : q # r => receipt'[q] = receipt[q]
  PROVE  HolderInv'
<1>1. /\ call[t].id \in RequestIds /\ ledger.slots[call[t].id] = "Committed"
      /\ \A q \in Receipts : Owed(q) => receipt[q].id # call[t].id
      /\ \A u \in Threads : u # t /\ Answers(u) => call[u].id # call[t].id
  BY DEF EInv, HolderInv, AnswerInv
<1>2. /\ \A u \in Threads : Offers(u)' => u # t /\ Offers(u) /\ call'[u].id = call[u].id
      /\ \A u \in Threads : Answers(u)' => u # t /\ Answers(u) /\ call'[u].id = call[u].id
  BY DEF Moves, Offers, Answers, Replying
<1>3. \A q \in Receipts : Owed(q)' /\ q # r => Owed(q) /\ receipt'[q].id = receipt[q].id
  BY DEF Owed
<1>4. QueueInv'
  BY DEF EInv, HolderInv, QueueInv
<1>5. OwedInv'
  BY <1>1, <1>3 DEF EInv, HolderInv, OwedInv
<1>6. OfferInv'
  BY <1>2 DEF EInv, HolderInv, OfferInv
<1>7. AnswerInv'
  BY <1>1, <1>2, <1>3 DEF EInv, HolderInv, AnswerInv
<1> QED BY <1>4, <1>5, <1>6, <1>7 DEF HolderInv

\* An operation gives the request it has to the row its token names.
LEMMA RowFiled ==
  ASSUME EInv, NEW t \in Threads, NEW r \in Receipts, NEW row \in ReceiptRows, pc[t] \in {"publish", "unclaim"},
         Goto(t, "release"), SetReceipt(r, row), UNCHANGED <<coreVars, endpointVars, fate, call>>,
         row.generation = receipt[r].generation, row.key = receipt[r].key, row.state = "Live", row.id = call[t].id,
         \A u \in Threads : u # t /\ Claimant(u) => call[u].token # <<r, row.generation>>
  PROVE  EInv'
<1>0. /\ receipt \in [Receipts -> ReceiptRows] /\ Locals(t, call[t]) /\ call[t] \in Calls
      /\ {"publish", "unclaim", "release"} \subseteq PinnedPlaces \ Known
  BY TypeParts DEF EInv, CallsInv, Locals, PinnedPlaces, Known
<1>1. Active
  BY <1>0, PinFacts DEF EInv
<1>2. /\ Moves(t) /\ pc'[t] = "release" /\ call'[t] = call[t]
      /\ StateTypes' /\ CallsInv' /\ SlotInv' /\ CoreInv' /\ DriverInv' /\ OwnerInv' /\ ReferenceInv'
      /\ RequestInv' /\ ObjectInv'
  BY <1>0, RowStep
<1>3. /\ receipt' = [receipt EXCEPT ![r] = row] /\ receipt'[r] = row /\ Built' = Built /\ slot' = slot
      /\ \A q \in Receipts : q # r => receipt'[q] = receipt[q]
  BY <1>0 DEF SetReceipt, endpointVars, Built
<1>4. Answers(t) /\ ~Offers(t)' /\ ~Answers(t)' /\ ~HasToken(t)' /\ ~Claimant(t)'
  BY <1>2 DEF HasToken, Claimant, Replying, Answers, Offers
<1>5. HolderInv'
  BY <1>1, <1>2, <1>3, <1>4, AnswerFiled DEF coreVars, Active
<1>6. ReceiptInv'
  <2>1. call[t].id \in RequestIds
    BY <1>1, <1>4, SoleHolder DEF EInv
  <2>2. RowInv(r)'
    BY <1>3, <2>1 DEF RowInv, EInv, ReceiptInv
  <2>3. StateTypes /\ CallsInv /\ ReceiptInv
    BY DEF EInv
  <2>4. row.generation >= receipt[r].generation
    BY <1>0, IngressAssumption DEF ReceiptRows
  <2> QED BY <1>2, <1>3, <1>4, <2>2, <2>3, <2>4, RowChanged
<1> QED BY <1>2, <1>5, <1>6 DEF EInv

\* AbandonReceipt.
LEMMA AbandonKeeps == ASSUME EInv, NEW t \in Threads, AbandonReceipt(t) PROVE EInv'
<1>1. /\ pc[t] = "abandon" /\ Goto(t, "release") /\ UNCHANGED <<coreVars, endpointVars, fate, call>>
      /\ {"abandon", "release"} \subseteq PinnedPlaces \ Known
  BY DEF AbandonReceipt, At, PinnedPlaces, Known
<1>2. CASE \E r \in Receipts : Names(t, r, "Pending")
  <2>1. call[t].token[1] \in Receipts
    BY <1>2 DEF Names
  <2>2. SetReceipt(call[t].token[1], ClearedReceipt(receipt[call[t].token[1]]))
    BY <1>2 DEF AbandonReceipt
  <2> QED BY <1>1, <2>1, <2>2, RowCleared
<1>3. CASE ~\E r \in Receipts : Names(t, r, "Pending")
  <2>1. UNCHANGED ingressVars
    BY <1>3 DEF AbandonReceipt
  <2>2. pc'[t] = "release" /\ call'[t] = call[t]
    BY <1>1 DEF EInv, CallsInv, Goto
  <2>3. HandsKept(t)
    BY <1>1, <2>2 DEF HandsKept, Offers, Answers, Replying, Claimant, HasToken, Imports, Carriers
  <2> QED BY <1>1, <2>1, <2>3, InnerMoves
<1> QED BY <1>2, <1>3

\* PublishReceipt.
LEMMA PublishKeeps == ASSUME EInv, NEW t \in Threads, PublishReceipt(t) PROVE EInv'
<1> DEFINE r == call[t].token[1]
<1>1. /\ pc[t] = "publish" /\ UNCHANGED <<coreVars, endpointVars, fate, call>>
      /\ {"publish", "release", "abandon"} \subseteq PinnedPlaces \ Known
  BY DEF PublishReceipt, At, PinnedPlaces, Known
<1>2. CASE Names(t, r, "Pending") /\ receipt[r].key = call[t].key
  <2> DEFINE row == [receipt[r] EXCEPT !.state = "Live", !.id = call[t].id]
  <2>1. SetReceipt(r, row) /\ Goto(t, "release")
    BY <1>2 DEF PublishReceipt
  <2>2. r \in Receipts /\ call[t].id \in 0..kEndpointRequestIdMaximum /\ receipt \in [Receipts -> ReceiptRows]
    BY <1>1, TokenFacts, TypeParts DEF EInv, HasToken, CallsInv, Calls
  <2>3. /\ row \in ReceiptRows /\ row.generation = receipt[r].generation /\ row.key = receipt[r].key
        /\ row.state = "Live" /\ row.id = call[t].id
    BY <2>2 DEF ReceiptRows
  <2>4. ASSUME NEW u \in Threads, Claimant(u), call[u].token = <<r, receipt[r].generation>> PROVE FALSE
    BY <1>2, <2>4 DEF EInv, ReceiptInv, ClaimInv, Names
  <2> HIDE DEF row, r
  <2>5. \A u \in Threads : u # t /\ Claimant(u) => call[u].token # <<r, row.generation>>
    BY <2>3, <2>4
  <2>6. pc[t] \in {"publish", "unclaim"}
    BY <1>1
  <2> QED BY <1>1, <2>1, <2>2, <2>3, <2>5, <2>6, RowFiled
<1>3. CASE ~(Names(t, r, "Pending") /\ receipt[r].key = call[t].key)
  <2>1. UNCHANGED ingressVars /\ Goto(t, "abandon")
    BY <1>3 DEF PublishReceipt
  <2>2. pc'[t] = "abandon" /\ call'[t] = call[t]
    BY <1>1, <2>1 DEF EInv, CallsInv, Goto
  <2>3. HandsKept(t)
    BY <1>1, <2>2 DEF HandsKept, Offers, Answers, Replying, Claimant, HasToken, Imports, Carriers
  <2> QED BY <1>1, <2>1, <2>3, InnerMoves
<1> QED BY <1>2, <1>3

\* FinishReceipt.
LEMMA FinishKeeps == ASSUME EInv, NEW t \in Threads, FinishReceipt(t) PROVE EInv'
<1> DEFINE r == call[t].token[1]
<1>1. /\ pc[t] \in {"retire", "unclaim"} /\ Goto(t, "release") /\ UNCHANGED <<coreVars, endpointVars, fate, call>>
      /\ {"retire", "unclaim", "release"} \subseteq PinnedPlaces \ Known
  BY DEF FinishReceipt, PinnedPlaces, Known
<1>2. Claimant(t) /\ r \in Receipts /\ receipt \in [Receipts -> ReceiptRows]
  BY <1>1, TokenFacts, TypeParts DEF EInv, HasToken, Claimant, Replying
<1>3. CASE ~Names(t, r, "Replying")
  <2>1. UNCHANGED ingressVars
    BY <1>3 DEF FinishReceipt
  <2>2. pc'[t] = "release" /\ call'[t] = call[t]
    BY <1>1, <2>1 DEF EInv, CallsInv, Goto
  <2>3. HandsKept(t)
    BY <1>1, <2>2 DEF HandsKept, Offers, Answers, Replying, Claimant, HasToken, Imports, Carriers
  <2> QED BY <1>1, <2>1, <2>3, InnerMoves
<1>4. CASE Names(t, r, "Replying") /\ pc[t] = "retire"
  <2>1. SetReceipt(r, ClearedReceipt(receipt[r]))
    BY <1>4 DEF FinishReceipt, At
  <2> HIDE DEF r
  <2> QED BY <1>1, <1>2, <1>4, <2>1, RowCleared
<1>5. CASE Names(t, r, "Replying") /\ pc[t] = "unclaim"
  <2> DEFINE row == [receipt[r] EXCEPT !.state = "Live"]
  <2>1. SetReceipt(r, row)
    BY <1>5 DEF FinishReceipt, At
  <2>2. receipt[r].id = call[t].id
    BY <1>2, <1>5 DEF EInv, ReceiptInv, ClaimInv, Names
  <2>3. /\ row \in ReceiptRows /\ row.generation = receipt[r].generation /\ row.key = receipt[r].key
        /\ row.state = "Live" /\ row.id = call[t].id
    BY <1>2, <2>2 DEF ReceiptRows
  <2>4. \A u \in Threads : u # t /\ Claimant(u) => call[u].token # <<r, row.generation>>
    BY <1>2, <1>5, <2>3 DEF EInv, ReceiptInv, Names
  <2> HIDE DEF row, r
  <2> QED BY <1>1, <1>2, <1>5, <2>1, <2>3, <2>4, RowFiled
<1> QED BY <1>1, <1>3, <1>4, <1>5

\* ClaimReceipt: the row's request goes to the reply.
LEMMA ClaimAccepted ==
  ASSUME EInv, NEW t \in Threads, NEW r \in Receipts, NEW p \in {"borrow", "unclaim"}, pc[t] = "claim",
         receipt[r].key = call[t].key, receipt[r].state = "Live",
         SetReceipt(r, [receipt[r] EXCEPT !.state = "Replying"]),
         Locals(t, [call[t] EXCEPT !.token = <<r, receipt[r].generation>>, !.id = receipt[r].id]), Goto(t, p),
         UNCHANGED <<coreVars, endpointVars, fate>>
  PROVE  EInv'
<1> DEFINE row == [receipt[r] EXCEPT !.state = "Replying"]
           c == [call[t] EXCEPT !.token = <<r, receipt[r].generation>>, !.id = receipt[r].id]
<1>0. /\ receipt \in [Receipts -> ReceiptRows] /\ call[t] \in Calls /\ call[t].op = "reply"
      /\ p \in PinnedPlaces /\ pc[t] \in PinnedPlaces
      /\ receipt[r].generation \in 0..kServiceEndpointIngressReceiptGenerationMaximum
      /\ receipt[r].id \in 0..kEndpointRequestIdMaximum
  BY TypeParts DEF EInv, CallsInv, PinnedPlaces, ReceiptRows
<1>1. /\ row \in ReceiptRows /\ row.generation = receipt[r].generation /\ row.key = receipt[r].key
      /\ row.state = "Replying" /\ row.id = receipt[r].id /\ SetReceipt(r, row)
  BY <1>0 DEF ReceiptRows
<1>2. /\ c \in Calls /\ c.token = <<r, receipt[r].generation>> /\ c.token # <<>> /\ c.id = receipt[r].id
      /\ c.next = call[t].next /\ c.requests = call[t].requests
      /\ c.role = call[t].role /\ c.key = call[t].key /\ c.op = "reply" /\ Locals(t, c)
  BY <1>0 DEF Calls
<1> HIDE DEF row, c
<1>3. /\ Moves(t) /\ pc'[t] = p /\ call'[t] = c
      /\ StateTypes' /\ CallsInv' /\ SlotInv' /\ CoreInv' /\ DriverInv' /\ OwnerInv' /\ ReferenceInv'
      /\ RequestInv' /\ ObjectInv'
  BY <1>0, <1>1, <1>2, RowStep DEF Operations
<1>4. /\ receipt' = [receipt EXCEPT ![r] = row] /\ receipt'[r] = row /\ Built' = Built /\ slot' = slot
      /\ \A q \in Receipts : q # r => receipt'[q] = receipt[q]
  BY <1>0, <1>1 DEF SetReceipt, endpointVars, Built
<1>5. Active /\ call[t].key = slot.key
  BY <1>0, PinFacts DEF EInv, ReferenceInv, HoldsReference
<1>6. Owed(r)
  BY <1>5 DEF Owed
<1>7. /\ ledger.slots[receipt[r].id] = "Committed" /\ receipt[r].id \in RequestIds
      /\ \A q \in Receipts : Owed(q) /\ receipt[q].id = receipt[r].id => q = r
      /\ \A u \in Threads : Answers(u) => call[u].id # receipt[r].id
  BY <1>5, <1>6 DEF EInv, HolderInv, OwedInv, AnswerInv, ReceiptInv, RowInv
<1>8. ~Answers(t) /\ ~Offers(t)' /\ Answers(t)' /\ Claimant(t)'
  BY <1>2, <1>3 DEF Answers, Replying, Offers, Claimant
<1>9. HolderInv'
  <2>1. /\ \A u \in Threads : u # t => (Answers(u)' <=> Answers(u)) /\ call'[u].id = call[u].id
        /\ \A u \in Threads : Offers(u)' => Offers(u) /\ call'[u].id = call[u].id
    BY <1>3, <1>8 DEF Moves, Offers, Answers, Replying
  <2>2. \A q \in Receipts : Owed(q)' => q # r /\ Owed(q) /\ receipt'[q].id = receipt[q].id
    BY <1>1, <1>4 DEF Owed
  <2>3. ledger' = ledger /\ port' = port /\ core' = core
    BY DEF coreVars
  <2>4. QueueInv'
    BY <1>5, <2>3 DEF EInv, HolderInv, QueueInv
  <2>5. OwedInv'
    BY <1>5, <2>2, <2>3 DEF EInv, HolderInv, OwedInv
  <2>6. OfferInv'
    BY <2>1, <2>3 DEF EInv, HolderInv, OfferInv
  <2>7. AnswerInv'
    BY <1>2, <1>3, <1>7, <1>8, <2>1, <2>2, <2>3 DEF EInv, HolderInv, AnswerInv
  <2> QED BY <2>4, <2>5, <2>6, <2>7 DEF HolderInv
<1>10. \A u \in Threads : Claimant(u) => call[u].token # <<r, receipt[r].generation>>
  BY DEF EInv, ReceiptInv, ClaimInv
<1>11. ReceiptInv'
  <2>1. RowInv(r)'
    BY <1>1, <1>4, <1>7 DEF RowInv, EInv, ReceiptInv
  <2>2. StateTypes /\ CallsInv /\ ReceiptInv
    BY DEF EInv
  <2>3. row.generation >= receipt[r].generation
    BY <1>0, <1>1, IngressAssumption
  <2>4. ClaimInv(t)'
    BY <1>0, <1>1, <1>2, <1>3, <1>4, <2>3 DEF ClaimInv
  <2>5. \A u \in Threads : u # t /\ Claimant(u) /\ call[u].token = <<r, row.generation>> => row.state \in {"Free", "Retired"}
    BY <1>1, <1>10
  <2>6. \A u \in Threads : u # t /\ Claimant(u) => call[u].token # call'[t].token
    BY <1>2, <1>3, <1>10
  <2>7. call'[t].token # <<>>
    BY <1>2, <1>3
  <2> QED BY <1>1, <1>3, <1>4, <2>1, <2>2, <2>3, <2>4, <2>5, <2>6, <2>7, RowChanged
<1> QED BY <1>3, <1>9, <1>11 DEF EInv

\* ClaimReceipt.
LEMMA ClaimKeeps == ASSUME EInv, NEW t \in Threads, ClaimReceipt(t) PROVE EInv'
<1>1. /\ pc[t] = "claim" /\ UNCHANGED <<coreVars, endpointVars, fate>>
      /\ {"claim", "release"} \subseteq PinnedPlaces /\ "release" \in PinnedPlaces \ Known
  BY DEF ClaimReceipt, At, PinnedPlaces, Known
<1>2. CASE Goto(t, "release") /\ UNCHANGED <<call, ingressVars>>
  <2>1. pc'[t] = "release" /\ call'[t] = call[t]
    BY <1>2 DEF EInv, CallsInv, Goto
  <2>2. HandsKept(t)
    BY <1>1, <2>1 DEF HandsKept, Offers, Answers, Replying, Claimant, HasToken, Imports, Carriers
  <2> QED BY <1>1, <1>2, <2>2, InnerMoves
<1>3. CASE ~(Goto(t, "release") /\ UNCHANGED <<call, ingressVars>>)
  <2>1. PICK r \in Receipts :
          /\ receipt[r].key = call[t].key /\ receipt[r].state = "Live"
          /\ SetReceipt(r, [receipt[r] EXCEPT !.state = "Replying"])
          /\ Locals(t, [call[t] EXCEPT !.token = <<r, receipt[r].generation>>, !.id = receipt[r].id])
          /\ \E matches \in BOOLEAN : Goto(t, IF matches THEN "borrow" ELSE "unclaim")
    BY <1>3 DEF ClaimReceipt, Claimable
  <2>2. PICK p \in {"borrow", "unclaim"} : Goto(t, p)
    BY <2>1
  <2> QED BY <1>1, <2>1, <2>2, ClaimAccepted
<1> QED BY <1>2, <1>3

-----------------------------------------------------------------------------
(* Operations: the transfer of the object *)

TransferRows == [state: {"Free", "Live", "Closing", "Retired"}, generation: 0..kObjectTransferGenerationMax, pins: Nat]

TransferPlaces ==
  {"retain_source", "export", "revoke", "reserve_handle", "pin_row", "retain", "unpin", "publish_handle", "abort", "release"}

\* How the counts of importers and carriers change when one thread moves.
LEMMA ThreadCounts ==
  ASSUME NEW t \in Threads, Moves(t)
  PROVE  /\ Cardinality({u \in Threads : Imports(u)}) \in Nat
         /\ Cardinality({u \in Threads : Imports(u)'}) =
              Cardinality({u \in Threads : Imports(u)}) + (IF Imports(t)' THEN 1 ELSE 0) - (IF Imports(t) THEN 1 ELSE 0)
         /\ \A r \in Rows :
              /\ Cardinality(Importers(r)) \in Nat
              /\ Cardinality(Importers(r)') =
                   Cardinality(Importers(r)) + (IF t \in Importers(r)' THEN 1 ELSE 0) - (IF t \in Importers(r) THEN 1 ELSE 0)
         /\ Cardinality(Carriers) \in Nat /\ Cardinality(Carriers') \in Nat
         /\ Cardinality(Carriers') =
              Cardinality(Carriers) + (IF t \in Carriers' THEN 1 ELSE 0) - (IF t \in Carriers THEN 1 ELSE 0)
<1>0. IsFiniteSet(Threads)
  BY ChannelCoreAssumption
<1>1. /\ Cardinality({u \in Threads : Imports(u)}) \in Nat
      /\ Cardinality({u \in Threads : Imports(u)'}) =
           Cardinality({u \in Threads : Imports(u)}) + (IF Imports(t)' THEN 1 ELSE 0) - (IF Imports(t) THEN 1 ELSE 0)
  <2> DEFINE A == {u \in Threads : Imports(u)}  B == {u \in Threads : Imports(u)'}
  <2>1. A \in SUBSET Threads /\ B \in SUBSET Threads /\ (t \in A <=> Imports(t)) /\ (t \in B <=> Imports(t)')
        /\ \A y \in Threads : y # t => (y \in A <=> y \in B)
    BY DEF Moves, Imports
  <2> HIDE DEF A, B
  <2>2. Cardinality(A) \in Nat /\ Cardinality(B) = Cardinality(A) + (IF t \in B THEN 1 ELSE 0) - (IF t \in A THEN 1 ELSE 0)
    BY <1>0, <2>1, OneMoves
  <2> QED BY <2>1, <2>2 DEF A, B
<1>2. ASSUME NEW r \in Rows
      PROVE  /\ Cardinality(Importers(r)) \in Nat
             /\ Cardinality(Importers(r)') =
                  Cardinality(Importers(r)) + (IF t \in Importers(r)' THEN 1 ELSE 0) - (IF t \in Importers(r) THEN 1 ELSE 0)
  <2> DEFINE A == Importers(r)  B == Importers(r)'
  <2>1. A \in SUBSET Threads /\ B \in SUBSET Threads /\ \A y \in Threads : y # t => (y \in A <=> y \in B)
    BY DEF Moves, Imports, Importers
  <2> HIDE DEF A, B
  <2>2. Cardinality(A) \in Nat /\ Cardinality(B) = Cardinality(A) + (IF t \in B THEN 1 ELSE 0) - (IF t \in A THEN 1 ELSE 0)
    BY <1>0, <2>1, OneMoves
  <2> QED BY <2>2 DEF A, B
<1>3. /\ Cardinality(Carriers) \in Nat /\ Cardinality(Carriers') \in Nat
      /\ Cardinality(Carriers') =
           Cardinality(Carriers) + (IF t \in Carriers' THEN 1 ELSE 0) - (IF t \in Carriers THEN 1 ELSE 0)
  <2> DEFINE A == Carriers  B == Carriers'
  <2>1. A \in SUBSET Threads /\ B \in SUBSET Threads /\ \A y \in Threads : y # t => (y \in A <=> y \in B)
    BY DEF Moves, Carriers
  <2> HIDE DEF A, B
  <2>2. /\ Cardinality(A) \in Nat /\ Cardinality(B) \in Nat
        /\ Cardinality(B) = Cardinality(A) + (IF t \in B THEN 1 ELSE 0) - (IF t \in A THEN 1 ELSE 0)
    BY <1>0, <2>1, OneMoves
  <2> QED BY <2>2 DEF A, B
<1> QED BY <1>1, <1>2, <1>3

\* How the count of rows that own a reference changes with one row.
LEMMA HoldingCount ==
  ASSUME table \in Tables, table' \in Tables, NEW r \in Rows, NEW row \in TransferRows,
         table'.rows = [table.rows EXCEPT ![r] = row]
  PROVE  /\ Cardinality(Holding(table)) \in Nat /\ Cardinality(Holding(table')) \in Nat
         /\ Cardinality(Holding(table')) = Cardinality(Holding(table)) + (IF row.state \in {"Live", "Closing"} THEN 1 ELSE 0)
                                      - (IF table.rows[r].state \in {"Live", "Closing"} THEN 1 ELSE 0)
         /\ table'.rows[r] = row /\ \A q \in Rows : q # r => table'.rows[q] = table.rows[q]
<1>1. table'.rows[r] = row /\ \A q \in Rows : q # r => table'.rows[q] = table.rows[q]
  BY DEF Tables
<1> DEFINE A == Holding(table)  B == Holding(table')
<1>2. /\ A \in SUBSET Rows /\ B \in SUBSET Rows /\ (r \in A <=> table.rows[r].state \in {"Live", "Closing"})
      /\ r \in B <=> row.state \in {"Live", "Closing"}
      /\ \A y \in Rows : y # r => (y \in A <=> y \in B)
  BY <1>1 DEF Holding
<1> HIDE DEF A, B
<1>3. /\ Cardinality(A) \in Nat /\ Cardinality(B) \in Nat
      /\ Cardinality(B) = Cardinality(A) + (IF r \in B THEN 1 ELSE 0) - (IF r \in A THEN 1 ELSE 0)
  BY <1>2, ObjectTransferAssumption, OneMoves
<1> QED BY <1>1, <1>2, <1>3 DEF A, B

\* A step of a transfer, but for the object and its table.
LEMMA TransferStep ==
  ASSUME EInv, NEW t \in Threads, NEW p \in TransferPlaces, NEW c \in Calls, pc[t] \in TransferPlaces,
         Goto(t, p), Locals(t, c), c.next = call[t].next, c.requests = call[t].requests,
         c.role = call[t].role, c.key = call[t].key, p = "publish_handle" => c.result = "Ok",
         UNCHANGED <<core, ledger, port, endpointVars, fate, receipt, source, mix>>,
         table' \in Tables, table'.state = table.state, object' \in Nat,
         destination' \in {"free", "reserved", "live", "drained"}
  PROVE  /\ Moves(t) /\ pc'[t] = p /\ call'[t] = c
         /\ ObjectInv' => EInv'
<1>0. /\ p \in PinnedPlaces /\ pc[t] \in PinnedPlaces /\ p # "claim" /\ p # "borrow"
  BY DEF PinnedPlaces, TransferPlaces
<1>1. CallsInv' /\ Moves(t) /\ pc'[t] = p /\ call'[t] = c
  BY <1>0, InnerCall
<1>2. StateTypes'
  BY TypeParts, DataTypes DEF EInv
<1>3. ledger.state \in {"Open", "SequenceRetired"}
  BY <1>0, PinFacts DEF EInv
<1>4. SlotInv' /\ CoreInv' /\ DriverInv' /\ OwnerInv' /\ ReferenceInv'
  BY <1>0, <1>1, <1>3, InnerKeeps DEF Inner
<1>5. RequestInv'
  BY <1>1, RequestsKept DEF EInv
<1>6. ~Offers(t)' /\ ~Answers(t)' /\ ~HasToken(t)' /\ ~Claimant(t)'
  BY <1>1 DEF Offers, Answers, Replying, HasToken, Claimant, TransferPlaces
<1>7. HolderInv'
  <2>1. \A r \in Receipts : Owed(r)' => Owed(r) /\ receipt'[r].id = receipt[r].id
    BY DEF Owed, endpointVars
  <2> QED BY <1>1, <1>6, <2>1, HoldersKept DEF EInv, Active
<1>8. ReceiptInv'
  BY <1>1, <1>6, ReceiptsKept DEF EInv, endpointVars, Built
<1> QED BY <1>1, <1>2, <1>4, <1>5, <1>7, <1>8 DEF EInv

\* A table in which an operation is pinned is open.
LEMMA TableOpen ==
  ASSUME EInv, NEW t \in Threads, pc[t] \in PinnedPlaces
  PROVE  table.state = "Open"
BY PinFacts DEF EInv, CoreInv, Active

\* A transfer that changes one row.
LEMMA TransferRow ==
  ASSUME EInv, NEW t \in Threads, NEW p \in TransferPlaces, NEW c \in Calls, pc[t] \in TransferPlaces,
         Goto(t, p), Locals(t, c), c.next = call[t].next, c.requests = call[t].requests,
         c.role = call[t].role, c.key = call[t].key, p = "publish_handle" => c.result = "Ok",
         UNCHANGED <<core, ledger, port, endpointVars, fate, ingressVars>>,
         NEW r \in Rows, NEW row \in TransferRows, table' \in Tables, table'.state = table.state,
         table'.rows = [table.rows EXCEPT ![r] = row],
         row.state = "Free" => row.generation < kObjectTransferGenerationMax,
         \A u \in Threads : u # t /\ u \in Importers(r) =>
           row.state \in {"Live", "Closing"} /\ row.generation = table.rows[r].generation,
         table'.active_operations = table.active_operations + (IF Imports(t)' THEN 1 ELSE 0) - (IF Imports(t) THEN 1 ELSE 0),
         row.pins = table.rows[r].pins + (IF t \in Importers(r)' THEN 1 ELSE 0) - (IF t \in Importers(r) THEN 1 ELSE 0),
         \A q \in Rows : q # r => (t \in Importers(q)' <=> t \in Importers(q)),
         Imports(t)' => /\ call'[t].reference # <<>> /\ call'[t].reference[1] = r
                        /\ row.state \in {"Live", "Closing"} /\ row.generation = call'[t].reference[2],
         object' \in Nat,
         object' = object + (IF row.state \in {"Live", "Closing"} THEN 1 ELSE 0)
                   - (IF table.rows[r].state \in {"Live", "Closing"} THEN 1 ELSE 0)
                   + (IF t \in Carriers' THEN 1 ELSE 0) - (IF t \in Carriers THEN 1 ELSE 0)
  PROVE  EInv'
<1>0. table \in Tables /\ destination \in {"free", "reserved", "live", "drained"} /\ source \in BOOLEAN
      /\ UNCHANGED <<source, destination, receipt, mix>> /\ table.rows \in [Rows -> TransferRows]
  BY TypeParts DEF EInv, ingressVars, Tables, TransferRows
<1>1. Moves(t) /\ pc'[t] = p /\ call'[t] = c /\ (ObjectInv' => EInv')
  BY <1>0, TransferStep
<1>2. /\ Cardinality({u \in Threads : Imports(u)}) \in Nat
      /\ Cardinality({u \in Threads : Imports(u)'}) =
           Cardinality({u \in Threads : Imports(u)}) + (IF Imports(t)' THEN 1 ELSE 0) - (IF Imports(t) THEN 1 ELSE 0)
  BY <1>1, ThreadCounts
<1>3. \A q \in Rows :
        /\ Cardinality(Importers(q)) \in Nat
        /\ Cardinality(Importers(q)') =
             Cardinality(Importers(q)) + (IF t \in Importers(q)' THEN 1 ELSE 0) - (IF t \in Importers(q) THEN 1 ELSE 0)
  BY <1>1, ThreadCounts
<1>4. /\ Cardinality(Carriers) \in Nat /\ Cardinality(Carriers') \in Nat
      /\ Cardinality(Carriers') =
           Cardinality(Carriers) + (IF t \in Carriers' THEN 1 ELSE 0) - (IF t \in Carriers THEN 1 ELSE 0)
  BY <1>1, ThreadCounts
<1>5. /\ Cardinality(Holding(table)) \in Nat /\ Cardinality(Holding(table')) \in Nat
      /\ Cardinality(Holding(table')) = Cardinality(Holding(table)) + (IF row.state \in {"Live", "Closing"} THEN 1 ELSE 0)
                                        - (IF table.rows[r].state \in {"Live", "Closing"} THEN 1 ELSE 0)
      /\ table'.rows[r] = row /\ \A q \in Rows : q # r => table'.rows[q] = table.rows[q]
  BY <1>0, HoldingCount
<1>6. PinsInv'
  <2>1. table'.active_operations = Cardinality({u \in Threads : Imports(u)'})
    BY <1>2 DEF EInv, ObjectInv, PinsInv
  <2>2. ASSUME NEW q \in Rows PROVE table'.rows[q].pins = Cardinality(Importers(q)')
    <3>1. CASE q = r
      BY <1>3, <1>5, <3>1 DEF EInv, ObjectInv, PinsInv
    <3>2. CASE q # r
      BY <1>3, <1>5, <3>2 DEF EInv, ObjectInv, PinsInv
    <3> QED BY <3>1, <3>2
  <2> QED BY <2>1, <2>2 DEF PinsInv
<1>7. table.state = "Open"
  BY TableOpen DEF TransferPlaces, PinnedPlaces
<1>8. RowsInv'
  BY <1>5, <1>7 DEF EInv, ObjectInv, RowsInv
<1>9. ImportInv'
  <2>1. ASSUME NEW u \in Threads, Imports(u)'
        PROVE  /\ call'[u].reference # <<>> /\ call'[u].reference[1] \in Holding(table')
               /\ table'.rows[call'[u].reference[1]].generation = call'[u].reference[2]
    <3>1. CASE u = t
      BY <1>5, <2>1, <3>1 DEF Holding
    <3>2. CASE u # t
      <4>1. /\ call'[u] = call[u] /\ Imports(u) /\ call[u].reference # <<>> /\ call[u].reference[1] \in Rows
            /\ table.rows[call[u].reference[1]].generation = call[u].reference[2]
            /\ table.rows[call[u].reference[1]].state \in {"Live", "Closing"}
        BY <1>1, <2>1, <3>2 DEF Moves, Imports, EInv, ObjectInv, ImportInv, Holding
      <4>2. CASE call[u].reference[1] = r
        <5>1. u \in Importers(r)
          BY <4>1, <4>2 DEF Importers
        <5> QED BY <1>5, <3>2, <4>1, <4>2, <5>1 DEF Holding
      <4>3. CASE call[u].reference[1] # r
        BY <1>5, <4>1, <4>3 DEF Holding
      <4> QED BY <4>2, <4>3
    <3> QED BY <3>1, <3>2
  <2> QED BY <2>1 DEF ImportInv
<1>10. CountInv'
  <2>1. object = Cardinality(Holding(table)) + Cardinality(Carriers)
                 + (IF source THEN 1 ELSE 0) + (IF destination = "live" THEN 1 ELSE 0)
    BY DEF EInv, ObjectInv, CountInv
  <2>2. object' = Cardinality(Holding(table')) + Cardinality(Carriers')
                  + (IF source THEN 1 ELSE 0) + (IF destination = "live" THEN 1 ELSE 0)
    <3> DEFINE a == IF row.state \in {"Live", "Closing"} THEN 1 ELSE 0
               b == IF table.rows[r].state \in {"Live", "Closing"} THEN 1 ELSE 0
               d == IF t \in Carriers' THEN 1 ELSE 0
               e == IF t \in Carriers THEN 1 ELSE 0
               f == IF source THEN 1 ELSE 0
               g == IF destination = "live" THEN 1 ELSE 0
    <3>1. a \in 0..1 /\ b \in 0..1 /\ d \in 0..1 /\ e \in 0..1 /\ f \in 0..1 /\ g \in 0..1
      OBVIOUS
    <3>2. /\ object' = object + a - b + d - e
          /\ Cardinality(Holding(table')) = Cardinality(Holding(table)) + a - b
          /\ Cardinality(Carriers') = Cardinality(Carriers) + d - e
          /\ object = Cardinality(Holding(table)) + Cardinality(Carriers) + f + g
      BY <1>4, <1>5, <2>1
    <3>3. /\ Cardinality(Holding(table)) \in Nat /\ Cardinality(Carriers) \in Nat /\ object \in Nat
      BY <1>4, <1>5, TypeParts DEF EInv
    <3> HIDE DEF a, b, d, e, f, g
    <3>4. object' = Cardinality(Holding(table')) + Cardinality(Carriers') + f + g
      BY ONLY <3>1, <3>2, <3>3
    <3> QED BY <3>4 DEF f, g
  <2> QED BY <1>0, <2>2 DEF CountInv
<1> QED BY <1>1, <1>6, <1>8, <1>9, <1>10 DEF ObjectInv

\* A transfer that leaves the table alone.
LEMMA TransferHand ==
  ASSUME EInv, NEW t \in Threads, NEW p \in TransferPlaces, NEW c \in Calls, pc[t] \in TransferPlaces,
         Goto(t, p), Locals(t, c), c.next = call[t].next, c.requests = call[t].requests,
         c.role = call[t].role, c.key = call[t].key, c.reference = call[t].reference, Imports(t)' <=> Imports(t),
         p = "publish_handle" => c.result = "Ok",
         UNCHANGED <<core, ledger, port, table, endpointVars, fate, receipt, source, mix>>,
         object' \in Nat, destination' \in {"free", "reserved", "live", "drained"},
         object' = object + (IF destination' = "live" THEN 1 ELSE 0) - (IF destination = "live" THEN 1 ELSE 0)
                   + (IF t \in Carriers' THEN 1 ELSE 0) - (IF t \in Carriers THEN 1 ELSE 0)
  PROVE  EInv'
<1>0. table \in Tables /\ table' \in Tables /\ table'.state = table.state
  BY TypeParts DEF EInv
<1>1. Moves(t) /\ pc'[t] = p /\ call'[t] = c /\ (ObjectInv' => EInv')
  BY <1>0, TransferStep
<1>2. \A u \in Threads : (Imports(u)' <=> Imports(u)) /\ (Imports(u) => call'[u].reference = call[u].reference)
  BY <1>1 DEF Moves, Imports
<1>3. {u \in Threads : Imports(u)'} = {u \in Threads : Imports(u)} /\ \A r \in Rows : Importers(r)' = Importers(r)
  BY <1>2 DEF Importers
<1>4. PinsInv' /\ RowsInv' /\ ImportInv'
  BY <1>2, <1>3 DEF EInv, ObjectInv, PinsInv, RowsInv, ImportInv
<1>5. /\ Cardinality(Carriers) \in Nat /\ Cardinality(Carriers') \in Nat
      /\ Cardinality(Carriers') =
           Cardinality(Carriers) + (IF t \in Carriers' THEN 1 ELSE 0) - (IF t \in Carriers THEN 1 ELSE 0)
  BY <1>1, ThreadCounts
<1>6. Cardinality(Holding(table)) \in Nat /\ Holding(table') = Holding(table)
  BY ObjectTransferAssumption, SomeMember DEF Holding
<1>7. CountInv'
  <2>1. object = Cardinality(Holding(table)) + Cardinality(Carriers)
                 + (IF source THEN 1 ELSE 0) + (IF destination = "live" THEN 1 ELSE 0)
    BY DEF EInv, ObjectInv, CountInv
  <2> QED BY <1>5, <1>6, <2>1 DEF CountInv
<1> QED BY <1>1, <1>4, <1>7 DEF ObjectInv

\* What an operation keeps when it keeps its locals.
LEMMA KeepsLocals ==
  ASSUME EInv, NEW t \in Threads, UNCHANGED call
  PROVE  Locals(t, call[t]) /\ call[t] \in Calls
BY DEF EInv, CallsInv, Locals

\* ObjectTransferExport's retain of the source.
LEMMA RetainSourceKeeps == ASSUME EInv, NEW t \in Threads, RetainSource(t) PROVE EInv'
<1>1. /\ pc[t] = "retain_source" /\ UNCHANGED <<endpointVars, fate, ingressVars, call>>
      /\ {"retain_source", "export"} \subseteq TransferPlaces
      /\ {"retain_source", "release"} \subseteq PinnedPlaces \ Known
  BY DEF RetainSource, At, PinnedPlaces, TransferPlaces, Known
<1>2. CASE source
  <2>1. SetTable(table, object + 1) /\ Goto(t, "export")
    BY <1>2 DEF RetainSource
  <2>2. UNCHANGED <<core, ledger, port, table, source, destination, receipt, mix>> /\ object' = object + 1 /\ object \in Nat
        /\ destination \in {"free", "reserved", "live", "drained"}
    BY <1>1, <2>1, TypeParts DEF SetTable, ingressVars, EInv
  <2>3. pc'[t] = "export" /\ Locals(t, call[t]) /\ call[t] \in Calls /\ call'[t] = call[t]
    BY <1>1, <2>1, KeepsLocals DEF Goto, EInv, CallsInv
  <2>4. t \notin Carriers /\ t \in Carriers' /\ ~Imports(t) /\ ~Imports(t)'
    BY <1>1, <2>3 DEF Carriers, Imports
  <2> QED BY <1>1, <2>1, <2>2, <2>3, <2>4, TransferHand
<1>3. CASE ~source
  <2>1. Goto(t, "release") /\ UNCHANGED coreVars
    BY <1>3 DEF RetainSource
  <2>2. pc'[t] = "release" /\ call'[t] = call[t]
    BY <1>1, <2>1 DEF EInv, CallsInv, Goto
  <2>3. HandsKept(t)
    BY <1>1, <2>2 DEF HandsKept, Offers, Answers, Replying, Claimant, HasToken, Imports, Carriers
  <2> QED BY <1>1, <2>1, <2>3, InnerMoves
<1> QED BY <1>2, <1>3

\* What is held is counted.
LEMMA SomeHeld ==
  ASSUME EInv
  PROVE  /\ Carriers # {} => object > 0
         /\ Holding(table) # {} => object > 0
         /\ destination = "live" => object > 0
         /\ source => object > 0
<1>1. Cardinality(Carriers) \in Nat /\ (Cardinality(Carriers) = 0 <=> Carriers = {})
  BY ChannelCoreAssumption, SomeMember DEF Carriers
<1>2. Cardinality(Holding(table)) \in Nat /\ (Cardinality(Holding(table)) = 0 <=> Holding(table) = {})
  BY ObjectTransferAssumption, SomeMember DEF Holding
<1> QED BY <1>1, <1>2 DEF EInv, ObjectInv, CountInv

\* The fields of the rows of a table.
LEMMA RowFields ==
  ASSUME EInv, NEW r \in Rows
  PROVE  /\ table \in Tables /\ table.rows[r] \in TransferRows /\ table.rows[r].pins \in Nat
         /\ table.rows[r].generation \in 0..kObjectTransferGenerationMax /\ table.active_operations \in Nat
         /\ kObjectTransferGenerationMax \in Nat \ {0}
BY TypeParts, ObjectTransferAssumption DEF EInv, Tables, TransferRows

\* A row is pinned exactly if somebody imports from it.
LEMMA RowPins ==
  ASSUME EInv, NEW r \in Rows
  PROVE  table.rows[r].pins = 0 <=> Importers(r) = {}
<1>1. table.rows[r].pins = Cardinality(Importers(r))
  BY DEF EInv, ObjectInv, PinsInv
<1> QED BY <1>1, ChannelCoreAssumption, SomeMember DEF Importers

\* The table with another row.
LEMMA TableRow ==
  ASSUME NEW b \in Tables, NEW r \in Rows, NEW row \in TransferRows
  PROVE  LET d == [b EXCEPT !.rows[r] = row] IN
         /\ d \in Tables /\ d.state = b.state /\ d.active_operations = b.active_operations
         /\ d.rows = [b.rows EXCEPT ![r] = row]
BY DEF Tables, TransferRows

\* ClearSlot.
LEMMA ClearedFields ==
  ASSUME NEW row \in TransferRows
  PROVE  /\ Cleared(row) \in TransferRows /\ Cleared(row).generation = row.generation /\ Cleared(row).pins = 0
         /\ Cleared(row).state \in {"Free", "Retired"}
         /\ Cleared(row).state = "Free" => row.generation < kObjectTransferGenerationMax
<1>1. row.generation \in 0..kObjectTransferGenerationMax /\ kObjectTransferGenerationMax \in Nat
  BY ObjectTransferAssumption DEF TransferRows
<1>2. /\ Cleared(row).generation = row.generation /\ Cleared(row).pins = 0
      /\ Cleared(row).state = IF row.generation = kObjectTransferGenerationMax THEN "Retired" ELSE "Free"
  BY DEF Cleared, TransferRows
<1>3. Cleared(row) \in TransferRows
  BY DEF Cleared, TransferRows
<1> QED BY <1>1, <1>2, <1>3

\* ObjectTransferExport.
LEMMA ExportKeeps == ASSUME EInv, NEW t \in Threads, ObjectTransferExport(t) PROVE EInv'
<1>1. /\ pc[t] = "export" /\ Goto(t, "release") /\ UNCHANGED <<endpointVars, fate, ingressVars, call>>
      /\ {"export", "release"} \subseteq TransferPlaces
  BY DEF ObjectTransferExport, At, TransferPlaces
<1>2. pc'[t] = "release" /\ Locals(t, call[t]) /\ call[t] \in Calls /\ call'[t] = call[t]
  BY <1>1, KeepsLocals DEF Goto, EInv, CallsInv
<1>3. t \in Carriers /\ t \notin Carriers' /\ ~Imports(t) /\ ~Imports(t)' /\ \A q \in Rows : t \notin Importers(q) /\ t \notin Importers(q)'
  BY <1>1, <1>2 DEF Carriers, Imports, Importers
<1>4. object \in Nat /\ object > 0
  BY <1>3, SomeHeld, TypeParts DEF EInv
<1>5. CASE ExportRows(table) = {}
  <2>1. SetTable(table, object - 1)
    BY <1>5 DEF ObjectTransferExport
  <2>2. /\ UNCHANGED <<core, ledger, port, table, source, destination, receipt, mix>> /\ object' = object - 1 /\ object' \in Nat
        /\ destination' \in {"free", "reserved", "live", "drained"}
    BY <1>1, <1>4, <2>1, TypeParts DEF SetTable, ingressVars, EInv
  <2> QED BY <1>1, <1>2, <1>3, <1>4, <2>2, TransferHand
<1>6. CASE ExportRows(table) # {}
  <2>1. PICK r \in ExportRows(table) : SetTable(Exported(table, r), object)
    BY <1>6 DEF ObjectTransferExport
  <2> DEFINE row == [state |-> "Live", generation |-> table.rows[r].generation + 1, pins |-> 0]
  <2>2. r \in Rows /\ table.rows[r].state = "Free" /\ table \in Tables /\ table.rows[r].generation \in Nat
        /\ table.rows[r].generation < kObjectTransferGenerationMax /\ kObjectTransferGenerationMax \in Nat
    BY <2>1, RowFields DEF ExportRows, EInv, ObjectInv, RowsInv
  <2>3. row \in TransferRows /\ row.state = "Live" /\ row.pins = 0
    BY <2>2 DEF TransferRows
  <2>4. table' = [table EXCEPT !.rows[r] = row] /\ object' = object /\ UNCHANGED <<core, ledger, port>>
    BY <2>1 DEF SetTable, Exported
  <2> HIDE DEF row
  <2>5. /\ table' \in Tables /\ table'.state = table.state /\ table'.rows = [table.rows EXCEPT ![r] = row]
        /\ table'.active_operations = table.active_operations
    BY <2>2, <2>3, <2>4, TableRow
  <2>6. Importers(r) = {}
    BY <2>2 DEF EInv, ObjectInv, ImportInv, Holding, Importers
  <2>7. table.rows[r].pins = 0 /\ table.active_operations \in Nat
    BY <2>2, <2>6, RowPins, RowFields
  <2>8. /\ object' \in Nat
        /\ object' = object + (IF row.state \in {"Live", "Closing"} THEN 1 ELSE 0)
                     - (IF table.rows[r].state \in {"Live", "Closing"} THEN 1 ELSE 0)
                     + (IF t \in Carriers' THEN 1 ELSE 0) - (IF t \in Carriers THEN 1 ELSE 0)
    BY <1>3, <1>4, <2>2, <2>3, <2>4
  <2>9. table'.active_operations = table.active_operations + (IF Imports(t)' THEN 1 ELSE 0) - (IF Imports(t) THEN 1 ELSE 0)
        /\ row.pins = table.rows[r].pins + (IF t \in Importers(r)' THEN 1 ELSE 0) - (IF t \in Importers(r) THEN 1 ELSE 0)
    BY <1>3, <2>2, <2>3, <2>5, <2>7
  <2> QED BY <1>1, <1>2, <1>3, <2>2, <2>3, <2>4, <2>5, <2>6, <2>8, <2>9, TransferRow
<1> QED BY <1>5, <1>6

\* ObjectTransferRevoke.
LEMMA RevokeKeeps == ASSUME EInv, NEW t \in Threads, ObjectTransferRevoke(t) PROVE EInv'
<1>1. /\ pc[t] = "revoke" /\ Goto(t, "release") /\ UNCHANGED <<endpointVars, fate, ingressVars, call>>
      /\ {"revoke", "release"} \subseteq TransferPlaces
      /\ {"revoke", "release"} \subseteq PinnedPlaces \ Known
  BY DEF ObjectTransferRevoke, At, TransferPlaces, PinnedPlaces, Known
<1>2. pc'[t] = "release" /\ Locals(t, call[t]) /\ call[t] \in Calls /\ call'[t] = call[t]
  BY <1>1, KeepsLocals DEF Goto, EInv, CallsInv
<1>3. t \notin Carriers /\ t \notin Carriers' /\ ~Imports(t) /\ ~Imports(t)' /\ \A q \in Rows : t \notin Importers(q) /\ t \notin Importers(q)'
  BY <1>1, <1>2 DEF Carriers, Imports, Importers
<1>4. CASE UNCHANGED coreVars
  <2>1. HandsKept(t)
    BY <1>1, <1>2 DEF HandsKept, Offers, Answers, Replying, Claimant, HasToken, Imports, Carriers
  <2> QED BY <1>1, <1>4, <2>1, InnerMoves
<1>5. ASSUME NEW r \in Rows, NEW g \in Generations, CanRevoke(table, r, g),
             SetTable(Revoked(table, r), IF Unused(table.rows[r]) THEN object - 1 ELSE object)
      PROVE  EInv'
  <2> DEFINE row == IF Unused(table.rows[r]) THEN Cleared(table.rows[r]) ELSE [table.rows[r] EXCEPT !.state = "Closing"]
  <2>1. /\ table \in Tables /\ table.rows[r] \in TransferRows /\ table.rows[r].pins \in Nat
        /\ table.rows[r].generation \in 0..kObjectTransferGenerationMax /\ table.active_operations \in Nat
        /\ kObjectTransferGenerationMax \in Nat \ {0}
    BY RowFields
  <2>2. table.rows[r].state \in {"Live", "Closing"} /\ object \in Nat /\ object > 0
    BY <1>5, SomeHeld, TypeParts DEF CanRevoke, Holding, EInv
  <2>3. /\ row \in TransferRows /\ row.generation = table.rows[r].generation /\ row.pins = table.rows[r].pins
        /\ row.state = "Free" => row.generation < kObjectTransferGenerationMax
        /\ IF table.rows[r].pins = 0 THEN row.state \in {"Free", "Retired"} ELSE row.state = "Closing"
    <3>1. CASE table.rows[r].pins = 0
      <4>1. /\ Cleared(table.rows[r]) \in TransferRows
            /\ Cleared(table.rows[r]).generation = table.rows[r].generation /\ Cleared(table.rows[r]).pins = 0
            /\ Cleared(table.rows[r]).state \in {"Free", "Retired"}
            /\ Cleared(table.rows[r]).state = "Free" => table.rows[r].generation < kObjectTransferGenerationMax
        BY <2>1, ClearedFields
      <4> QED BY <3>1, <4>1 DEF Unused
    <3>2. CASE table.rows[r].pins # 0
      <4>1. row = [table.rows[r] EXCEPT !.state = "Closing"]
        BY <3>2 DEF Unused
      <4> HIDE DEF row
      <4> QED BY <2>1, <3>2, <4>1 DEF TransferRows
    <3> QED BY <3>1, <3>2
  <2>4. /\ table' = [table EXCEPT !.rows[r] = row] /\ UNCHANGED <<core, ledger, port>>
        /\ object' = IF table.rows[r].pins = 0 THEN object - 1 ELSE object
    BY <1>5, <2>1 DEF SetTable, Revoked, Unused, Tables
  <2> HIDE DEF row
  <2>5. /\ table' \in Tables /\ table'.state = table.state /\ table'.rows = [table.rows EXCEPT ![r] = row]
        /\ table'.active_operations = table.active_operations
    BY <2>1, <2>3, <2>4, TableRow
  <2>6. table.rows[r].pins = 0 <=> Importers(r) = {}
    BY RowPins
  <2>7. \A u \in Threads : u # t /\ u \in Importers(r) =>
           row.state \in {"Live", "Closing"} /\ row.generation = table.rows[r].generation
    BY <2>3, <2>6
  <2>8. /\ object' \in Nat
        /\ object' = object + (IF row.state \in {"Live", "Closing"} THEN 1 ELSE 0)
                     - (IF table.rows[r].state \in {"Live", "Closing"} THEN 1 ELSE 0)
                     + (IF t \in Carriers' THEN 1 ELSE 0) - (IF t \in Carriers THEN 1 ELSE 0)
    BY <1>3, <2>2, <2>3, <2>4
  <2>9. table'.active_operations = table.active_operations + (IF Imports(t)' THEN 1 ELSE 0) - (IF Imports(t) THEN 1 ELSE 0)
        /\ row.pins = table.rows[r].pins + (IF t \in Importers(r)' THEN 1 ELSE 0) - (IF t \in Importers(r) THEN 1 ELSE 0)
    BY <1>3, <2>1, <2>3, <2>5
  <2> QED BY <1>1, <1>2, <1>3, <2>3, <2>4, <2>5, <2>7, <2>8, <2>9, TransferRow
<1> QED BY <1>4, <1>5 DEF ObjectTransferRevoke

\* HandleTableReserve and AbortImportReservation.
LEMMA ReserveHandleKeeps == ASSUME EInv, NEW t \in Threads, ReserveHandle(t) \/ AbortImport(t) PROVE EInv'
<1>1. /\ {"reserve_handle", "pin_row", "abort", "release"} \subseteq TransferPlaces
      /\ {"reserve_handle", "release"} \subseteq PinnedPlaces \ Known
  BY DEF TransferPlaces, PinnedPlaces, Known
<1>2. ASSUME NEW p \in {"pin_row", "release"}, Goto(t, p), pc[t] \in {"reserve_handle", "abort"},
             UNCHANGED <<coreVars, endpointVars, fate, call, receipt, source, mix>>,
             destination' \in {"free", "reserved", "live", "drained"}, destination' = "live" <=> destination = "live"
      PROVE  EInv'
  <2>1. pc'[t] = p /\ Locals(t, call[t]) /\ call[t] \in Calls /\ call'[t] = call[t]
    BY <1>2, KeepsLocals DEF Goto, EInv, CallsInv
  <2>2. t \notin Carriers /\ t \notin Carriers' /\ ~Imports(t) /\ ~Imports(t)'
    BY <1>2, <2>1 DEF Carriers, Imports
  <2>3. object \in Nat /\ object' = object /\ UNCHANGED <<core, ledger, port, table>>
    BY <1>2, TypeParts DEF EInv, coreVars
  <2>4. object' = object + (IF destination' = "live" THEN 1 ELSE 0) - (IF destination = "live" THEN 1 ELSE 0)
                   + (IF t \in Carriers' THEN 1 ELSE 0) - (IF t \in Carriers THEN 1 ELSE 0)
    BY <1>2, <2>2, <2>3
  <2> QED BY <1>1, <1>2, <2>1, <2>2, <2>3, <2>4, TransferHand
<1>3. CASE AbortImport(t)
  <2>1. destination \in {"free", "reserved", "live", "drained"}
    BY TypeParts DEF EInv
  <2> QED BY <1>2, <1>3, <2>1 DEF AbortImport, SetDestination, At
<1>4. CASE ReserveHandle(t) /\ destination = "free"
  BY <1>2, <1>4 DEF ReserveHandle, SetDestination, At
<1>5. CASE ReserveHandle(t) /\ destination # "free"
  <2>1. pc[t] = "reserve_handle" /\ Goto(t, "release") /\ UNCHANGED <<coreVars, endpointVars, fate, ingressVars, call>>
    BY <1>5 DEF ReserveHandle, At
  <2>2. pc'[t] = "release" /\ call'[t] = call[t]
    BY <2>1 DEF EInv, CallsInv, Goto
  <2>3. HandsKept(t)
    BY <2>1, <2>2 DEF HandsKept, Offers, Answers, Replying, Claimant, HasToken, Imports, Carriers
  <2> QED BY <1>1, <2>1, <2>3, InnerMoves
<1> QED BY <1>3, <1>4, <1>5

\* The first critical section of ObjectTransferImport.
LEMMA PinRowKeeps == ASSUME EInv, NEW t \in Threads, PinRow(t) PROVE EInv'
<1>1. /\ pc[t] = "pin_row" /\ UNCHANGED <<endpointVars, fate, ingressVars>>
      /\ {"pin_row", "retain"} \subseteq TransferPlaces /\ {"pin_row", "abort"} \subseteq PinnedPlaces \ Known
  BY DEF PinRow, At, TransferPlaces, PinnedPlaces, Known
<1>2. CASE UNCHANGED <<coreVars, call>> /\ Goto(t, "abort")
  <2>1. pc'[t] = "abort" /\ call'[t] = call[t]
    BY <1>2 DEF EInv, CallsInv, Goto
  <2>2. HandsKept(t)
    BY <1>1, <2>1 DEF HandsKept, Offers, Answers, Replying, Claimant, HasToken, Imports, Carriers
  <2> QED BY <1>1, <1>2, <2>2, InnerMoves
<1>3. ASSUME NEW r \in Rows, NEW g \in Generations, CanPin(table, r, g), SetTable(Pinned(table, r), object),
             Locals(t, [call[t] EXCEPT !.reference = <<r, g>>]), Goto(t, "retain")
      PROVE  EInv'
  <2> DEFINE row == [table.rows[r] EXCEPT !.pins = @ + 1]
             c == [call[t] EXCEPT !.reference = <<r, g>>]
  <2>1. /\ table \in Tables /\ table.rows[r] \in TransferRows /\ table.rows[r].pins \in Nat
        /\ table.active_operations \in Nat /\ object \in Nat
    BY RowFields, TypeParts DEF EInv
  <2>2. table.rows[r].state = "Live" /\ table.rows[r].generation = g
    BY <1>3 DEF CanPin
  <2>3. /\ row \in TransferRows /\ row.generation = g /\ row.pins = table.rows[r].pins + 1 /\ row.state = "Live"
    BY <2>1, <2>2 DEF TransferRows
  <2>4. /\ table' \in Tables /\ table'.state = table.state /\ table'.rows = [table.rows EXCEPT ![r] = row]
        /\ table'.active_operations = table.active_operations + 1
        /\ object' = object /\ UNCHANGED <<core, ledger, port>>
    <3>1. table' = Pinned(table, r) /\ object' = object /\ UNCHANGED <<core, ledger, port>>
      BY <1>3 DEF SetTable
    <3>2. /\ Pinned(table, r).state = table.state /\ Pinned(table, r).rows = [table.rows EXCEPT ![r] = row]
          /\ Pinned(table, r).active_operations = table.active_operations + 1
      BY <2>1 DEF Pinned, Tables
    <3>3. [table.rows EXCEPT ![r] = row] \in [Rows -> TransferRows]
      BY <2>1, <2>3 DEF Tables, TransferRows
    <3>4. Pinned(table, r) \in Tables
      <4>1. Pinned(table, r) = [table EXCEPT !.rows = [table.rows EXCEPT ![r] = row], !.active_operations = table.active_operations + 1]
        BY <2>1 DEF Pinned, Tables
      <4> HIDE DEF row
      <4>2. table.active_operations + 1 \in Nat
        BY <2>1
      <4> QED BY <2>1, <3>3, <4>1, <4>2 DEF Tables, TransferRows
    <3> QED BY <3>1, <3>2, <3>4
  <2>5. /\ c \in Calls /\ c.reference = <<r, g>> /\ c.reference # <<>> /\ c.next = call[t].next
        /\ c.requests = call[t].requests /\ c.role = call[t].role /\ c.key = call[t].key /\ Locals(t, c)
    <3>1. call[t] \in Calls
      BY DEF EInv, CallsInv
    <3> QED BY <1>3, <3>1 DEF Calls
  <2>6. pc'[t] = "retain" /\ call'[t] = c
    BY <1>3, <2>5 DEF Goto, Locals, EInv, CallsInv
  <2> HIDE DEF row, c
  <2>7. /\ t \notin Carriers /\ t \notin Carriers' /\ ~Imports(t) /\ Imports(t)'
        /\ \A q \in Rows : t \notin Importers(q) /\ (t \in Importers(q)' <=> q = r)
    BY <1>1, <2>5, <2>6 DEF Carriers, Imports, Importers
  <2>8. /\ object' \in Nat
        /\ object' = object + (IF row.state \in {"Live", "Closing"} THEN 1 ELSE 0)
                     - (IF table.rows[r].state \in {"Live", "Closing"} THEN 1 ELSE 0)
                     + (IF t \in Carriers' THEN 1 ELSE 0) - (IF t \in Carriers THEN 1 ELSE 0)
    BY <2>1, <2>2, <2>3, <2>4, <2>7
  <2>9. table'.active_operations = table.active_operations + (IF Imports(t)' THEN 1 ELSE 0) - (IF Imports(t) THEN 1 ELSE 0)
        /\ row.pins = table.rows[r].pins + (IF t \in Importers(r)' THEN 1 ELSE 0) - (IF t \in Importers(r) THEN 1 ELSE 0)
    BY <2>1, <2>3, <2>4, <2>7
  <2>10. /\ call'[t].reference # <<>> /\ call'[t].reference[1] = r /\ call'[t].reference[2] = g
    BY ONLY <2>5, <2>6
  <2> QED BY <1>1, <1>3, <2>2, <2>3, <2>4, <2>5, <2>7, <2>8, <2>9, <2>10, TransferRow
<1> QED BY <1>2, <1>3 DEF PinRow

\* KObjectAcquire of the pinned row's object: it is alive.
LEMMA RetainObjectKeeps == ASSUME EInv, NEW t \in Threads, RetainObject(t) PROVE EInv'
<1>1. /\ pc[t] = "retain" /\ UNCHANGED <<endpointVars, fate, ingressVars>>
      /\ {"retain", "unpin"} \subseteq TransferPlaces
  BY DEF RetainObject, At, TransferPlaces
<1>2. Imports(t) /\ object \in Nat /\ object > 0 /\ destination \in {"free", "reserved", "live", "drained"}
  BY <1>1, SomeHeld, TypeParts DEF Imports, EInv, ObjectInv, ImportInv
<1> DEFINE c == [call[t] EXCEPT !.result = "Ok"]
<1>3. SetTable(table, object + 1) /\ Locals(t, c) /\ Goto(t, "unpin")
  BY <1>2 DEF RetainObject
<1>4. /\ c \in Calls /\ c.result = "Ok" /\ c.reference = call[t].reference /\ c.next = call[t].next
      /\ c.requests = call[t].requests /\ c.role = call[t].role /\ c.key = call[t].key
  <2>1. call[t] \in Calls
    BY DEF EInv, CallsInv
  <2> QED BY <2>1 DEF Calls
<1>5. pc'[t] = "unpin" /\ call'[t] = c
  BY <1>3 DEF Goto, Locals, EInv, CallsInv
<1> HIDE DEF c
<1>6. t \notin Carriers /\ t \in Carriers' /\ Imports(t)'
  BY <1>1, <1>4, <1>5 DEF Carriers, Imports
<1>7. /\ UNCHANGED <<core, ledger, port, table, receipt, source, mix, destination>> /\ object' = object + 1
  BY <1>1, <1>3 DEF SetTable, ingressVars
<1>8. object' = object + (IF destination' = "live" THEN 1 ELSE 0) - (IF destination = "live" THEN 1 ELSE 0)
                   + (IF t \in Carriers' THEN 1 ELSE 0) - (IF t \in Carriers THEN 1 ELSE 0) /\ object' \in Nat
  BY <1>2, <1>6, <1>7
<1> QED BY <1>1, <1>2, <1>3, <1>4, <1>6, <1>7, <1>8, TransferHand

\* The second critical section of ObjectTransferImport: the row is still the pinned one.
LEMMA UnpinKeeps == ASSUME EInv, NEW t \in Threads, UnpinRow(t) PROVE EInv'
<1>0. PICK r \in Rows, g \in Generations : call[t].reference[1] = r /\ call[t].reference[2] = g
  <2>1. pc[t] = "unpin"
    BY DEF UnpinRow, At
  <2>2. call[t].reference \in {<<>>} \cup (Rows \X Generations) /\ call[t].reference # <<>>
    BY <2>1 DEF EInv, CallsInv, Calls, ObjectInv, ImportInv, Imports
  <2> QED BY <2>2
<1> DEFINE p == IF call[t].result = "Ok" THEN "publish_handle" ELSE "abort"
           row == [table.rows[r] EXCEPT !.pins = @ - 1]
<1>1. /\ pc[t] = "unpin" /\ UNCHANGED <<endpointVars, fate, ingressVars, call>>
      /\ p \in TransferPlaces /\ pc[t] \in TransferPlaces
  BY DEF UnpinRow, At, TransferPlaces
<1>2. /\ Imports(t) /\ r \in Rows /\ call[t].reference # <<>>
      /\ table.rows[r].state \in {"Live", "Closing"} /\ table.rows[r].generation = g
  BY <1>0, <1>1 DEF Imports, EInv, ObjectInv, ImportInv, Holding
<1>3. /\ table \in Tables /\ table.rows[r] \in TransferRows /\ table.rows[r].pins \in Nat
      /\ table.active_operations \in Nat /\ object \in Nat
  BY <1>2, RowFields, TypeParts DEF EInv
<1>4. t \in Importers(r) /\ table.rows[r].pins > 0 /\ table.active_operations > 0
  <2>1. t \in Importers(r)
    BY <1>0, <1>2 DEF Importers
  <2>2. table.rows[r].pins # 0
    BY <1>2, <2>1, RowPins
  <2>3. table.active_operations # 0
    <3> DEFINE A == {u \in Threads : Imports(u)}
    <3>1. t \in A /\ A \in SUBSET Threads /\ table.active_operations = Cardinality(A)
      BY <1>2 DEF EInv, ObjectInv, PinsInv
    <3> HIDE DEF A
    <3> QED BY <3>1, ChannelCoreAssumption, SomeMember
  <2> QED BY <1>3, <2>1, <2>2, <2>3
<1>5. IdentityIntact(table, r, g)
  BY <1>2, <1>4 DEF IdentityIntact
<1>6. SetTable(Unpinned(table, r), object) /\ Goto(t, p)
  BY <1>0, <1>5 DEF UnpinRow
<1>7. /\ row \in TransferRows /\ row.generation = g /\ row.pins = table.rows[r].pins - 1 /\ row.state = table.rows[r].state
  BY <1>2, <1>3, <1>4 DEF TransferRows
<1>8. /\ table' \in Tables /\ table'.state = table.state /\ table'.rows = [table.rows EXCEPT ![r] = row]
      /\ table'.active_operations = table.active_operations - 1
      /\ object' = object /\ UNCHANGED <<core, ledger, port>>
  <2>1. table' = Unpinned(table, r) /\ object' = object /\ UNCHANGED <<core, ledger, port>>
    BY <1>6 DEF SetTable
  <2>2. /\ Unpinned(table, r).state = table.state /\ Unpinned(table, r).rows = [table.rows EXCEPT ![r] = row]
        /\ Unpinned(table, r).active_operations = table.active_operations - 1
    BY <1>2, <1>3, <1>4 DEF Unpinned, Tables
  <2>3. [table.rows EXCEPT ![r] = row] \in [Rows -> TransferRows] /\ table.active_operations - 1 \in Nat
    BY <1>2, <1>3, <1>4, <1>7 DEF Tables, TransferRows
  <2>4. Unpinned(table, r) \in Tables
    <3>1. Unpinned(table, r) = [table EXCEPT !.rows = [table.rows EXCEPT ![r] = row], !.active_operations = table.active_operations - 1]
      BY <1>2, <1>3, <1>4 DEF Unpinned, Tables
    <3> HIDE DEF row
    <3> QED BY <1>3, <2>3, <3>1 DEF Tables, TransferRows
  <2> QED BY <2>1, <2>2, <2>4
<1>9. pc'[t] = p /\ Locals(t, call[t]) /\ call[t] \in Calls /\ call'[t] = call[t]
  BY <1>1, <1>6, KeepsLocals DEF Goto, EInv, CallsInv
<1>10. /\ (t \in Carriers <=> t \in Carriers') /\ ~Imports(t)'
       /\ \A q \in Rows : t \notin Importers(q)' /\ (t \in Importers(q) => q = r)
  BY <1>0, <1>1, <1>9 DEF Carriers, Imports, Importers
<1> HIDE DEF row, p
<1>11. /\ object' \in Nat
       /\ object' = object + (IF row.state \in {"Live", "Closing"} THEN 1 ELSE 0)
                    - (IF table.rows[r].state \in {"Live", "Closing"} THEN 1 ELSE 0)
                    + (IF t \in Carriers' THEN 1 ELSE 0) - (IF t \in Carriers THEN 1 ELSE 0)
  BY <1>3, <1>7, <1>8, <1>10
<1>12. table'.active_operations = table.active_operations + (IF Imports(t)' THEN 1 ELSE 0) - (IF Imports(t) THEN 1 ELSE 0)
       /\ row.pins = table.rows[r].pins + (IF t \in Importers(r)' THEN 1 ELSE 0) - (IF t \in Importers(r) THEN 1 ELSE 0)
  <2>1. Imports(t) /\ ~Imports(t)' /\ t \in Importers(r) /\ t \notin Importers(r)'
    BY <1>2, <1>4, <1>10
  <2> QED BY <1>3, <1>7, <1>8, <2>1
<1>13. /\ row.state # "Free" /\ row.state \in {"Live", "Closing"} /\ row.generation = table.rows[r].generation
  BY <1>2, <1>7
<1>14. \A q \in Rows : q # r => (t \in Importers(q)' <=> t \in Importers(q))
  BY <1>10
<1>15. p = "publish_handle" => call[t].result = "Ok"
  BY DEF p
<1> QED BY <1>1, <1>6, <1>7, <1>8, <1>9, <1>10, <1>11, <1>12, <1>13, <1>14, <1>15, TransferRow

\* HandleTablePublish of the imported handle.
LEMMA PublishImportedKeeps == ASSUME EInv, NEW t \in Threads, PublishImported(t) PROVE EInv'
<1>1. /\ pc[t] = "publish_handle" /\ UNCHANGED <<endpointVars, fate, call>>
      /\ {"publish_handle", "release", "abort"} \subseteq TransferPlaces
  BY DEF PublishImported, At, TransferPlaces
<1>2. object \in Nat /\ destination \in {"free", "reserved", "live", "drained"} /\ call[t] \in Calls
  BY TypeParts DEF EInv, CallsInv
<1>3. call[t].result = "Ok" /\ Locals(t, call[t])
  BY <1>1, KeepsLocals DEF EInv, CallsInv
<1>4. t \in Carriers /\ object > 0 /\ ~Imports(t)
  BY <1>1, <1>3, SomeHeld DEF Carriers, Imports
<1>5. CASE destination = "reserved"
  <2>1. destination' = "live" /\ Goto(t, "release") /\ UNCHANGED <<core, ledger, port, table, object, receipt, source, mix>>
    BY <1>5 DEF PublishImported, SetDestination, coreVars
  <2>2. pc'[t] = "release"
    BY <2>1 DEF Goto, EInv, CallsInv
  <2>3. t \notin Carriers' /\ ~Imports(t)'
    BY <2>2 DEF Carriers, Imports
  <2>4. object' = object + (IF destination' = "live" THEN 1 ELSE 0) - (IF destination = "live" THEN 1 ELSE 0)
                   + (IF t \in Carriers' THEN 1 ELSE 0) - (IF t \in Carriers THEN 1 ELSE 0)
    BY <1>2, <1>4, <1>5, <2>1, <2>3
  <2> QED BY <1>1, <1>2, <1>3, <1>4, <2>1, <2>3, <2>4, TransferHand
<1>6. CASE destination # "reserved"
  <2>1. /\ object' = object - 1 /\ Goto(t, "abort")
        /\ UNCHANGED <<core, ledger, port, table, receipt, source, mix, destination>>
    BY <1>6 DEF PublishImported, SetTable, ingressVars
  <2>2. pc'[t] = "abort"
    BY <2>1 DEF Goto, EInv, CallsInv
  <2>3. t \notin Carriers' /\ ~Imports(t)'
    BY <2>2 DEF Carriers, Imports
  <2>4. object' = object + (IF destination' = "live" THEN 1 ELSE 0) - (IF destination = "live" THEN 1 ELSE 0)
                   + (IF t \in Carriers' THEN 1 ELSE 0) - (IF t \in Carriers THEN 1 ELSE 0) /\ object' \in Nat
    BY <1>2, <1>4, <2>1, <2>3
  <2> QED BY <1>1, <1>2, <1>3, <1>4, <2>1, <2>3, <2>4, TransferHand
<1> QED BY <1>5, <1>6

-----------------------------------------------------------------------------
(* Around the pin: what a step of a call keeps of the slot *)

\* The places outside the pin and the drain.
Outside == Places \ (PinnedPlaces \cup Driving)

\* A thread outside the pin and the drain has nothing in its hands.
LEMMA OutsideHands ==
  ASSUME NEW t \in Threads, pc[t] \in Outside \cup {"release", "settle"}
  PROVE  /\ ~Offers(t) /\ ~Answers(t) /\ ~HasToken(t) /\ ~Claimant(t) /\ ~Imports(t) /\ t \notin Carriers
BY DEF Outside, Places, PinnedPlaces, Driving, Offers, Answers, Replying, HasToken, Claimant, Imports, Carriers

\* So a step between two such places takes nothing into them.
LEMMA OutsideKept ==
  ASSUME CallsInv, CallsInv', NEW t \in Threads, pc[t] \in Outside \cup {"release", "settle"},
         pc'[t] \in Outside \cup {"release", "settle"}
  PROVE  HandsKept(t)
<1>1. ~Offers(t) /\ ~Answers(t) /\ ~HasToken(t) /\ ~Claimant(t) /\ ~Imports(t) /\ t \notin Carriers
  BY OutsideHands
<1>2. ~Offers(t)' /\ ~Answers(t)' /\ ~HasToken(t)' /\ ~Claimant(t)' /\ ~Imports(t)' /\ t \notin Carriers'
  BY DEF Outside, Places, PinnedPlaces, Driving, Offers, Answers, Replying, HasToken, Claimant, Imports, Carriers
<1>3. call[t].requests = {} /\ call'[t].requests = {}
  BY DEF CallsInv, Outside, Driving
<1> QED BY <1>1, <1>2, <1>3 DEF HandsKept

\* A step outside that leaves the slot and the core alone.
LEMMA OutsideSlot ==
  ASSUME EInv, NEW t \in Threads, Moves(t), pc[t] \in Outside, pc'[t] \in Outside,
         UNCHANGED <<core, ledger, table, slot, generation>>,
         slot.state = "Draining" /\ WillLook(t) => WillLook(t)'
  PROVE  SlotInv' /\ CoreInv' /\ DriverInv'
<1>0. pc[t] \notin PinnedPlaces \cup Driving /\ pc'[t] \notin PinnedPlaces \cup Driving
      /\ {"close", "finish", "drain", "cleanup", "settle"} \subseteq Driving
  BY DEF Outside, Driving
<1>1. \A u \in Threads : u # t => pc'[u] = pc[u] /\ call'[u] = call[u]
  BY DEF Moves
<1>2. SlotInv'
  BY DEF EInv, SlotInv, Up, Active
<1>3. CoreInv'
  BY <1>0, <1>1 DEF EInv, CoreInv, Active
<1>4. slot.state = "Draining" => \A u \in Threads : WillLook(u) => WillLook(u)'
  BY <1>1 DEF WillLook
<1>5. \A u \in Threads : pc[u] \in Driving => slot.state = "Draining"
  BY DEF EInv, DriverInv, SlotInv
<1>6. \A u \in Threads : pc'[u] \in Driving => u # t /\ pc[u] \in Driving /\ pc'[u] = pc[u] /\ call'[u] = call[u]
  BY <1>0, <1>1
<1>7. DrainSeen'
  BY <1>4 DEF EInv, DriverInv, DrainSeen
<1>8. DriverInv'
  BY <1>0, <1>1, <1>4, <1>5, <1>6, <1>7 DEF EInv, DriverInv, Active
<1> QED BY <1>2, <1>3, <1>8

\* A step after which the owner's hold is released by the same thread, or none.
LEMMA OwnerKept ==
  ASSUME OwnerInv, NEW t \in Threads, Moves(t), slot'.outer_owner_live = slot.outer_owner_live, slot'.key = slot.key,
         slot.state \in {"Draining", "Drained"} => slot'.state \in {"Draining", "Drained"},
         Releases(t)' => /\ Releases(t) /\ call'[t].key = call[t].key
                         /\ call'[t].role = call[t].role /\ call'[t].op = call[t].op
  PROVE  OwnerInv'
<1>1. \A u \in Threads : Releases(u)' => /\ Releases(u) /\ call'[u].key = call[u].key
                                         /\ call'[u].role = call[u].role /\ call'[u].op = call[u].op
  BY DEF Moves, Releases
<1> QED BY <1>1 DEF OwnerInv

\* How the count of the references that calls hold changes.
LEMMA ReferentCount ==
  ASSUME NEW t \in Threads, Moves(t), NEW r \in Roles
  PROVE  /\ Cardinality(Referents(r)) \in Nat /\ Cardinality(Referents(r)') \in Nat
         /\ Cardinality(Referents(r)') =
              Cardinality(Referents(r)) + (IF t \in Referents(r)' THEN 1 ELSE 0) - (IF t \in Referents(r) THEN 1 ELSE 0)
<1> DEFINE A == Referents(r)  B == Referents(r)'
<1>1. A \in SUBSET Threads /\ B \in SUBSET Threads /\ \A y \in Threads : y # t => (y \in A <=> y \in B)
  BY DEF Moves, Referents, HoldsReference
<1> HIDE DEF A, B
<1>2. /\ Cardinality(A) \in Nat /\ Cardinality(B) \in Nat
      /\ Cardinality(B) = Cardinality(A) + (IF t \in B THEN 1 ELSE 0) - (IF t \in A THEN 1 ELSE 0)
  BY <1>1, ChannelCoreAssumption, OneMoves
<1> QED BY <1>2 DEF A, B

\* The references after a step of one thread.
LEMMA ReferenceStep ==
  ASSUME EInv, NEW t \in Threads, Moves(t), slot'.key = slot.key,
         \A r \in Roles : refcount'[r] \in Nat /\
           refcount'[r] = refcount[r] + (IF t \in Referents(r)' THEN 1 ELSE 0) - (IF t \in Referents(r) THEN 1 ELSE 0)
                          + (IF handle'[r] = "none" THEN 0 ELSE 1) - (IF handle[r] = "none" THEN 0 ELSE 1),
         \A r \in Roles : refcount'[r] > 0 => Up' /\ slot'.endpoint_reference_live[r],
         HoldsReference(t)' => call'[t].key = slot.key,
         \A u \in Threads : u # t /\ pc[u] = "destroy" =>
           Up' /\ slot'.endpoint_reference_live[call[u].role] /\ refcount'[call[u].role] = 0,
         pc'[t] = "destroy" =>
           /\ Up' /\ slot'.endpoint_reference_live[call'[t].role] /\ call'[t].key = slot.key
           /\ refcount'[call'[t].role] = 0
           /\ \A u \in Threads \ {t} : pc[u] = "destroy" => call[u].role # call'[t].role,
         slot'.state = "Private" => handle'["acceptor"] = "unpublished"
  PROVE  ReferenceInv'
<1>1. \A u \in Threads : u # t => pc'[u] = pc[u] /\ call'[u] = call[u] /\ (HoldsReference(u)' <=> HoldsReference(u))
  BY DEF Moves, HoldsReference
<1>2. ASSUME NEW r \in Roles PROVE refcount'[r] = Cardinality(Referents(r)') + (IF handle'[r] = "none" THEN 0 ELSE 1)
  <2> DEFINE a == IF t \in Referents(r)' THEN 1 ELSE 0
             b == IF t \in Referents(r) THEN 1 ELSE 0
             d == IF handle'[r] = "none" THEN 0 ELSE 1
             e == IF handle[r] = "none" THEN 0 ELSE 1
  <2>1. a \in 0..1 /\ b \in 0..1 /\ d \in 0..1 /\ e \in 0..1
    OBVIOUS
  <2>2. /\ refcount'[r] = refcount[r] + a - b + d - e
        /\ refcount[r] = Cardinality(Referents(r)) + e
        /\ Cardinality(Referents(r)') = Cardinality(Referents(r)) + a - b
    BY ReferentCount DEF EInv, ReferenceInv
  <2>3. Cardinality(Referents(r)) \in Nat /\ refcount[r] \in Nat
    BY ReferentCount DEF EInv, StateTypes, EndpointTypeOK
  <2> HIDE DEF a, b, d, e
  <2>4. refcount'[r] = Cardinality(Referents(r)') + d
    BY ONLY <2>1, <2>2, <2>3
  <2> QED BY <2>4 DEF d
<1>3. ASSUME NEW u \in Threads, pc'[u] = "destroy"
      PROVE  /\ Up' /\ slot'.endpoint_reference_live[call'[u].role] /\ call'[u].key = slot'.key
             /\ refcount'[call'[u].role] = 0
             /\ \A w \in Threads \ {u} : pc'[w] = "destroy" => call'[w].role # call'[u].role
  <2>1. CASE u = t
    BY <1>1, <1>3, <2>1
  <2>2. CASE u # t
    BY <1>1, <1>3, <2>2 DEF EInv, ReferenceInv
  <2> QED BY <2>1, <2>2
<1>4. \A u \in Threads : HoldsReference(u)' => call'[u].key = slot'.key
  BY <1>1 DEF EInv, ReferenceInv
<1> QED BY <1>2, <1>3, <1>4 DEF ReferenceInv

\* ... that takes and drops none.
LEMMA ReferencesKept ==
  ASSUME EInv, NEW t \in Threads, Moves(t), slot'.key = slot.key, Up => Up',
         slot'.endpoint_reference_live = slot.endpoint_reference_live, UNCHANGED <<refcount, handle>>,
         HoldsReference(t)' <=> HoldsReference(t),
         HoldsReference(t) => call'[t].key = call[t].key /\ call'[t].role = call[t].role,
         pc'[t] # "destroy", slot'.state = "Private" => slot.state = "Private"
  PROVE  ReferenceInv'
<1>1. \A r \in Roles : t \in Referents(r)' <=> t \in Referents(r)
  BY DEF Referents
<1>2. \A r \in Roles : refcount[r] \in Nat
  BY DEF EInv, StateTypes, EndpointTypeOK
<1>3. \A r \in Roles : refcount'[r] \in Nat /\
        refcount'[r] = refcount[r] + (IF t \in Referents(r)' THEN 1 ELSE 0) - (IF t \in Referents(r) THEN 1 ELSE 0)
                       + (IF handle'[r] = "none" THEN 0 ELSE 1) - (IF handle[r] = "none" THEN 0 ELSE 1)
  BY <1>1, <1>2
<1>4. HoldsReference(t)' => call'[t].key = slot.key
  BY DEF EInv, ReferenceInv
<1>5. \A r \in Roles : refcount'[r] > 0 => Up' /\ slot'.endpoint_reference_live[r]
  BY DEF EInv, ReferenceInv
<1>6. \A u \in Threads : u # t /\ pc[u] = "destroy" =>
           Up' /\ slot'.endpoint_reference_live[call[u].role] /\ refcount'[call[u].role] = 0
  BY DEF EInv, ReferenceInv
<1>7. slot'.state = "Private" => handle'["acceptor"] = "unpublished"
  BY DEF EInv, ReferenceInv
<1> QED BY <1>3, <1>4, <1>5, <1>6, <1>7, ReferenceStep

\* A thread that has a reference, or the last handle, finds its channel.
LEMMA ReferenceFacts ==
  ASSUME EInv, NEW r \in Roles
  PROVE  /\ refcount[r] \in Nat
         /\ handle[r] # "none" => refcount[r] > 0
         /\ refcount[r] > 0 => Up /\ slot.endpoint_reference_live[r] /\ \A u \in Threads : pc[u] = "destroy" => call[u].role # r
         /\ \A t \in Threads : HoldsReference(t) /\ call[t].role = r =>
              /\ refcount[r] > 0 /\ call[t].key = slot.key
              /\ handle[r] # "none" => refcount[r] > 1
<1>1. Cardinality(Referents(r)) \in Nat /\ (Cardinality(Referents(r)) = 0 <=> Referents(r) = {})
  BY ChannelCoreAssumption, SomeMember DEF Referents
<1>2. refcount[r] = Cardinality(Referents(r)) + (IF handle[r] = "none" THEN 0 ELSE 1) /\ refcount[r] \in Nat
  BY DEF EInv, ReferenceInv, StateTypes, EndpointTypeOK
<1>3. refcount[r] > 0 => Up /\ slot.endpoint_reference_live[r] /\ \A u \in Threads : pc[u] = "destroy" => call[u].role # r
  BY <1>2 DEF EInv, ReferenceInv
<1>4. ASSUME NEW t \in Threads, HoldsReference(t), call[t].role = r
      PROVE  /\ refcount[r] > 0 /\ call[t].key = slot.key /\ (handle[r] # "none" => refcount[r] > 1)
  <2>1. Referents(r) # {}
    BY <1>4 DEF Referents
  <2>2. call[t].key = slot.key
    BY <1>4 DEF EInv, ReferenceInv
  <2> QED BY <1>1, <1>2, <2>1, <2>2
<1> QED BY <1>1, <1>2, <1>3, <1>4

-----------------------------------------------------------------------------
(* Handles and references *)

\* The type of the state after a step that changes handles and references only.
LEMMA HandleTypes ==
  ASSUME StateTypes, UNCHANGED <<coreVars, slot, generation, fate, ingressVars>>,
         handle' \in [Roles -> {"none", "unpublished", "queued", "open"}], refcount' \in [Roles -> Nat]
  PROVE  StateTypes'
BY DEF StateTypes, EndpointTypeOK, CoreTypeOK, coreVars, ingressVars

\* A call outside the pin and the drain, which changes its place, its locals and the references.
LEMMA OutsideStep ==
  ASSUME EInv, NEW t \in Threads, NEW p \in Outside, NEW c \in Calls, pc[t] \in Outside, Goto(t, p), Locals(t, c),
         UNCHANGED <<coreVars, slot, generation, fate, ingressVars>>,
         handle' \in [Roles -> {"none", "unpublished", "queued", "open"}], refcount' \in [Roles -> Nat],
         p # "drive" => c.next = "idle" \/ (p = "destroy" /\ c.next = "cancel"), c.requests = {},
         p = "accepted" => c.op = "close" /\ c.role = "acceptor",
         slot.state = "Draining" /\ WillLook(t) => c.key = call[t].key /\ p \in {"help", "drive"},
         c.next = "owned" \/ p = "owned" => Releases(t) /\ c.key = call[t].key /\ c.role = call[t].role /\ c.op = call[t].op,
         ReferenceInv'
  PROVE  EInv'
<1>0. p \in Places /\ p \notin Known /\ p \notin Driving /\ (p \in Underway <=> p = "drive")
  BY DEF Outside, Known, Underway, PinnedPlaces
<1>1. /\ Moves(t) /\ pc'[t] = p /\ call'[t] = c
      /\ pc' \in [Threads -> Places] /\ call' \in [Threads -> Calls]
  BY <1>0, GotoLocals DEF EInv
<1>2. CallsInv'
  BY <1>0, <1>1, CallsKept DEF EInv, Known
<1>3. StateTypes'
  BY HandleTypes DEF EInv
<1>4. SlotInv' /\ CoreInv' /\ DriverInv'
  <2>1. slot.state = "Draining" /\ WillLook(t) => WillLook(t)'
    BY <1>1 DEF WillLook
  <2> QED BY <1>1, <2>1, OutsideSlot DEF coreVars
<1>5. OwnerInv'
  <2>1. Releases(t)' => /\ Releases(t) /\ call'[t].key = call[t].key
                        /\ call'[t].role = call[t].role /\ call'[t].op = call[t].op
    BY <1>1 DEF Releases
  <2> QED BY <1>1, <2>1, OwnerKept DEF EInv
<1>6. HandsKept(t)
  BY <1>1, <1>2, OutsideKept DEF EInv
<1>7. RequestInv' /\ HolderInv' /\ ReceiptInv' /\ ObjectInv'
  <2>1. (Active' => Active) /\ slot'.key = slot.key /\ Built' = Built /\ UNCHANGED dataVars
    BY DEF Active, Built, dataVars, coreVars, ingressVars
  <2> QED BY <1>1, <1>6, <2>1, DataKept
<1> QED BY <1>2, <1>3, <1>4, <1>5, <1>7 DEF EInv

\* A lookup: the handle's reference keeps the channel there for the one it adds.
LEMMA TakesReference ==
  ASSUME EInv, NEW t \in Threads, NEW r \in Roles, pc[t] = "idle", handle[r] = "open",
         refcount' = [refcount EXCEPT ![r] = @ + 1], UNCHANGED <<coreVars, slot, generation, handle, fate, ingressVars>>,
         NEW c \in Calls, Locals(t, c), c.role = r, c.key = slot.key, c.next = "idle", c.requests = {},
         NEW p \in {"acquire", "accepted", "detach"}, Goto(t, p), p = "accepted" => r = "acceptor" /\ c.op = "close"
  PROVE  EInv'
<1>0. slot.key \in 0..kServiceEndpointGenerationMaximum /\ refcount \in [Roles -> Nat]
      /\ handle \in [Roles -> {"none", "unpublished", "queued", "open"}]
  BY DEF EInv, StateTypes, EndpointTypeOK
<1>2. p \in Outside /\ pc[t] \in Outside /\ p \notin {"drive", "destroy", "owned"} /\ p \in Places
  BY DEF Outside, Places, PinnedPlaces, Driving
<1>3. Moves(t) /\ pc'[t] = p /\ call'[t] = c
  BY <1>2, GotoLocals DEF EInv
<1>4. /\ refcount[r] \in Nat /\ refcount[r] > 0 /\ Up /\ slot.endpoint_reference_live[r]
      /\ \A u \in Threads : pc[u] = "destroy" => call[u].role # r
  BY ReferenceFacts
<1>5. ReferenceInv'
  <2>1. ~HoldsReference(t) /\ HoldsReference(t)'
    BY <1>3 DEF HoldsReference, PinnedPlaces, Underway, Driving
  <2>2. \A q \in Roles : t \notin Referents(q) /\ (t \in Referents(q)' <=> q = r)
    BY <1>3, <2>1 DEF Referents
  <2>3. \A q \in Roles : refcount'[q] = IF q = r THEN refcount[q] + 1 ELSE refcount[q]
    BY <1>0
  <2>4. \A q \in Roles : refcount'[q] \in Nat /\
         refcount'[q] = refcount[q] + (IF t \in Referents(q)' THEN 1 ELSE 0) - (IF t \in Referents(q) THEN 1 ELSE 0)
                        + (IF handle'[q] = "none" THEN 0 ELSE 1) - (IF handle[q] = "none" THEN 0 ELSE 1)
    BY <1>0, <2>2, <2>3
  <2>5. \A q \in Roles : refcount'[q] > 0 => Up' /\ slot'.endpoint_reference_live[q]
    BY <1>0, <1>4, <2>3 DEF EInv, ReferenceInv, Up
  <2>6. \A u \in Threads : u # t /\ pc[u] = "destroy" =>
           Up' /\ slot'.endpoint_reference_live[call[u].role] /\ refcount'[call[u].role] = 0
    <3>1. \A u \in Threads : call[u].role \in Roles
      BY DEF EInv, CallsInv, Calls
    <3> QED BY <1>4, <2>3, <3>1 DEF EInv, ReferenceInv, Up
  <2>7. slot'.state = "Private" => handle'["acceptor"] = "unpublished"
    BY DEF EInv, ReferenceInv
  <2>8. call'[t].key = slot.key /\ pc'[t] # "destroy" /\ slot'.key = slot.key
    BY <1>2, <1>3
  <2> QED BY <1>3, <2>4, <2>5, <2>6, <2>7, <2>8, ReferenceStep
<1>6. ~WillLook(t) /\ refcount' \in [Roles -> Nat] /\ handle' = handle
  BY <1>0, <1>4 DEF WillLook, PinnedPlaces
<1> QED BY <1>0, <1>2, <1>5, <1>6, OutsideStep

\* HandleTableLookupRef by an operation or by a close.
LEMMA LookupKeeps == ASSUME EInv, NEW t \in Threads, NEW r \in Roles, LookupEndpoint(t, r) \/ RecogniseEndpoint(t, r) PROVE EInv'
<1>0. slot.key \in 0..kServiceEndpointGenerationMaximum
  BY DEF EInv, StateTypes, EndpointTypeOK
<1>1. CASE LookupEndpoint(t, r)
  <2> DEFINE c == [NoCall EXCEPT !.role = r, !.key = slot.key]
  <2>1. c \in Calls /\ c.role = r /\ c.key = slot.key /\ c.next = "idle" /\ c.requests = {}
    BY <1>0, NoCallType DEF NoCall, Calls
  <2>2. /\ pc[t] = "idle" /\ handle[r] = "open" /\ refcount' = [refcount EXCEPT ![r] = @ + 1]
        /\ Locals(t, c) /\ Goto(t, "acquire") /\ UNCHANGED <<coreVars, slot, generation, handle, fate, ingressVars>>
    BY <1>1 DEF LookupEndpoint, At
  <2> HIDE DEF c
  <2> QED BY <2>1, <2>2, TakesReference
<1>2. CASE RecogniseEndpoint(t, r)
  <2> DEFINE c == [NoCall EXCEPT !.op = "close", !.role = r, !.key = slot.key]
  <2>1. c \in Calls /\ c.op = "close" /\ c.role = r /\ c.key = slot.key /\ c.next = "idle" /\ c.requests = {}
    BY <1>0, NoCallType DEF NoCall, Calls
  <2>2. /\ pc[t] = "idle" /\ handle[r] = "open" /\ refcount' = [refcount EXCEPT ![r] = @ + 1]
        /\ Locals(t, c) /\ UNCHANGED <<coreVars, slot, generation, handle, fate, ingressVars>>
    BY <1>2 DEF RecogniseEndpoint, At
  <2>3. PICK p \in {"accepted", "detach"} : Goto(t, p) /\ (p = "accepted" => r = "acceptor")
    BY <1>2 DEF RecogniseEndpoint
  <2> HIDE DEF c
  <2> QED BY <2>1, <2>2, <2>3, TakesReference
<1> QED BY <1>1, <1>2

\* A handle's reference goes to the call that closes it.
LEMMA HandleReference ==
  ASSUME EInv, NEW t \in Threads, NEW r \in Roles, ~HoldsReference(t), handle[r] # "none",
         handle' = [handle EXCEPT ![r] = "none"], refcount' = refcount, slot'.key = slot.key, Up => Up',
         slot'.endpoint_reference_live = slot.endpoint_reference_live,
         slot'.state = "Private" => slot.state = "Private" /\ r # "acceptor",
         Moves(t), pc'[t] = "deref", call'[t].role = r, call'[t].key = slot.key
  PROVE  ReferenceInv'
<1>0. refcount \in [Roles -> Nat] /\ handle \in [Roles -> {"none", "unpublished", "queued", "open"}]
  BY DEF EInv, StateTypes, EndpointTypeOK
<1>1. HoldsReference(t)'
  BY DEF HoldsReference
<1>2. \A q \in Roles : t \notin Referents(q) /\ (t \in Referents(q)' <=> q = r)
  BY <1>1 DEF Referents
<1>3. \A q \in Roles : handle'[q] = IF q = r THEN "none" ELSE handle[q]
  BY <1>0
<1>4. \A q \in Roles : refcount'[q] \in Nat /\
       refcount'[q] = refcount[q] + (IF t \in Referents(q)' THEN 1 ELSE 0) - (IF t \in Referents(q) THEN 1 ELSE 0)
                      + (IF handle'[q] = "none" THEN 0 ELSE 1) - (IF handle[q] = "none" THEN 0 ELSE 1)
  BY <1>0, <1>2, <1>3
<1>5. \A q \in Roles : refcount'[q] > 0 => Up' /\ slot'.endpoint_reference_live[q]
  BY DEF EInv, ReferenceInv
<1>6. \A u \in Threads : u # t /\ pc[u] = "destroy" =>
         Up' /\ slot'.endpoint_reference_live[call[u].role] /\ refcount'[call[u].role] = 0
  BY DEF EInv, ReferenceInv
<1>7. slot'.state = "Private" => handle'["acceptor"] = "unpublished"
  BY <1>3 DEF EInv, ReferenceInv, Roles
<1> QED BY <1>4, <1>5, <1>6, <1>7, ReferenceStep

\* ... which leaves the slot alone.
LEMMA HandleTaken ==
  ASSUME EInv, NEW t \in Threads, NEW r \in Roles, pc[t] \in {"idle", "owned"}, pc[t] = "owned" => call[t].op = "owner",
         handle[r] # "none", slot.state = "Private" => r # "acceptor",
         handle' = [handle EXCEPT ![r] = "none"], UNCHANGED <<coreVars, slot, generation, refcount, fate, ingressVars>>,
         NEW c \in Calls, Locals(t, c), c.role = r, c.key = slot.key, c.next = "idle", c.requests = {}, Goto(t, "deref")
  PROVE  EInv'
<1>1. refcount \in [Roles -> Nat] /\ handle' \in [Roles -> {"none", "unpublished", "queued", "open"}]
  BY DEF EInv, StateTypes, EndpointTypeOK
<1>2. "deref" \in Outside /\ pc[t] \in Outside /\ "deref" \in Places
  BY DEF Outside, Places, PinnedPlaces, Driving
<1>3. Moves(t) /\ pc'[t] = "deref" /\ call'[t] = c
  BY <1>2, GotoLocals DEF EInv
<1>4. ~HoldsReference(t) /\ ~WillLook(t)
  BY DEF HoldsReference, WillLook, PinnedPlaces, Underway, Driving
<1>5. ReferenceInv'
  BY <1>3, <1>4, HandleReference DEF Up
<1> QED BY <1>1, <1>2, <1>4, <1>5, OutsideStep

\* HandleTableDrain.
LEMMA DrainHandleKeeps == ASSUME EInv, NEW t \in Threads, NEW r \in Roles, DrainHandle(t, r) PROVE EInv'
<1> DEFINE c == [NoCall EXCEPT !.op = "drain", !.role = r, !.key = slot.key]
<1>0. c \in Calls /\ c.role = r /\ c.key = slot.key /\ c.next = "idle" /\ c.requests = {}
  <2>1. slot.key \in 0..kServiceEndpointGenerationMaximum
    BY DEF EInv, StateTypes, EndpointTypeOK
  <2> QED BY <2>1, NoCallType DEF NoCall, Calls
<1>1. /\ pc[t] = "idle" /\ handle[r] = "open" /\ handle' = [handle EXCEPT ![r] = "none"]
      /\ UNCHANGED <<coreVars, slot, generation, refcount, fate, ingressVars>>
      /\ Locals(t, c) /\ Goto(t, "deref")
  BY DEF DrainHandle, At
<1> HIDE DEF c
<1>2. slot.state = "Private" => r # "acceptor"
  BY <1>1 DEF EInv, ReferenceInv
<1> QED BY <1>0, <1>1, <1>2, HandleTaken

\* The client's table refuses the initiator.
LEMMA UnpublishedKeeps == ASSUME EInv, NEW t \in Threads, InitiatorUnpublished(t), UNCHANGED ingressVars PROVE EInv'
<1> DEFINE c == [NoCall EXCEPT !.op = "owner", !.role = "initiator", !.key = slot.key]
<1>0. c \in Calls /\ c.role = "initiator" /\ c.key = slot.key /\ c.next = "idle" /\ c.requests = {}
  <2>1. slot.key \in 0..kServiceEndpointGenerationMaximum
    BY DEF EInv, StateTypes, EndpointTypeOK
  <2> QED BY <2>1, NoCallType DEF NoCall, Calls
<1>1. /\ pc[t] = "idle" /\ handle["initiator"] # "none" /\ handle' = [handle EXCEPT !["initiator"] = "none"]
      /\ UNCHANGED <<coreVars, slot, generation, refcount, fate, ingressVars>> /\ "initiator" \in Roles
      /\ Locals(t, c) /\ Goto(t, "deref")
  BY DEF InitiatorUnpublished, At, Roles
<1> HIDE DEF c
<1> QED BY <1>0, <1>1, HandleTaken

\* Locals with another continuation.
LEMMA CallNext ==
  ASSUME NEW d \in Calls, NEW n \in {"idle", "deref", "cancel", "owned"}
  PROVE  LET c == [d EXCEPT !.next = n] IN
         c \in Calls /\ c.next = n /\ c.role = d.role /\ c.key = d.key /\ c.requests = d.requests /\ c.op = d.op
BY DEF Calls

\* KObjectRelease: what it drops was counted, and the last one to drop destroys.
LEMMA DerefKeeps ==
  ASSUME EInv, NEW t \in Threads, pc[t] \in {"deref", "detach"}, NEW n \in {1, 2}, NEW next \in {"idle", "cancel"},
         Deref(t, n, next), UNCHANGED <<coreVars, slot, generation, fate, ingressVars>>,
         n = 1 => next = "idle" /\ handle' = handle,
         n = 2 => handle[call[t].role] = "open" /\ handle' = [handle EXCEPT ![call[t].role] = "none"]
  PROVE  EInv'
<1>0. PICK r \in Roles : call[t].role = r
  BY DEF EInv, CallsInv, Calls
<1>1. /\ refcount \in [Roles -> Nat] /\ handle \in [Roles -> {"none", "unpublished", "queued", "open"}] /\ call[t] \in Calls
      /\ call[t].next = "idle" /\ call[t].requests = {} /\ HoldsReference(t)
  BY DEF EInv, StateTypes, EndpointTypeOK, CallsInv, HoldsReference, Underway, Driving
<1>2. /\ refcount[r] > 0 /\ call[t].key = slot.key /\ (handle[r] # "none" => refcount[r] > 1)
      /\ Up /\ slot.endpoint_reference_live[r] /\ \A u \in Threads : pc[u] = "destroy" => call[u].role # r
  BY <1>0, <1>1, ReferenceFacts
<1>3. PICK p \in {"destroy", "idle", "cancel"}, c \in Calls :
        /\ Goto(t, p) /\ Locals(t, c) /\ c.requests = {} /\ (c.next = "idle" \/ (p = "destroy" /\ c.next = "cancel"))
        /\ p = "destroy" => refcount[r] = n /\ c.role = r /\ c.key = slot.key
  <2>1. CASE refcount[r] = n
    <3> DEFINE d == [call[t] EXCEPT !.next = next]
    <3>1. Goto(t, "destroy") /\ Locals(t, d)
      BY <1>0, <2>1 DEF Deref
    <3>2. d \in Calls /\ d.next = next /\ d.role = r /\ d.key = slot.key /\ d.requests = {}
      BY <1>0, <1>1, <1>2 DEF Calls
    <3> HIDE DEF d
    <3> QED BY <2>1, <3>1, <3>2
  <2>2. CASE refcount[r] # n /\ next = "idle"
    <3>1. Goto(t, "idle") /\ Locals(t, NoCall)
      BY <1>0, <2>2 DEF Deref, Return
    <3>2. NoCall.requests = {} /\ NoCall.next = "idle"
      BY DEF NoCall
    <3> QED BY <3>1, <3>2, NoCallType
  <2>3. CASE refcount[r] # n /\ next # "idle"
    <3>1. Goto(t, "cancel") /\ Locals(t, call[t])
      BY <1>0, <2>3, KeepsLocals DEF Deref
    <3> QED BY <1>1, <3>1
  <2> QED BY <2>1, <2>2, <2>3
<1>4. p \in Outside /\ pc[t] \in Outside /\ p \in Places
  BY DEF Outside, Places, PinnedPlaces, Driving
<1>5. Moves(t) /\ pc'[t] = p /\ call'[t] = c
  BY <1>3, <1>4, GotoLocals DEF EInv
<1>6. refcount' \in [Roles -> Nat] /\ \A q \in Roles : refcount'[q] = IF q = r THEN refcount[q] - n ELSE refcount[q]
  <2>1. refcount' = [refcount EXCEPT ![r] = refcount[r] - n]
    BY <1>0, <1>1 DEF Deref
  <2>2. refcount[r] - n \in Nat
    BY <1>0, <1>1, <1>2
  <2> QED BY <1>1, <2>1, <2>2
<1>7. /\ handle' \in [Roles -> {"none", "unpublished", "queued", "open"}]
      /\ \A q \in Roles : handle'[q] = IF q = r /\ n = 2 THEN "none" ELSE handle[q]
      /\ n = 2 => handle[r] = "open"
  BY <1>0, <1>1
<1>8. ReferenceInv'
  <2>1. ~HoldsReference(t)'
    BY <1>3, <1>5 DEF HoldsReference, PinnedPlaces, Underway, Driving
  <2>2. \A q \in Roles : t \notin Referents(q)' /\ (t \in Referents(q) <=> q = r)
    BY <1>0, <1>1, <2>1 DEF Referents
  <2>3. \A q \in Roles : refcount'[q] \in Nat /\
         refcount'[q] = refcount[q] + (IF t \in Referents(q)' THEN 1 ELSE 0) - (IF t \in Referents(q) THEN 1 ELSE 0)
                        + (IF handle'[q] = "none" THEN 0 ELSE 1) - (IF handle[q] = "none" THEN 0 ELSE 1)
    BY <1>1, <1>6, <1>7, <2>2
  <2>4. \A q \in Roles : refcount'[q] > 0 => Up' /\ slot'.endpoint_reference_live[q]
    BY <1>1, <1>2, <1>6 DEF EInv, ReferenceInv, Up
  <2>5. \A u \in Threads : u # t /\ pc[u] = "destroy" =>
           Up' /\ slot'.endpoint_reference_live[call[u].role] /\ refcount'[call[u].role] = 0
    <3>1. \A u \in Threads : call[u].role \in Roles
      BY DEF EInv, CallsInv, Calls
    <3> QED BY <1>2, <1>6, <3>1 DEF EInv, ReferenceInv, Up
  <2>6. slot'.state = "Private" => handle'["acceptor"] = "unpublished"
    BY <1>7 DEF EInv, ReferenceInv, Roles
  <2>7. pc'[t] = "destroy" =>
           /\ Up' /\ slot'.endpoint_reference_live[call'[t].role] /\ call'[t].key = slot.key
           /\ refcount'[call'[t].role] = 0
           /\ \A u \in Threads \ {t} : pc[u] = "destroy" => call[u].role # call'[t].role
    BY <1>2, <1>3, <1>5, <1>6 DEF Up
  <2>8. slot'.key = slot.key
    OBVIOUS
  <2> QED BY <1>5, <2>1, <2>3, <2>4, <2>5, <2>6, <2>7, <2>8, ReferenceStep
<1>9. ~WillLook(t)
  BY DEF WillLook, PinnedPlaces
<1> QED BY <1>3, <1>4, <1>6, <1>7, <1>8, <1>9, OutsideStep

\* The end of an operation.
LEMMA DropKeeps == ASSUME EInv, NEW t \in Threads, DropReference(t), UNCHANGED ingressVars PROVE EInv'
<1>1. /\ pc[t] = "deref" /\ Deref(t, 1, "idle") /\ handle' = handle /\ UNCHANGED <<coreVars, slot, generation, fate, ingressVars>>
  BY DEF DropReference, At
<1> QED BY <1>1, DerefKeeps

\* HandleTableDetach.
LEMMA DetachKeeps == ASSUME EInv, NEW t \in Threads, DetachHandle(t) PROVE EInv'
<1>1. /\ pc[t] = "detach" /\ UNCHANGED <<coreVars, slot, generation, fate, ingressVars>>
  BY DEF DetachHandle, At
<1>2. CASE handle[call[t].role] = "open"
  <2>1. handle' = [handle EXCEPT ![call[t].role] = "none"] /\ Deref(t, 2, "cancel")
    BY <1>2 DEF DetachHandle
  <2>2. PICK n \in {1, 2}, next \in {"idle", "cancel"} : n = 2 /\ next = "cancel"
    OBVIOUS
  <2>3. Deref(t, n, next) /\ n # 1
    BY <2>1, <2>2
  <2> QED BY <1>1, <1>2, <2>1, <2>3, DerefKeeps
<1>3. CASE handle[call[t].role] # "open"
  <2>1. handle' = handle /\ Deref(t, 1, "idle")
    BY <1>3 DEF DetachHandle
  <2> QED BY <1>1, <2>1, DerefKeeps
<1> QED BY <1>2, <1>3

\* A step outside that keeps the reference it has, or has none.
LEMMA OutsideMoves ==
  ASSUME EInv, NEW t \in Threads, NEW p \in Outside, NEW c \in Calls, pc[t] \in Outside, Goto(t, p), Locals(t, c),
         UNCHANGED <<coreVars, endpointVars, fate, ingressVars>>,
         p # "drive" => c.next = "idle", c.requests = {}, p # "accepted", p # "destroy",
         slot.state = "Draining" /\ WillLook(t) => c.key = call[t].key /\ p \in {"help", "drive"},
         c.next = "owned" \/ p = "owned" => Releases(t) /\ c.key = call[t].key /\ c.role = call[t].role /\ c.op = call[t].op,
         HoldsReference(t)' <=> HoldsReference(t),
         HoldsReference(t) => c.key = call[t].key /\ c.role = call[t].role
  PROVE  EInv'
<1>1. Moves(t) /\ pc'[t] = p /\ call'[t] = c
  BY GotoLocals DEF EInv, Outside
<1>2. ReferenceInv'
  BY <1>1, ReferencesKept DEF endpointVars, Up
<1>3. /\ handle' \in [Roles -> {"none", "unpublished", "queued", "open"}] /\ refcount' \in [Roles -> Nat]
      /\ UNCHANGED <<coreVars, slot, generation, fate, ingressVars>>
  BY DEF EInv, StateTypes, EndpointTypeOK, endpointVars
<1> QED BY <1>2, <1>3, OutsideStep

\* ServiceEndpointAcquireOperation under the owner's lock, or refused by the core.
LEMMA AcquireKeeps ==
  ASSUME EInv, NEW t \in Threads, pc[t] \in {"acquire", "pin"}, NEW p \in {"pin", "deref"}, Goto(t, p),
         UNCHANGED <<coreVars, endpointVars, fate, ingressVars, call>>
  PROVE  EInv'
<1>1. p \in Outside /\ pc[t] \in Outside /\ p \in Places
  BY DEF Outside, Places, PinnedPlaces, Driving
<1>2. Locals(t, call[t]) /\ call[t] \in Calls /\ call[t].next = "idle" /\ call[t].requests = {}
  BY KeepsLocals DEF EInv, CallsInv, Underway, Driving
<1>3. pc'[t] = p /\ call'[t] = call[t]
  BY <1>1, <1>2, GotoLocals DEF EInv
<1>4. HoldsReference(t)' /\ HoldsReference(t) /\ ~WillLook(t)
  BY <1>3 DEF HoldsReference, WillLook, PinnedPlaces
<1> QED BY <1>1, <1>2, <1>4, OutsideMoves

\* ServiceEndpointReleaseOperation's help to the drain: the slot is still there.
LEMMA HelpKeeps == ASSUME EInv, NEW t \in Threads, HelpDrain(t) PROVE EInv'
<1>1. pc[t] = "help" /\ UNCHANGED <<coreVars, endpointVars, fate, ingressVars>> /\ {"drive", "deref", "help"} \subseteq Outside
  BY DEF HelpDrain, At, OnlyMoves, Outside, Places, PinnedPlaces, Driving
<1>2. call[t] \in Calls /\ call[t].role \in Roles /\ call[t].next = "idle" /\ call[t].requests = {} /\ HoldsReference(t)
  BY <1>1 DEF EInv, CallsInv, Calls, HoldsReference, Underway, Driving
<1>3. ResolveExact(call[t].key)
  BY <1>2, ReferenceFacts DEF ResolveExact, Up
<1>4. CASE slot.state = "Draining"
  <2> DEFINE c == [call[t] EXCEPT !.next = "deref"]
  <2>1. Goto(t, "drive") /\ Locals(t, c)
    BY <1>3, <1>4 DEF HelpDrain
  <2>2. c \in Calls /\ c.next = "deref" /\ c.requests = {} /\ c.key = call[t].key /\ c.role = call[t].role
    BY <1>2, CallNext
  <2> HIDE DEF c
  <2>3. pc'[t] = "drive" /\ call'[t] = c
    BY <1>1, <2>1, <2>2, GotoLocals DEF EInv, Outside
  <2>4. HoldsReference(t)'
    BY <2>2, <2>3 DEF HoldsReference, Underway
  <2> QED BY <1>1, <1>2, <2>1, <2>2, <2>4, OutsideMoves
<1>5. CASE slot.state # "Draining"
  <2>1. Goto(t, "deref") /\ UNCHANGED call
    BY <1>3, <1>5 DEF HelpDrain
  <2>2. Locals(t, call[t])
    BY <2>1, KeepsLocals
  <2>3. pc'[t] = "deref" /\ call'[t] = call[t]
    BY <1>1, <1>2, <2>1, <2>2, GotoLocals DEF EInv, Outside
  <2>4. HoldsReference(t)'
    BY <2>3 DEF HoldsReference
  <2> QED BY <1>1, <1>2, <1>5, <2>1, <2>2, <2>4, OutsideMoves
<1> QED BY <1>4, <1>5

-----------------------------------------------------------------------------
(* The pin is taken and released *)

\* Only the pins of the core change, and a driver that finalizes still finds none.
LEMMA PinStep ==
  ASSUME EInv, CallsInv', NEW t \in Threads, Moves(t), HandsKept(t),
         NEW S \in SUBSET Threads, core' = [core EXCEPT !.pins = S], t \in S <=> pc'[t] \in PinnedPlaces,
         \A u \in Threads : u # t => (u \in S <=> u \in core.pins),
         UNCHANGED <<ledger, table, port, object, endpointVars, fate, ingressVars>>,
         core.state # "Open" => S \subseteq core.pins, core.state \in {"Open", "Draining"},
         pc[t] \notin Driving, pc'[t] \notin Driving, pc'[t] # "owned", pc'[t] # "destroy", call'[t].next = "idle",
         HoldsReference(t), HoldsReference(t)', call'[t].key = call[t].key, call'[t].role = call[t].role,
         WillLook(t) => WillLook(t)'
  PROVE  EInv'
<1>0. core \in [state: CoreStates, epoch: Nat, pins: SUBSET Threads, drain_driver_active: BOOLEAN,
               ports_close_notified: BOOLEAN, request_ledgers_drained: BOOLEAN, attached: BOOLEAN]
  BY DEF EInv, StateTypes, EndpointTypeOK, CoreTypeOK
<1>1. /\ core'.state = core.state /\ core'.epoch = core.epoch /\ core'.drain_driver_active = core.drain_driver_active
      /\ core'.ports_close_notified = core.ports_close_notified /\ core'.attached = core.attached
      /\ core'.request_ledgers_drained = core.request_ledgers_drained /\ core'.pins = S
      /\ core' \in [state: CoreStates, epoch: Nat, pins: SUBSET Threads, drain_driver_active: BOOLEAN,
               ports_close_notified: BOOLEAN, request_ledgers_drained: BOOLEAN, attached: BOOLEAN]
  BY <1>0
<1>2. UNCHANGED <<slot, generation, handle, refcount>>
  BY DEF endpointVars
<1>3. \A u \in Threads : u # t => pc'[u] = pc[u] /\ call'[u] = call[u]
  BY DEF Moves
<1>4. Up
  BY DEF EInv, SlotInv, NoCore
<1>5. StateTypes'
  BY <1>1, <1>2 DEF EInv, StateTypes, EndpointTypeOK, CoreTypeOK, ingressVars
<1>6. SlotInv'
  BY <1>1, <1>2, <1>4 DEF EInv, SlotInv, Up, Active
<1>7. CoreInv'
  <2>1. core.drain_driver_active => \E u \in Threads : pc'[u] \in {"close", "finish"}
    <3>1. {"close", "finish"} \subseteq Driving
      BY DEF Driving
    <3> QED BY <1>3, <3>1 DEF EInv, CoreInv
  <2>2. \A u \in Threads : u \in S <=> pc'[u] \in PinnedPlaces
    BY <1>3 DEF EInv, CoreInv
  <2> QED BY <1>1, <2>1, <2>2 DEF EInv, CoreInv, Active
<1>8. DriverInv'
  <2>1. \A u \in Threads : WillLook(u) => WillLook(u)'
    BY <1>2, <1>3 DEF WillLook
  <2>2. \A u \in Threads : pc'[u] \in Driving => u # t /\ pc[u] \in Driving /\ pc'[u] = pc[u] /\ call'[u] = call[u]
    BY <1>3
  <2>3. DrainSeen'
    BY <1>2, <2>1 DEF EInv, DriverInv, DrainSeen
  <2>4. core.pins = {} /\ core.state = "Draining" => core'.pins = {}
    BY <1>1
  <2>5. {"close", "finish", "drain", "cleanup", "settle"} \subseteq Driving
    BY DEF Driving
  <2> QED BY <1>1, <1>2, <1>3, <2>1, <2>2, <2>3, <2>4, <2>5 DEF EInv, DriverInv, Active
<1>9. OwnerInv'
  <2>1. ~Releases(t)'
    BY DEF Releases
  <2> QED BY <1>2, <2>1, OwnerKept DEF EInv
<1>10. ReferenceInv'
  BY <1>2, ReferencesKept DEF Up
<1>11. RequestInv' /\ HolderInv' /\ ReceiptInv' /\ ObjectInv'
  <2>1. (Active' => Active) /\ slot'.key = slot.key /\ Built' = Built /\ UNCHANGED dataVars
    BY <1>1, <1>2 DEF Active, Built, dataVars, ingressVars
  <2> QED BY <2>1, DataKept
<1> QED BY <1>5, <1>6, <1>7, <1>8, <1>9, <1>10, <1>11 DEF EInv

\* ServiceEndpointAcquireOperation under the core's lock.
LEMMA PinKeeps == ASSUME EInv, NEW t \in Threads, PinOperation(t) PROVE EInv'
<1>1. pc[t] = "pin" /\ UNCHANGED <<endpointVars, fate, ingressVars>> /\ call[t] \in Calls /\ call[t].next = "idle" /\ call[t].requests = {}
  BY DEF PinOperation, At, EInv, CallsInv, Underway, Driving
<1>2. CASE ~CanAcquire(call[t].key)
  <2>1. Goto(t, "deref") /\ UNCHANGED <<coreVars, endpointVars, fate, ingressVars, call>>
    BY <1>1, <1>2 DEF PinOperation
  <2> QED BY <1>1, <2>1, AcquireKeeps
<1>3. CASE CanAcquire(call[t].key)
  <2>1. PICK op \in {o \in mix : RoleOf(o) = call[t].role} :
            /\ ChannelCoreAcquireOperation(t)
            /\ Locals(t, [call[t] EXCEPT !.op = op])
            /\ Goto(t, IF op = "reply" THEN "claim" ELSE "borrow")
    BY <1>3 DEF PinOperation
  <2>2. op \in Operations /\ core.state = "Open" /\ UNCHANGED <<ledger, table, port, object>> /\ core' = [core EXCEPT !.pins = core.pins \cup {t}]
    BY <1>3, <2>1 DEF CanAcquire, ChannelCoreAcquireOperation, EInv, StateTypes
  <2> DEFINE c == [call[t] EXCEPT !.op = op]  p == IF op = "reply" THEN "claim" ELSE "borrow"
  <2>3. /\ c \in Calls /\ c.op = op /\ c.next = "idle" /\ c.requests = {} /\ c.key = call[t].key /\ c.role = call[t].role
        /\ p \in {"claim", "borrow"} /\ (p = "claim" => op = "reply") /\ (p = "borrow" => op # "reply")
    BY <1>1, <2>2 DEF Calls
  <2>4. Goto(t, p) /\ Locals(t, c)
    BY <2>1
  <2> HIDE DEF c, p
  <2>5. p \in PinnedPlaces /\ p \in Places /\ p \notin Driving /\ p \notin Underway /\ "pin" \notin Driving /\ "pin" \notin PinnedPlaces
    BY <2>3 DEF PinnedPlaces, Places, Driving, Underway
  <2>6. /\ Moves(t) /\ pc'[t] = p /\ call'[t] = c
        /\ pc' \in [Threads -> Places] /\ call' \in [Threads -> Calls]
    BY <2>3, <2>4, <2>5, GotoLocals DEF EInv
  <2>7. CallsInv'
    BY <2>2, <2>3, <2>5, <2>6, CallsKept DEF EInv
  <2>8. HandsKept(t)
    BY <1>1, <2>3, <2>6 DEF HandsKept, Offers, Answers, Replying, HasToken, Claimant, Imports, Carriers
  <2>9. HoldsReference(t) /\ HoldsReference(t)' /\ ~WillLook(t)
    BY <1>1, <2>5, <2>6 DEF HoldsReference, WillLook
  <2>10. core.pins \cup {t} \in SUBSET Threads
    BY DEF EInv, StateTypes, EndpointTypeOK, CoreTypeOK
  <2> QED BY <1>1, <2>2, <2>3, <2>5, <2>6, <2>7, <2>8, <2>9, <2>10, PinStep
<1> QED BY <1>2, <1>3

\* ServiceEndpointReleaseOperation: the thread is still bound to look at the drain.
LEMMA ReleasePinKeeps == ASSUME EInv, NEW t \in Threads, ReleasePin(t) PROVE EInv'
<1> DEFINE c == [NoCall EXCEPT !.role = call[t].role, !.key = call[t].key]
<1>1. /\ pc[t] = "release" /\ UNCHANGED <<endpointVars, fate, ingressVars>> /\ call[t] \in Calls
      /\ UNCHANGED <<ledger, table, port, object>> /\ core' = [core EXCEPT !.pins = core.pins \ {t}]
      /\ Goto(t, "help") /\ Locals(t, c)
  BY DEF ReleasePin, ChannelCoreReleaseOperation, At, EInv, CallsInv
<1>2. c \in Calls /\ c.next = "idle" /\ c.requests = {} /\ c.key = call[t].key /\ c.role = call[t].role
  <2>1. call[t].role \in Roles /\ call[t].key \in 0..kServiceEndpointGenerationMaximum
    BY <1>1 DEF Calls
  <2> QED BY <2>1, NoCallType DEF Calls, NoCall
<1> HIDE DEF c
<1>3. /\ "help" \in Outside /\ "help" \in Places /\ "help" \notin Driving \cup Underway /\ "help" \notin PinnedPlaces
      /\ "release" \in PinnedPlaces /\ "release" \notin Driving
  BY DEF Outside, Places, PinnedPlaces, Driving, Underway
<1>4. /\ Moves(t) /\ pc'[t] = "help" /\ call'[t] = c
      /\ pc' \in [Threads -> Places] /\ call' \in [Threads -> Calls]
  BY <1>1, <1>2, <1>3, GotoLocals DEF EInv
<1>5. CallsInv'
  BY <1>2, <1>3, <1>4, CallsKept DEF EInv
<1>6. HandsKept(t)
  BY <1>1, <1>3, <1>4, <1>5, OutsideKept DEF EInv
<1>7. HoldsReference(t) /\ HoldsReference(t)' /\ (WillLook(t) => WillLook(t)')
  BY <1>1, <1>2, <1>3, <1>4 DEF HoldsReference, WillLook, endpointVars
<1>8. core.state \in {"Open", "Draining"}
  BY <1>1, <1>3, PinFacts DEF EInv, Active
<1>9. core.pins \ {t} \in SUBSET Threads
  BY DEF EInv, StateTypes, EndpointTypeOK, CoreTypeOK
<1> QED BY <1>1, <1>2, <1>3, <1>4, <1>5, <1>6, <1>7, <1>8, <1>9, PinStep

\* Every step between a lookup and the drop of its reference, but for the work under the pin.
LEMMA AcquiresKeep == ASSUME EInv, NEW t \in Threads, Acquires(t) PROVE EInv'
<1>1. CASE AcquireOperation(t)
  <2>1. PICK p \in {"pin", "deref"} : Goto(t, p)
    BY <1>1 DEF AcquireOperation
  <2>2. pc[t] \in {"acquire", "pin"} /\ UNCHANGED <<coreVars, endpointVars, fate, ingressVars, call>>
    BY <1>1 DEF AcquireOperation, At, OnlyMoves
  <2> QED BY <2>1, <2>2, AcquireKeeps
<1> QED BY <1>1, PinKeeps, BorrowKeeps, ReleasePinKeeps, HelpKeeps DEF Acquires

-----------------------------------------------------------------------------
(* Steps that change the slot *)

Slots == [state: SlotStatesOf, key: 0..kServiceEndpointGenerationMaximum,
          endpoint_reference_live: [Roles -> BOOLEAN], outer_owner_live: BOOLEAN,
          drain_driver_active: BOOLEAN, drain_retry_requested: BOOLEAN, detached_cleanup: BOOLEAN]

\* A step outside the pin that changes the slot, not the core.
LEMMA SlotStep ==
  ASSUME EInv, NEW t \in Threads, Moves(t), CallsInv', pc[t] \in Outside, pc'[t] \in Outside,
         UNCHANGED <<coreVars, generation, fate, ingressVars>>, slot' \in Slots, slot'.key = slot.key, Up, Up',
         handle' \in [Roles -> {"none", "unpublished", "queued", "open"}], refcount' \in [Roles -> Nat],
         SlotInv', DriverInv', OwnerInv', ReferenceInv'
  PROVE  EInv'
<1>1. StateTypes'
  BY DEF EInv, StateTypes, EndpointTypeOK, CoreTypeOK, coreVars, ingressVars, Slots
<1>2. pc[t] \notin PinnedPlaces \cup {"close", "finish"} /\ pc'[t] \notin PinnedPlaces
  BY DEF Outside, Driving
<1>3. CoreInv'
  BY <1>2 DEF EInv, CoreInv, Active, Moves, coreVars
<1>4. HandsKept(t)
  BY OutsideKept DEF EInv
<1>5. RequestInv' /\ HolderInv' /\ ReceiptInv' /\ ObjectInv'
  <2>1. (Active' => Active) /\ slot'.key = slot.key /\ Built' = Built /\ UNCHANGED dataVars
    BY DEF Active, Built, dataVars, coreVars, ingressVars, Up
  <2> QED BY <1>4, <2>1, DataKept
<1> QED BY <1>1, <1>3, <1>5 DEF EInv

\* A channel that is closed has the closer on its way to the drain.
LEMMA ClosingSlot ==
  ASSUME EInv, NEW t \in Threads, Moves(t), UNCHANGED <<coreVars, generation>>,
         pc[t] \notin PinnedPlaces \cup Driving \cup {"help", "drive"}, pc'[t] = "drive", call'[t].key = slot.key,
         slot.state \in {"Private", "Open", "Draining"}, slot'.state = "Draining", slot'.key = slot.key,
         slot'.outer_owner_live = slot.outer_owner_live, slot'.drain_driver_active = slot.drain_driver_active,
         slot'.drain_retry_requested = slot.drain_retry_requested, slot'.detached_cleanup = slot.detached_cleanup
  PROVE  SlotInv' /\ DriverInv'
<1>0. {"close", "finish", "drain", "cleanup", "settle"} \subseteq Driving /\ "drive" \notin Driving /\ UNCHANGED <<core, ledger, table>>
  BY DEF Driving, coreVars
<1>1. \A u \in Threads : u # t => pc'[u] = pc[u] /\ call'[u] = call[u]
  BY DEF Moves
<1>2. SlotInv'
  BY <1>0 DEF EInv, SlotInv, Up, Active
<1>3. \A u \in Threads : WillLook(u) => WillLook(u)'
  BY <1>1 DEF WillLook
<1>4. WillLook(t)'
  BY DEF WillLook
<1>5. \A u \in Threads : pc'[u] \in Driving => u # t /\ pc[u] \in Driving /\ pc'[u] = pc[u] /\ call'[u] = call[u]
  BY <1>0, <1>1
<1>6. DrainSeen'
  BY <1>4 DEF DrainSeen
<1>7. DriverInv'
  BY <1>0, <1>1, <1>3, <1>5, <1>6 DEF EInv, DriverInv, Active
<1> QED BY <1>2, <1>7

\* What Closing does to a channel.
LEMMA ClosingFacts ==
  ASSUME NEW s \in Slots, s.state \in {"Private", "Open", "Draining", "Drained"}
  PROVE  /\ Closing(s) \in Slots /\ Closing(s).key = s.key /\ Closing(s).outer_owner_live = s.outer_owner_live
         /\ Closing(s).endpoint_reference_live = s.endpoint_reference_live
         /\ Closing(s).drain_driver_active = s.drain_driver_active /\ Closing(s).detached_cleanup = s.detached_cleanup
         /\ Closing(s).drain_retry_requested = s.drain_retry_requested
         /\ Closing(s).state = IF s.state = "Drained" THEN "Drained" ELSE "Draining"
         /\ s.state \in {"Draining", "Drained"} => Closing(s) = s
BY DEF Closing, Slots, SlotStatesOf

\* ServiceEndpointReleaseOwner's first hold: the one that begins to release goes to the drain.
LEMMA OwnerMarkKeeps ==
  ASSUME EInv, NEW t \in Threads, pc[t] \in {"idle", "accepted"}, slot.outer_owner_live, ~Releasing,
         NEW c \in Calls, Locals(t, c), Goto(t, "drive"), slot' = Closing(slot),
         c.key = slot.key, c.next = "owned", c.requests = {}, c.role = "acceptor",
         c.op = IF pc[t] = "idle" THEN "owner" ELSE "close",
         UNCHANGED <<coreVars, generation, handle, refcount, fate, ingressVars>>
  PROVE  EInv'
<1>0. /\ slot \in Slots /\ Up /\ refcount' \in [Roles -> Nat] /\ handle' \in [Roles -> {"none", "unpublished", "queued", "open"}]
      /\ {"drive", "idle", "accepted"} \subseteq Outside /\ {"drive", "idle", "accepted"} \subseteq Places /\ "drive" \in Underway
      /\ pc[t] \notin PinnedPlaces \cup Driving \cup {"help", "drive"}
  BY DEF EInv, StateTypes, EndpointTypeOK, SlotInv, Slots, Outside, Places, PinnedPlaces, Driving, Underway
<1>1. /\ slot' \in Slots /\ slot'.key = slot.key /\ slot'.outer_owner_live = slot.outer_owner_live
      /\ slot'.endpoint_reference_live = slot.endpoint_reference_live
      /\ slot'.drain_driver_active = slot.drain_driver_active /\ slot'.detached_cleanup = slot.detached_cleanup
      /\ slot'.drain_retry_requested = slot.drain_retry_requested
      /\ slot'.state = (IF slot.state = "Drained" THEN "Drained" ELSE "Draining")
      /\ slot.state \in {"Draining", "Drained"} => slot' = slot
  BY <1>0, ClosingFacts DEF Up
<1>2. /\ Moves(t) /\ pc'[t] = "drive" /\ call'[t] = c
      /\ pc' \in [Threads -> Places] /\ call' \in [Threads -> Calls]
  BY <1>0, GotoLocals DEF EInv
<1>3. CallsInv'
  BY <1>0, <1>2, CallsKept DEF EInv
<1>4. SlotInv' /\ DriverInv'
  <2>1. CASE slot.state # "Drained"
    BY <1>0, <1>1, <1>2, <2>1, ClosingSlot DEF Up
  <2>2. CASE slot.state = "Drained"
    BY <1>0, <1>1, <1>2, <2>2, OutsideSlot DEF coreVars
  <2> QED BY <2>1, <2>2
<1>5. OwnerInv'
  <2>1. \A u \in Threads : u # t => ~Releases(u)'
    BY <1>2 DEF Releasing, Releases, Moves
  <2> QED BY <1>0, <1>1, <1>2, <2>1 DEF OwnerInv
<1>6. ReferenceInv'
  <2>1. HoldsReference(t)' <=> c.op = "close"
    BY <1>2 DEF HoldsReference, PinnedPlaces, Underway
  <2>2. HoldsReference(t) <=> pc[t] = "accepted"
    BY DEF HoldsReference, PinnedPlaces, Underway, Driving
  <2>3. HoldsReference(t) => call'[t].key = call[t].key /\ call'[t].role = call[t].role
    BY <1>2, <2>2 DEF EInv, CallsInv, ReferenceInv
  <2>4. Up' /\ pc'[t] # "destroy" /\ slot'.state # "Private"
    BY <1>1, <1>2 DEF Up
  <2> QED BY <1>1, <1>2, <2>1, <2>2, <2>3, <2>4, ReferencesKept
<1>7. Up'
  BY <1>1 DEF Up
<1> QED BY <1>0, <1>1, <1>2, <1>3, <1>4, <1>5, <1>6, <1>7, SlotStep

\* The owner's hold on a drained channel goes.
LEMMA LetGoSlot ==
  ASSUME EInv, NEW t \in Threads, Moves(t), UNCHANGED <<coreVars, generation>>, pc[t] = "owned", OwnerLetsGo(t),
         pc'[t] \in Outside, slot' = [slot EXCEPT !.outer_owner_live = FALSE], call'[t].next = "idle", pc'[t] # "owned"
  PROVE  /\ slot' \in Slots /\ slot'.key = slot.key /\ slot'.state = "Drained" /\ slot.state = "Drained"
         /\ slot'.endpoint_reference_live = slot.endpoint_reference_live
         /\ SlotInv' /\ DriverInv' /\ OwnerInv'
<1>0. slot \in Slots /\ UNCHANGED <<core, ledger, table>> /\ pc'[t] \notin Driving
  BY DEF EInv, StateTypes, EndpointTypeOK, Slots, coreVars, Outside
<1>1. /\ slot' \in Slots /\ slot'.key = slot.key /\ ~slot'.outer_owner_live /\ slot'.state = "Drained" /\ slot.state = "Drained"
      /\ slot'.endpoint_reference_live = slot.endpoint_reference_live
      /\ ~slot'.drain_driver_active /\ ~slot'.drain_retry_requested /\ ~slot'.detached_cleanup /\ ~slot.drain_driver_active
  BY <1>0 DEF OwnerLetsGo, Slots
<1>2. SlotInv'
  BY <1>0, <1>1 DEF EInv, SlotInv, Up, Active
<1>3. \A u \in Threads : pc[u] \notin Driving
  BY <1>1 DEF EInv, DriverInv
<1>4. \A u \in Threads : pc'[u] \notin Driving
  BY <1>0, <1>3 DEF Moves
<1>5. DriverInv'
  <2>1. {"close", "finish", "drain", "cleanup", "settle"} \subseteq Driving
    BY DEF Driving
  <2> QED BY <1>1, <1>4, <2>1 DEF DriverInv, DrainSeen
<1>6. OwnerInv'
  <2>1. \A u \in Threads : ~Releases(u)'
    BY DEF EInv, OwnerInv, Releases, Moves
  <2> QED BY <2>1 DEF OwnerInv
<1> QED BY <1>1, <1>2, <1>5, <1>6

\* ServiceDirectoryReleaseAcceptedHandle begins.
LEMMA ReleaseAcceptedKeeps == ASSUME EInv, NEW t \in Threads, ReleaseAccepted(t) PROVE EInv'
<1>1. /\ pc[t] = "accepted" /\ UNCHANGED <<coreVars, generation, handle, refcount, fate, ingressVars>>
      /\ {"accepted", "detach", "deref"} \subseteq Outside
  BY DEF ReleaseAccepted, At, Outside, Places, PinnedPlaces, Driving
<1>2. /\ call[t] \in Calls /\ call[t].next = "idle" /\ call[t].requests = {} /\ HoldsReference(t)
      /\ call[t].op = "close" /\ call[t].role = "acceptor" /\ slot.key \in 0..kServiceEndpointGenerationMaximum
  BY <1>1 DEF EInv, CallsInv, HoldsReference, Underway, Driving, StateTypes, EndpointTypeOK
<1>3. CASE ~slot.outer_owner_live \/ Releasing
  <2>1. UNCHANGED <<slot, call>>
    BY <1>3 DEF ReleaseAccepted
  <2>2. PICK p \in {"detach", "deref"} : Goto(t, p)
    BY <1>3 DEF ReleaseAccepted
  <2>3. Locals(t, call[t]) /\ UNCHANGED <<coreVars, endpointVars, fate, ingressVars>>
    BY <1>1, <2>1, KeepsLocals DEF endpointVars
  <2>4. pc'[t] = p
    BY <1>1, <1>2, <2>2, <2>3, GotoLocals DEF EInv, Outside
  <2>5. HoldsReference(t)' /\ ~WillLook(t) /\ p \in Outside
    BY <1>1, <2>4 DEF HoldsReference, WillLook, PinnedPlaces
  <2> QED BY <1>1, <1>2, <2>2, <2>3, <2>5, OutsideMoves
<1>4. CASE slot.outer_owner_live /\ ~Releasing
  <2> DEFINE c == [call[t] EXCEPT !.key = slot.key, !.next = "owned"]
  <2>1. Goto(t, "drive") /\ Locals(t, c) /\ slot' = Closing(slot)
    BY <1>4 DEF ReleaseAccepted, OwnerMark
  <2>2. c \in Calls /\ c.key = slot.key /\ c.next = "owned" /\ c.requests = {} /\ c.role = "acceptor" /\ c.op = "close"
    BY <1>2 DEF Calls
  <2> HIDE DEF c
  <2> QED BY <1>1, <1>4, <2>1, <2>2, OwnerMarkKeeps
<1> QED BY <1>3, <1>4

\* ServiceDirectoryReleaseAcceptedHandle ends: the handle's own reference keeps the slot.
LEMMA AcceptedReleasedKeeps == ASSUME EInv, NEW t \in Threads, AcceptedReleased(t) PROVE EInv'
<1> DEFINE c == [call[t] EXCEPT !.result = "Ok"]
<1>1. /\ pc[t] = "owned" /\ call[t].op = "close" /\ ReleaseOwnerEnds(t) /\ Locals(t, c)
      /\ UNCHANGED <<generation, handle, refcount, fate, ingressVars>>
      /\ {"owned", "detach", "deref"} \subseteq Outside /\ {"owned", "detach", "deref"} \subseteq Places
  BY DEF AcceptedReleased, At, Outside, Places, PinnedPlaces, Driving
<1>2. /\ call[t] \in Calls /\ call[t].next = "idle" /\ call[t].requests = {} /\ HoldsReference(t) /\ Releases(t)
      /\ slot \in Slots /\ handle \in [Roles -> {"none", "unpublished", "queued", "open"}] /\ refcount \in [Roles -> Nat]
  BY <1>1 DEF EInv, CallsInv, HoldsReference, Underway, Driving, StateTypes, EndpointTypeOK, Releases, Slots
<1>3. c \in Calls /\ c.next = "idle" /\ c.requests = {} /\ c.role = call[t].role /\ c.key = call[t].key
  BY <1>2 DEF Calls
<1> HIDE DEF c
<1>4. PICK p \in {"detach", "deref"} : Goto(t, p)
  BY DEF AcceptedReleased
<1>5. p \in Places /\ p \in Outside
  BY <1>1
<1>6. /\ Moves(t) /\ pc'[t] = p /\ call'[t] = c
      /\ pc' \in [Threads -> Places] /\ call' \in [Threads -> Calls]
  BY <1>1, <1>3, <1>4, <1>5, GotoLocals DEF EInv
<1>7. HoldsReference(t)' /\ ~WillLook(t) /\ p # "owned" /\ p # "accepted" /\ p # "destroy" /\ p # "drive"
  BY <1>1, <1>4, <1>6 DEF HoldsReference, WillLook, PinnedPlaces
<1>8. CASE ~OwnerLetsGo(t)
  <2>1. UNCHANGED <<coreVars, endpointVars, fate, ingressVars>>
    BY <1>1, <1>8 DEF ReleaseOwnerEnds, endpointVars
  <2> QED BY <1>1, <1>2, <1>3, <1>4, <1>5, <1>7, <2>1, OutsideMoves
<1>9. CASE OwnerLetsGo(t)
  <2>1. "acceptor" \in Roles /\ call[t].role = "acceptor"
    BY <1>2 DEF EInv, OwnerInv, Roles
  <2>2. slot.endpoint_reference_live["acceptor"]
    BY <1>2, <2>1, ReferenceFacts
  <2> DEFINE s == [slot EXCEPT !.outer_owner_live = FALSE]
  <2>3. ~Recyclable(s)
    BY <1>2, <2>1, <2>2 DEF Recyclable, Slots
  <2>4. slot' = s /\ UNCHANGED coreVars
    BY <1>1, <1>9, <2>3 DEF ReleaseOwnerEnds, SetSlot
  <2>5. /\ slot' \in Slots /\ slot'.key = slot.key /\ slot'.state = "Drained" /\ slot.state = "Drained"
        /\ slot'.endpoint_reference_live = slot.endpoint_reference_live
        /\ SlotInv' /\ DriverInv' /\ OwnerInv'
    BY <1>1, <1>3, <1>5, <1>6, <1>7, <1>9, <2>4, LetGoSlot
  <2>6. CallsInv'
    <3>1. p \notin Underway \cup {"destroy", "borrow", "claim", "publish_handle", "accepted"}
      BY <1>4 DEF Underway, Driving
    <3> QED BY <1>3, <1>6, <3>1, CallsKept DEF EInv
  <2>7. Up /\ Up'
    BY <2>5 DEF Up
  <2>8. ReferenceInv'
    BY <1>1, <1>2, <1>3, <1>6, <1>7, <2>5, <2>7, ReferencesKept
  <2> QED BY <1>1, <1>2, <1>5, <1>6, <2>4, <2>5, <2>6, <2>7, <2>8, SlotStep
<1> QED BY <1>8, <1>9

\* A step of no thread that leaves the slot, the core and the endpoints alone.
LEMMA StillSlot ==
  ASSUME EInv, UNCHANGED <<core, ledger, table, endpointVars, pc, call>>
  PROVE  CallsInv' /\ SlotInv' /\ CoreInv' /\ DriverInv' /\ OwnerInv' /\ ReferenceInv'
<1>1. UNCHANGED <<core, ledger, table, slot, generation, handle, refcount, pc, call>>
  BY DEF endpointVars
<1>2. CallsInv' /\ SlotInv'
  BY <1>1 DEF EInv, CallsInv, SlotInv, Up, Active
<1>3. CoreInv'
  BY <1>1 DEF EInv, CoreInv, Active
<1>4. DriverInv'
  BY <1>1 DEF EInv, DriverInv, DrainSeen, WillLook, Active
<1>5. OwnerInv'
  BY <1>1 DEF EInv, OwnerInv, Releases
<1>6. ReferenceInv'
  <2>1. \A r \in Roles : Referents(r)' = Referents(r)
    BY <1>1 DEF Referents, HoldsReference
  <2> QED BY <1>1, <2>1 DEF EInv, ReferenceInv, HoldsReference, Up
<1> QED BY <1>2, <1>3, <1>4, <1>5, <1>6

\* The receipts of a channel, or all, are cleared: a reply under way finds its row gone.
LEMMA ReceiptsCleared ==
  ASSUME EInv, NEW K, ClearsReceipts(K), UNCHANGED <<coreVars, endpointVars>>,
         \A u \in Threads : \/ pc'[u] = pc[u] /\ call'[u] = call[u]
                            \/ ~Offers(u)' /\ ~Answers(u)' /\ ~HasToken(u)' /\ ~Claimant(u)'
  PROVE  receipt' \in [Receipts -> ReceiptRows] /\ HolderInv' /\ ReceiptInv'
<1>0. receipt \in [Receipts -> ReceiptRows] /\ UNCHANGED <<slot, generation, ledger, port, core>>
  BY TypeParts DEF EInv, endpointVars, coreVars
<1>1. \A r \in Receipts : receipt'[r] = IF receipt[r].key \in K THEN ClearedReceipt(receipt[r]) ELSE receipt[r]
  BY DEF ClearsReceipts
<1>2. \A r \in Receipts : \/ receipt'[r] = receipt[r]
                          \/ /\ receipt'[r] \in ReceiptRows /\ receipt'[r].generation = receipt[r].generation
                             /\ receipt'[r].key = 0 /\ receipt'[r].state \in {"Free", "Retired"}
                             /\ receipt'[r].state = "Free" => receipt[r].generation < kServiceEndpointIngressReceiptGenerationMaximum
  BY <1>0, <1>1, ClearedRow
<1>3. receipt' \in [Receipts -> ReceiptRows]
  BY <1>0, <1>2 DEF ClearsReceipts
<1>4. \A r \in Receipts : Owed(r)' => Owed(r) /\ receipt'[r].id = receipt[r].id
  BY <1>0, <1>2 DEF Owed
<1>5. \A u \in Threads : /\ Offers(u)' => Offers(u) /\ call'[u] = call[u]
                         /\ Answers(u)' => Answers(u) /\ call'[u] = call[u]
                         /\ HasToken(u)' => HasToken(u) /\ call'[u] = call[u]
                         /\ Claimant(u)' => Claimant(u) /\ call'[u] = call[u]
  BY DEF Offers, Answers, Replying, HasToken, Claimant
<1>6. HolderInv'
  <2>1. QueueInv' /\ OwedInv'
    BY <1>0, <1>4 DEF EInv, HolderInv, QueueInv, OwedInv, Active
  <2>2. OfferInv' /\ AnswerInv'
    BY <1>0, <1>4, <1>5 DEF EInv, HolderInv, OfferInv, AnswerInv
  <2> QED BY <2>1, <2>2 DEF HolderInv
<1>7. ReceiptInv'
  <2>1. \A r \in Receipts : RowInv(r)'
    BY <1>0, <1>2 DEF EInv, ReceiptInv, RowInv, Built
  <2>2. ASSUME NEW u \in Threads, Claimant(u)' PROVE ClaimInv(u)'
    <3>1. Claimant(u) /\ call'[u] = call[u]
      BY <1>5, <2>2
    <3>2. call[u].token[1] \in Receipts
      BY <3>1, TokenFacts DEF EInv, HasToken
    <3> QED BY <1>2, <3>1, <3>2 DEF EInv, ReceiptInv, ClaimInv
  <2> QED BY <1>5, <2>1, <2>2 DEF EInv, ReceiptInv
<1> QED BY <1>3, <1>6, <1>7

\* ServiceEndpointIngressCancelProcess.
LEMMA CancelProcessKeeps == ASSUME EInv, ServiceEndpointIngressCancelProcess PROVE EInv'
<1>1. /\ ClearsReceipts(1..kServiceEndpointGenerationMaximum) /\ UNCHANGED <<source, destination, mix>>
      /\ UNCHANGED <<coreVars, endpointVars, fate, pc, call>>
  BY DEF ServiceEndpointIngressCancelProcess, ClearsReceipts
<1>2. receipt' \in [Receipts -> ReceiptRows] /\ HolderInv' /\ ReceiptInv'
  BY <1>1, ReceiptsCleared
<1>3. CallsInv' /\ SlotInv' /\ CoreInv' /\ DriverInv' /\ OwnerInv' /\ ReferenceInv'
  BY <1>1, StillSlot DEF coreVars
<1>4. StateTypes'
  BY <1>1, <1>2, TypeParts, DataTypes DEF EInv, coreVars
<1>5. RequestInv'
  BY <1>1 DEF EInv, RequestInv, coreVars
<1>6. ObjectInv'
  BY <1>1 DEF EInv, ObjectInv, PinsInv, RowsInv, ImportInv, CountInv, Imports, Importers, Carriers, coreVars
<1> QED BY <1>2, <1>3, <1>4, <1>5, <1>6 DEF EInv

\* CancelEndpointState, after the last handle of a channel was closed.
LEMMA CancelStateKeeps == ASSUME EInv, NEW t \in Threads, CancelEndpointState(t) PROVE EInv'
<1>1. /\ pc[t] = "cancel" /\ Goto(t, "idle") /\ Locals(t, NoCall) /\ UNCHANGED <<coreVars, endpointVars, fate>>
      /\ {"idle", "cancel"} \subseteq Outside /\ NoCall \in Calls /\ NoCall.next = "idle" /\ NoCall.requests = {}
  <2>1. NoCall.next = "idle" /\ NoCall.requests = {}
    BY DEF NoCall
  <2>2. {"idle", "cancel"} \subseteq Outside
    BY DEF Outside, Places, PinnedPlaces, Driving
  <2> QED BY <2>1, <2>2, NoCallType DEF CancelEndpointState, At, Return
<1>2. /\ Moves(t) /\ pc'[t] = "idle" /\ call'[t] = NoCall
      /\ pc' \in [Threads -> Places] /\ call' \in [Threads -> Calls]
  BY <1>1, GotoLocals DEF EInv, Outside
<1>3. ~HoldsReference(t) /\ ~HoldsReference(t)' /\ ~WillLook(t) /\ ~Releases(t)'
  BY <1>1, <1>2 DEF HoldsReference, WillLook, Releases, PinnedPlaces, Underway, Driving, NoCall
<1>4. CASE UNCHANGED ingressVars
  BY <1>1, <1>3, <1>4, OutsideMoves
<1>5. CASE ClearsReceipts({call[t].key})
  <2>1. CallsInv'
    BY <1>1, <1>2, CallsKept DEF EInv
  <2>2. HandsKept(t)
    BY <1>1, <1>2, <2>1, OutsideKept DEF EInv
  <2>3. ~Offers(t)' /\ ~Answers(t)' /\ ~HasToken(t)' /\ ~Claimant(t)'
    BY <1>2 DEF Offers, Answers, Replying, HasToken, Claimant
  <2>4. \A u \in Threads : \/ pc'[u] = pc[u] /\ call'[u] = call[u]
                           \/ ~Offers(u)' /\ ~Answers(u)' /\ ~HasToken(u)' /\ ~Claimant(u)'
    BY <1>2, <2>3 DEF Moves
  <2>5. receipt' \in [Receipts -> ReceiptRows] /\ HolderInv' /\ ReceiptInv'
    BY <1>1, <1>5, <2>4, ReceiptsCleared
  <2>6. UNCHANGED <<core, ledger, table, port, object, slot, generation, handle, refcount, source, destination, mix>>
    BY <1>1, <1>5 DEF ClearsReceipts, coreVars, endpointVars
  <2>7. SlotInv' /\ CoreInv' /\ DriverInv'
    BY <1>1, <1>2, <1>3, <2>6, OutsideSlot
  <2>8. OwnerInv'
    BY <1>2, <1>3, <2>6, OwnerKept DEF EInv
  <2>9. ReferenceInv'
    BY <1>2, <1>3, <2>6, ReferencesKept DEF Up
  <2>10. RequestInv'
    BY <1>1, <1>2, <2>2, <2>6, RequestsKept DEF EInv, HandsKept
  <2>11. ObjectInv'
    BY <1>2, <2>2, <2>6, ObjectKept DEF EInv, HandsKept
  <2>12. StateTypes'
    BY <1>1, <2>5, <2>6, TypeParts, DataTypes DEF EInv
  <2> QED BY <2>1, <2>5, <2>7, <2>8, <2>9, <2>10, <2>11, <2>12 DEF EInv
<1> QED BY <1>4, <1>5 DEF CancelEndpointState

\* Every step of a close.
LEMMA ClosesKeep == ASSUME EInv, NEW t \in Threads, Closes(t) PROVE EInv'
BY ReleaseAcceptedKeeps, AcceptedReleasedKeeps, DetachKeeps, CancelStateKeeps DEF Closes

-----------------------------------------------------------------------------
(* The end of a drain *)

\* A call goes on after its part in a drain, with the references and the owner's hold it had.
LEMMA ContinueFacts ==
  ASSUME EInv, NEW t \in Threads, pc[t] \in Underway \cup {"destroy"},
         NEW result \in {"Ok", "Busy", "StaleIdentity", "ResourceReleaseFailed", "RetainFailed"}, Continue(t, result)
  PROVE  /\ Moves(t) /\ CallsInv' /\ pc'[t] \in Outside /\ pc'[t] \notin {"help", "drive", "destroy"}
         /\ call'[t].next = "idle" /\ call'[t].requests = {}
         /\ HoldsReference(t)' <=> HoldsReference(t)
         /\ HoldsReference(t) => call'[t].key = call[t].key /\ call'[t].role = call[t].role
         /\ Releases(t)' => Releases(t) /\ call'[t].key = call[t].key /\ call'[t].role = call[t].role /\ call'[t].op = call[t].op
         /\ ~WillLook(t)'
         /\ pc[t] = "destroy" => pc'[t] \in {"idle", "cancel"}
<1>0. call[t] \in Calls /\ call[t].next \in {"idle", "deref", "cancel", "owned"}
      /\ (pc[t] = "destroy" => call[t].next \in {"idle", "cancel"})
  BY DEF EInv, CallsInv, Calls
<1> DEFINE p == call[t].next
           c == IF p = "idle" THEN NoCall
                ELSE [NoCall EXCEPT !.op = call[t].op, !.role = call[t].role, !.key = call[t].key,
                                   !.result = IF call[t].next = "owned" THEN result ELSE "Ok"]
<1>1. Goto(t, p) /\ Locals(t, c)
  BY DEF Continue, Return
<1>2. /\ c \in Calls /\ c.next = "idle" /\ c.requests = {}
      /\ p # "idle" => c.op = call[t].op /\ c.role = call[t].role /\ c.key = call[t].key
  <2>1. /\ call[t].op \in Operations \cup {"none", "close", "drain", "owner"} /\ call[t].role \in Roles
        /\ call[t].key \in 0..kServiceEndpointGenerationMaximum
    BY <1>0 DEF Calls
  <2> DEFINE e == IF call[t].next = "owned" THEN result ELSE "Ok"
             d == [NoCall EXCEPT !.op = call[t].op, !.role = call[t].role, !.key = call[t].key, !.result = e]
  <2>2. e \in {"Ok", "Busy", "StaleIdentity", "ResourceReleaseFailed", "RetainFailed"}
    OBVIOUS
  <2> HIDE DEF e
  <2>3. /\ d \in Calls /\ d.next = "idle" /\ d.requests = {} /\ d.op = call[t].op
        /\ d.role = call[t].role /\ d.key = call[t].key
    <3>1. d \in Calls
      BY <2>1, <2>2, NoCallType DEF Calls
    <3> QED BY <3>1 DEF NoCall
  <2>4. NoCall \in Calls /\ NoCall.next = "idle" /\ NoCall.requests = {}
    BY NoCallType DEF NoCall
  <2>5. c = IF p = "idle" THEN NoCall ELSE d
    BY DEF e
  <2> HIDE DEF d, c, p
  <2> QED BY <2>3, <2>4, <2>5
<1>3. p \in {"idle", "deref", "cancel", "owned"} /\ (pc[t] = "destroy" => p \in {"idle", "cancel"})
  BY <1>0
<1> HIDE DEF c
<1>4. p \in Outside /\ p \in Places /\ p \notin Underway \cup {"destroy", "borrow", "claim", "publish_handle", "accepted"} /\ p \notin PinnedPlaces
  BY <1>3 DEF Outside, Places, PinnedPlaces, Driving, Underway
<1>5. /\ Moves(t) /\ pc'[t] = p /\ call'[t] = c
      /\ pc' \in [Threads -> Places] /\ call' \in [Threads -> Calls]
  BY <1>1, <1>2, <1>4, GotoLocals DEF EInv
<1>6. CallsInv'
  BY <1>2, <1>4, <1>5, CallsKept DEF EInv
<1>7. pc[t] \notin PinnedPlaces \cup {"acquire", "pin", "help", "deref", "accepted", "detach", "owned"}
  BY DEF PinnedPlaces, Underway, Driving
<1>8. HoldsReference(t) <=> p = "deref" \/ (p = "owned" /\ call[t].op = "close")
  BY <1>3, <1>7 DEF HoldsReference, Underway, Driving
<1>9. HoldsReference(t)' <=> p = "deref" \/ (p = "owned" /\ c.op = "close")
  BY <1>3, <1>4, <1>5 DEF HoldsReference
<1>10. /\ Releases(t)' => Releases(t) /\ call'[t].key = call[t].key /\ call'[t].role = call[t].role /\ call'[t].op = call[t].op
  BY <1>2, <1>5 DEF Releases
<1>11. ~WillLook(t)'
  BY <1>3, <1>4, <1>5 DEF WillLook
<1> QED BY <1>2, <1>3, <1>4, <1>5, <1>6, <1>8, <1>9, <1>10, <1>11

\* No thread is in a channel.
Deserted ==
  \A u \in Threads : /\ ~HoldsReference(u) /\ ~Releases(u) /\ call[u].requests = {}
                     /\ pc[u] \notin PinnedPlaces \cup Driving \cup {"destroy"}

\* A slot without a channel, and nobody who takes it for one.
LEMMA DownSlot ==
  ASSUME CallsInv', Deserted', slot'.state \in {"Empty", "Constructing", "Retired"}, core' = NoCore, ledger' = NoLedger,
         slot'.state \in {"Empty", "Retired"} => slot'.key = 0,
         slot'.state = "Empty" => generation' < kServiceEndpointGenerationMaximum,
         slot'.state = "Constructing" => slot'.key = generation' /\ generation' > 0,
         ~slot'.outer_owner_live, ~slot'.drain_driver_active, ~slot'.drain_retry_requested, ~slot'.detached_cleanup,
         \A r \in Roles : ~slot'.endpoint_reference_live[r] /\ refcount'[r] = 0 /\ handle'[r] = "none",
         table'.state \in {"Closed", "Uninitialized"}
  PROVE  SlotInv' /\ CoreInv' /\ DriverInv' /\ OwnerInv' /\ ReferenceInv'
<1>1. ~Up' /\ ~Active' /\ core'.state = "Uninitialized" /\ core'.pins = {} /\ ~core'.drain_driver_active
  BY DEF Up, Active, NoCore
<1>2. SlotInv'
  BY <1>1 DEF SlotInv, Up
<1>3. CoreInv'
  BY <1>1 DEF CoreInv, Deserted
<1>4. DriverInv'
  <2>1. {"close", "finish", "drain", "cleanup", "settle"} \subseteq Driving
    BY DEF Driving
  <2> QED BY <2>1 DEF DriverInv, DrainSeen, Deserted
<1>5. OwnerInv'
  BY DEF OwnerInv, Deserted
<1>6. ReferenceInv'
  <2>1. \A r \in Roles : Referents(r)' = {}
    BY DEF Referents, Deserted
  <2>2. \A r \in Roles : refcount'[r] = Cardinality(Referents(r)') + (IF handle'[r] = "none" THEN 0 ELSE 1)
    BY <2>1, FS_EmptySet
  <2> QED BY <2>2 DEF ReferenceInv, Deserted
<1> QED BY <1>2, <1>3, <1>4, <1>5, <1>6

\* TryRecycleLocked succeeds when the last one has left: no reference, owner, pin or driver is there.
LEMMA RecycleKeeps ==
  ASSUME EInv, NEW t \in Threads, Moves(t), CallsInv', pc[t] \in {"destroy", "owned"}, pc'[t] \in {"idle", "cancel"},
         call'[t].next = "idle", slot' = ClearedSlot(slot.key), CoreCleared,
         UNCHANGED <<generation, handle, refcount, fate, ingressVars>>,
         slot.state = "Drained", slot.outer_owner_live => Releases(t),
         \A r \in Roles : slot.endpoint_reference_live[r] => pc[t] = "destroy" /\ call[t].role = r
  PROVE  EInv'
<1>0. /\ UNCHANGED <<table, port, object>> /\ core' = NoCore /\ ledger' = NoLedger
      /\ core.state = "Drained" /\ ~slot.drain_driver_active /\ slot.key = generation /\ generation > 0 /\ Up
      /\ generation \in 0..kServiceEndpointGenerationMaximum /\ kServiceEndpointGenerationMaximum \in Nat
  BY ServiceEndpointAssumption DEF CoreCleared, EInv, SlotInv, Up, StateTypes, EndpointTypeOK
<1>1. /\ pc[t] \in Outside /\ pc'[t] \in Outside /\ ~HoldsReference(t)' /\ ~Releases(t)'
  BY DEF Outside, Places, PinnedPlaces, Driving, Underway, HoldsReference, Releases
<1>2. \A r \in Roles : refcount[r] = 0 /\ handle[r] = "none" /\ \A u \in Threads : HoldsReference(u) => call[u].role # r
  <2>1. ASSUME NEW r \in Roles PROVE refcount[r] = 0
    BY ReferenceFacts DEF EInv, ReferenceInv
  <2> QED BY <2>1, ReferenceFacts
<1>3. \A u \in Threads : call[u].role \in Roles
  BY DEF EInv, CallsInv, Calls
<1>4. \A u \in Threads : u # t => pc'[u] = pc[u] /\ call'[u] = call[u]
  BY DEF Moves
<1>5. Deserted'
  <2>1. ASSUME NEW u \in Threads, u # t
        PROVE  /\ ~HoldsReference(u) /\ ~Releases(u) /\ call[u].requests = {}
               /\ pc[u] \notin PinnedPlaces \cup Driving \cup {"destroy"}
    <3>1. ~HoldsReference(u)
      BY <1>2, <1>3
    <3>2. ~Releases(u)
      BY <2>1 DEF EInv, OwnerInv
    <3>3. pc[u] \notin Driving
      BY <1>0 DEF EInv, DriverInv
    <3>4. pc[u] \notin PinnedPlaces
      BY <3>1 DEF HoldsReference
    <3>5. pc[u] # "destroy"
      BY <1>3, <2>1 DEF EInv, ReferenceInv
    <3>6. call[u].requests = {}
      BY <3>3 DEF EInv, CallsInv, Driving
    <3> QED BY <3>1, <3>2, <3>3, <3>4, <3>5, <3>6
  <2>2. ASSUME NEW u \in Threads, u # t
        PROVE  (~HoldsReference(u) => ~HoldsReference(u)') /\ (~Releases(u) => ~Releases(u)')
    BY <1>4, <2>2 DEF HoldsReference, Releases
  <2>3. call'[t].requests = {} /\ pc'[t] \notin PinnedPlaces \cup Driving \cup {"destroy"}
    BY <1>1 DEF CallsInv, Outside
  <2> QED BY <1>1, <1>4, <2>1, <2>2, <2>3 DEF Deserted
<1>6. /\ slot'.state = (IF slot.key = kServiceEndpointGenerationMaximum THEN "Retired" ELSE "Empty") /\ slot'.key = 0
      /\ slot' \in Slots
      /\ ~slot'.outer_owner_live /\ ~slot'.drain_driver_active /\ ~slot'.drain_retry_requested /\ ~slot'.detached_cleanup
      /\ \A r \in Roles : ~slot'.endpoint_reference_live[r]
  <2>1. EmptySlot \in Slots
    BY ServiceEndpointAssumption DEF EmptySlot, Slots, SlotStatesOf
  <2> QED BY <2>1 DEF ClearedSlot, EmptySlot, Slots, SlotStatesOf
<1>7. SlotInv' /\ CoreInv' /\ DriverInv' /\ OwnerInv' /\ ReferenceInv'
  <2>1. slot'.state = "Empty" => generation' < kServiceEndpointGenerationMaximum
    BY <1>0, <1>6
  <2>2. table'.state \in {"Closed", "Uninitialized"}
    BY <1>0 DEF EInv, CoreInv, Active
  <2>3. \A r \in Roles : ~slot'.endpoint_reference_live[r] /\ refcount'[r] = 0 /\ handle'[r] = "none"
    BY <1>2, <1>6
  <2> QED BY <1>0, <1>5, <1>6, <2>1, <2>2, <2>3, DownSlot
<1>8. HandsKept(t)
  BY <1>1, OutsideKept DEF EInv
<1>9. RequestInv'
  <2>1. \A id \in RequestIds : ledger.slots[id] = "Free" /\ NoLedger.slots[id] = "Free"
    BY <1>0 DEF EInv, CoreInv, RequestInv, LedgerIsCanonical, LiveRequests, NoLedger, NoRequests
  <2>2. \A u \in Threads : call'[u].requests = call[u].requests
    BY <1>4, <1>8 DEF HandsKept
  <2>3. LedgerIsCanonical(NoLedger)
    <3>1. LiveRequests(NoLedger) = {}
      BY <2>1 DEF LiveRequests
    <3> QED BY <3>1, FS_EmptySet, EndpointRequestLedgerAssumption DEF LedgerIsCanonical, NoLedger
  <2>4. NoLedger.state # "Open"
    BY DEF NoLedger
  <2> QED BY <1>0, <2>1, <2>2, <2>3, <2>4 DEF EInv, RequestInv
<1>10. HolderInv'
  <2>1. ~Active'
    BY <1>0 DEF Active, NoCore
  <2>2. \A u \in Threads : ~Offers(u)' /\ ~Answers(u)'
    BY <1>5 DEF Deserted, Offers, Answers, Replying, PinnedPlaces
  <2> QED BY <2>1, <2>2 DEF HolderInv, QueueInv, OwedInv, OfferInv, AnswerInv
<1>11. ReceiptInv'
  <2>1. Built' = Built
    BY <1>6 DEF Built
  <2> QED BY <1>8, <2>1, ReceiptsKept DEF EInv, HandsKept, ingressVars
<1>12. ObjectInv'
  BY <1>0, <1>8, ObjectKept DEF EInv, HandsKept, ingressVars
<1>13. StateTypes'
  <2>1. core' \in [state: CoreStates, epoch: Nat, pins: SUBSET Threads, drain_driver_active: BOOLEAN,
               ports_close_notified: BOOLEAN, request_ledgers_drained: BOOLEAN, attached: BOOLEAN]
    BY <1>0 DEF NoCore, CoreStates
  <2>2. ledger' \in Ledgers
    BY <1>0, EndpointRequestLedgerAssumption DEF NoLedger, Ledgers, NoRequests, SlotStates
  <2> QED BY <1>0, <1>6, <2>1, <2>2 DEF EInv, StateTypes, EndpointTypeOK, CoreTypeOK, Slots, ingressVars
<1> QED BY <1>7, <1>9, <1>10, <1>11, <1>12, <1>13 DEF EInv

\* DestroyEndpointObject: the slot is the object's still, and the destroyer drives the drain or goes on.
LEMMA DestroyKeeps == ASSUME EInv, NEW t \in Threads, DestroyEndpointObject(t), UNCHANGED ingressVars PROVE EInv'
<1>0. PICK r \in Roles : call[t].role = r
  BY DEF EInv, CallsInv, Calls
<1> DEFINE live == [slot.endpoint_reference_live EXCEPT ![r] = FALSE]
           s == [slot EXCEPT !.endpoint_reference_live[r] = FALSE]
           gone == Closing(s)
<1>1. /\ pc[t] = "destroy" /\ UNCHANGED <<generation, handle, refcount, fate, ingressVars>>
      /\ {"destroy", "drive"} \subseteq Outside /\ {"destroy", "drive"} \subseteq Places /\ "drive" \in Underway
      /\ pc[t] \notin PinnedPlaces \cup Driving \cup {"help", "drive"}
  BY DEF DestroyEndpointObject, At, Outside, Places, PinnedPlaces, Driving, Underway
<1>2. /\ call[t] \in Calls /\ call[t].next \in {"idle", "cancel"} /\ call[t].requests = {} /\ call[t].key = slot.key
      /\ Up /\ slot.endpoint_reference_live[r] /\ refcount[r] = 0
      /\ \A u \in Threads \ {t} : pc[u] = "destroy" => call[u].role # r
  BY <1>0, <1>1 DEF EInv, CallsInv, ReferenceInv
<1>3. ResolveExact(call[t].key)
  BY <1>2 DEF ResolveExact, Up
<1>4. /\ slot \in Slots /\ refcount \in [Roles -> Nat] /\ handle \in [Roles -> {"none", "unpublished", "queued", "open"}]
  BY DEF EInv, StateTypes, EndpointTypeOK, Slots
<1>5. live \in [Roles -> BOOLEAN] /\ \A q \in Roles : live[q] = IF q = r THEN FALSE ELSE slot.endpoint_reference_live[q]
  BY <1>4 DEF Slots
<1>6. /\ s \in Slots /\ s.endpoint_reference_live = live /\ s.key = slot.key /\ s.outer_owner_live = slot.outer_owner_live
      /\ s.drain_driver_active = slot.drain_driver_active /\ s.detached_cleanup = slot.detached_cleanup
      /\ s.drain_retry_requested = slot.drain_retry_requested /\ s.state = slot.state
  BY <1>4, <1>5 DEF Slots
<1> HIDE DEF live, s
<1>7. /\ gone \in Slots /\ gone.key = slot.key /\ gone.outer_owner_live = slot.outer_owner_live
      /\ gone.endpoint_reference_live = live
      /\ gone.drain_driver_active = slot.drain_driver_active /\ gone.detached_cleanup = slot.detached_cleanup
      /\ gone.drain_retry_requested = slot.drain_retry_requested
      /\ gone.state = (IF slot.state = "Drained" THEN "Drained" ELSE "Draining")
  BY <1>2, <1>6, ClosingFacts DEF Up
<1>8. /\ SetSlot(gone)
      /\ IF gone.state = "Draining" THEN Goto(t, "drive") /\ UNCHANGED call ELSE Continue(t, "Ok")
  BY <1>0, <1>2, <1>3 DEF DestroyEndpointObject, s
<1> HIDE DEF gone
<1>9. ASSUME slot' = gone, Moves(t), ~HoldsReference(t)', pc'[t] # "destroy"
      PROVE  ReferenceInv'
  <2>1. ~HoldsReference(t)
    BY <1>1 DEF HoldsReference, Underway, PinnedPlaces, Driving
  <2>2. \A q \in Roles : t \notin Referents(q)' /\ t \notin Referents(q)
    BY <1>9, <2>1 DEF Referents
  <2>3. \A q \in Roles : refcount'[q] \in Nat /\
         refcount'[q] = refcount[q] + (IF t \in Referents(q)' THEN 1 ELSE 0) - (IF t \in Referents(q) THEN 1 ELSE 0)
                        + (IF handle'[q] = "none" THEN 0 ELSE 1) - (IF handle[q] = "none" THEN 0 ELSE 1)
    BY <1>1, <1>4, <2>2
  <2>4. Up' /\ slot'.state # "Private" /\ slot'.key = slot.key /\ \A q \in Roles : slot'.endpoint_reference_live[q] = live[q]
    BY <1>7, <1>9 DEF Up
  <2>5. \A q \in Roles : refcount'[q] > 0 => Up' /\ slot'.endpoint_reference_live[q]
    <3>1. ASSUME NEW q \in Roles, refcount'[q] > 0 PROVE q # r /\ slot.endpoint_reference_live[q]
      BY <1>1, <1>2, <3>1 DEF EInv, ReferenceInv
    <3> QED BY <1>5, <2>4, <3>1
  <2>6. \A u \in Threads : u # t /\ pc[u] = "destroy" =>
           Up' /\ slot'.endpoint_reference_live[call[u].role] /\ refcount'[call[u].role] = 0
    <3>1. \A u \in Threads : call[u].role \in Roles
      BY DEF EInv, CallsInv, Calls
    <3>2. \A u \in Threads : u # t /\ pc[u] = "destroy" =>
            call[u].role # r /\ slot.endpoint_reference_live[call[u].role] /\ refcount'[call[u].role] = 0
      BY <1>1, <1>2 DEF EInv, ReferenceInv
    <3> QED BY <1>5, <2>4, <3>1, <3>2
  <2> QED BY <1>9, <2>3, <2>4, <2>5, <2>6, ReferenceStep
<1>10. CASE slot.state # "Drained"
  <2>1. slot' = gone /\ UNCHANGED coreVars /\ Goto(t, "drive") /\ UNCHANGED call
    BY <1>7, <1>8, <1>10 DEF SetSlot, Recyclable
  <2>2. /\ Moves(t) /\ pc'[t] = "drive" /\ call'[t] = call[t]
        /\ pc' \in [Threads -> Places] /\ call' \in [Threads -> Calls]
    BY <1>1, <2>1, GotoOnly DEF EInv
  <2>3. CallsInv'
    BY <1>1, <1>2, <2>2, CallsKept DEF EInv
  <2>4. SlotInv' /\ DriverInv'
    <3>1. slot.state \in {"Private", "Open", "Draining"}
      BY <1>2, <1>10 DEF Up
    <3> QED BY <1>1, <1>2, <1>7, <1>10, <2>1, <2>2, <3>1, ClosingSlot
  <2>5. OwnerInv'
    <3>1. ~Releases(t)'
      BY <1>2, <2>2 DEF Releases
    <3>2. slot'.outer_owner_live = slot.outer_owner_live /\ slot'.key = slot.key /\ slot'.state = "Draining"
      BY <1>7, <1>10, <2>1
    <3> QED BY <2>2, <3>1, <3>2, OwnerKept DEF EInv
  <2>6. ~HoldsReference(t)'
    BY <1>2, <2>2 DEF HoldsReference, PinnedPlaces
  <2>7. Up'
    BY <1>7, <2>1 DEF Up
  <2> QED BY <1>1, <1>2, <1>4, <1>7, <1>9, <2>1, <2>2, <2>3, <2>4, <2>5, <2>6, <2>7, SlotStep
<1>11. CASE slot.state = "Drained"
  <2>1. gone.state = "Drained" /\ Continue(t, "Ok")
    BY <1>7, <1>8, <1>11
  <2>2. /\ Moves(t) /\ CallsInv' /\ pc'[t] \in Outside /\ pc'[t] \in {"idle", "cancel"} /\ call'[t].next = "idle"
        /\ HoldsReference(t)' <=> HoldsReference(t)
        /\ Releases(t)' => Releases(t) /\ call'[t].key = call[t].key /\ call'[t].role = call[t].role /\ call'[t].op = call[t].op
    BY <1>1, <2>1, ContinueFacts
  <2>3. CASE Recyclable(gone)
    <3>1. slot' = ClearedSlot(slot.key) /\ CoreCleared
      BY <1>7, <1>8, <2>3 DEF SetSlot
    <3>2. ~slot.outer_owner_live
      BY <1>7, <2>3 DEF Recyclable
    <3>3. \A q \in Roles : slot.endpoint_reference_live[q] => pc[t] = "destroy" /\ call[t].role = q
      BY <1>0, <1>1, <1>5, <1>7, <2>3 DEF Recyclable
    <3> QED BY <1>1, <1>11, <2>2, <3>1, <3>2, <3>3, RecycleKeeps
  <2>4. CASE ~Recyclable(gone)
    <3>1. slot' = gone /\ UNCHANGED coreVars
      BY <1>8, <2>4 DEF SetSlot
    <3>2. /\ ~slot.drain_driver_active /\ UNCHANGED <<core, ledger, table>>
          /\ \A u \in Threads : pc[u] \notin Driving
      BY <1>11, <3>1 DEF EInv, SlotInv, DriverInv, coreVars
    <3>3. SlotInv'
      BY <1>1, <1>7, <1>11, <3>1, <3>2 DEF EInv, SlotInv, Up, Active
    <3>4. DriverInv'
      <4>1. \A u \in Threads : pc'[u] \notin Driving
        BY <2>2, <3>2 DEF Moves, Outside
      <4>2. {"close", "finish", "drain", "cleanup", "settle"} \subseteq Driving
        BY DEF Driving
      <4>3. ~slot'.drain_driver_active /\ slot'.state # "Draining"
        BY <1>7, <1>11, <3>1, <3>2
      <4> QED BY <4>1, <4>2, <4>3 DEF DriverInv, DrainSeen
    <3>5. OwnerInv'
      BY <1>7, <1>11, <2>2, <3>1, OwnerKept DEF EInv
    <3>6. ~HoldsReference(t)' /\ Up'
      BY <1>1, <1>7, <1>11, <2>2, <3>1 DEF HoldsReference, Up, PinnedPlaces, Underway, Driving
    <3>7. ReferenceInv'
      BY <1>9, <2>2, <3>1, <3>6
    <3> QED BY <1>1, <1>2, <1>4, <1>7, <2>2, <3>1, <3>3, <3>4, <3>5, <3>6, <3>7, SlotStep
  <2> QED BY <2>3, <2>4
<1> QED BY <1>10, <1>11

\* ServiceDirectoryDrainOwnedChannel begins.
LEMMA ReleaseOwnerKeeps == ASSUME EInv, NEW t \in Threads, ReleaseOwner(t), UNCHANGED ingressVars PROVE EInv'
<1> DEFINE c == [[NoCall EXCEPT !.op = "owner", !.role = "acceptor"] EXCEPT !.key = slot.key, !.next = "owned"]
<1>1. /\ pc[t] = "idle" /\ slot.outer_owner_live /\ ~Releasing /\ slot' = Closing(slot) /\ Goto(t, "drive") /\ Locals(t, c)
      /\ UNCHANGED <<coreVars, generation, handle, refcount, fate, ingressVars>>
  BY DEF ReleaseOwner, OwnerMark, At
<1>2. c \in Calls /\ c.key = slot.key /\ c.next = "owned" /\ c.requests = {} /\ c.role = "acceptor" /\ c.op = "owner"
  <2>1. slot.key \in 0..kServiceEndpointGenerationMaximum /\ "acceptor" \in Roles
    BY DEF EInv, StateTypes, EndpointTypeOK, Roles
  <2>2. c \in Calls
    BY <2>1, NoCallType DEF Calls
  <2> QED BY <2>2 DEF NoCall
<1> HIDE DEF c
<1> QED BY <1>1, <1>2, OwnerMarkKeeps

\* ServiceDirectoryDrainOwnedChannel ends: the channel stays while its acceptor has a reference.
LEMMA ReleaseOwnerEndKeeps == ASSUME EInv, NEW t \in Threads, ReleaseOwnerEnd(t), UNCHANGED ingressVars PROVE EInv'
<1>1. /\ pc[t] = "owned" /\ call[t].op = "owner" /\ ReleaseOwnerEnds(t) /\ UNCHANGED <<generation, refcount, fate, ingressVars>>
      /\ {"owned", "idle", "deref"} \subseteq Outside /\ {"owned", "idle", "deref"} \subseteq Places
  BY DEF ReleaseOwnerEnd, At, Outside, Places, PinnedPlaces, Driving
<1>2. /\ call[t] \in Calls /\ call[t].next = "idle" /\ call[t].requests = {} /\ ~HoldsReference(t) /\ Releases(t) /\ ~WillLook(t)
      /\ slot \in Slots /\ handle \in [Roles -> {"none", "unpublished", "queued", "open"}] /\ refcount \in [Roles -> Nat]
  BY <1>1 DEF EInv, CallsInv, HoldsReference, Underway, Driving, StateTypes, EndpointTypeOK, Releases, Slots, PinnedPlaces, WillLook
<1>3. /\ call[t].role = "acceptor" /\ call[t].key = slot.key /\ slot.state \in {"Draining", "Drained"} /\ "acceptor" \in Roles /\ Up
  BY <1>2 DEF EInv, OwnerInv, Roles, Up
<1> DEFINE s == [slot EXCEPT !.outer_owner_live = FALSE]
<1>4. CASE handle["acceptor"] \in {"unpublished", "queued"}
  <2> DEFINE c == [call[t] EXCEPT !.result = "Ok"]
  <2>1. handle' = [handle EXCEPT !["acceptor"] = "none"] /\ Goto(t, "deref") /\ Locals(t, c)
    BY <1>4 DEF ReleaseOwnerEnd
  <2>2. c \in Calls /\ c.next = "idle" /\ c.requests = {} /\ c.role = "acceptor" /\ c.key = slot.key
    BY <1>2, <1>3 DEF Calls
  <2> HIDE DEF c
  <2>3. CASE ~OwnerLetsGo(t)
    <3>1. UNCHANGED <<coreVars, slot>>
      BY <1>1, <2>3 DEF ReleaseOwnerEnds
    <3> QED BY <1>1, <1>3, <1>4, <2>1, <2>2, <3>1, HandleTaken
  <2>4. CASE OwnerLetsGo(t)
    <3>1. slot.endpoint_reference_live["acceptor"]
      BY <1>3, <1>4, ReferenceFacts
    <3>2. ~Recyclable(s)
      BY <1>2, <1>3, <3>1 DEF Recyclable, Slots
    <3>3. slot' = s /\ UNCHANGED coreVars
      BY <1>1, <2>4, <3>2 DEF ReleaseOwnerEnds, SetSlot
    <3>4. /\ Moves(t) /\ pc'[t] = "deref" /\ call'[t] = c
          /\ pc' \in [Threads -> Places] /\ call' \in [Threads -> Calls]
      BY <1>1, <2>1, <2>2, GotoLocals DEF EInv
    <3>5. /\ slot' \in Slots /\ slot'.key = slot.key /\ slot'.state = "Drained" /\ slot.state = "Drained"
          /\ slot'.endpoint_reference_live = slot.endpoint_reference_live
          /\ SlotInv' /\ DriverInv' /\ OwnerInv'
      BY <1>1, <2>2, <2>4, <3>3, <3>4, LetGoSlot
    <3>6. CallsInv'
      BY <2>2, <3>4, CallsKept DEF EInv
    <3>7. Up'
      BY <3>5 DEF Up
    <3>8. ReferenceInv'
      BY <1>1, <1>2, <1>3, <1>4, <2>1, <2>2, <3>4, <3>5, <3>7, HandleReference
    <3>9. handle' \in [Roles -> {"none", "unpublished", "queued", "open"}]
      BY <1>2, <2>1
    <3> QED BY <1>1, <1>2, <1>3, <3>3, <3>4, <3>5, <3>6, <3>7, <3>8, <3>9, SlotStep
  <2> QED BY <2>3, <2>4
<1>5. CASE handle["acceptor"] \notin {"unpublished", "queued"}
  <2>1. Goto(t, "idle") /\ Locals(t, NoCall) /\ handle' = handle
    BY <1>5 DEF ReleaseOwnerEnd, Return
  <2>2. NoCall \in Calls /\ NoCall.next = "idle" /\ NoCall.requests = {}
    BY NoCallType DEF NoCall
  <2>3. /\ Moves(t) /\ pc'[t] = "idle" /\ call'[t] = NoCall
        /\ pc' \in [Threads -> Places] /\ call' \in [Threads -> Calls]
    BY <1>1, <2>1, <2>2, GotoLocals DEF EInv
  <2>4. ~HoldsReference(t)'
    BY <2>3 DEF HoldsReference, Underway, Driving, PinnedPlaces
  <2>5. CallsInv'
    BY <2>2, <2>3, CallsKept DEF EInv
  <2>6. CASE ~OwnerLetsGo(t)
    <3>1. UNCHANGED <<coreVars, endpointVars, fate, ingressVars>>
      BY <1>1, <2>1, <2>6 DEF ReleaseOwnerEnds, endpointVars
    <3> QED BY <1>1, <1>2, <2>1, <2>2, <2>4, <3>1, OutsideMoves
  <2>7. CASE OwnerLetsGo(t) /\ Recyclable(s)
    <3>1. s.key = slot.key /\ s.endpoint_reference_live = slot.endpoint_reference_live
      BY <1>2 DEF Slots
    <3>2. slot' = ClearedSlot(slot.key) /\ CoreCleared
      BY <1>1, <2>7, <3>1 DEF ReleaseOwnerEnds, SetSlot
    <3>3. slot.state = "Drained" /\ \A r \in Roles : ~slot.endpoint_reference_live[r]
      BY <2>7, <3>1 DEF OwnerLetsGo, Recyclable
    <3> QED BY <1>1, <1>2, <2>1, <2>2, <2>3, <2>5, <3>2, <3>3, RecycleKeeps
  <2>8. CASE OwnerLetsGo(t) /\ ~Recyclable(s)
    <3>1. slot' = s /\ UNCHANGED coreVars
      BY <1>1, <2>8 DEF ReleaseOwnerEnds, SetSlot
    <3>2. /\ slot' \in Slots /\ slot'.key = slot.key /\ slot'.state = "Drained" /\ slot.state = "Drained"
          /\ slot'.endpoint_reference_live = slot.endpoint_reference_live
          /\ SlotInv' /\ DriverInv' /\ OwnerInv'
      BY <1>1, <2>2, <2>3, <2>8, <3>1, LetGoSlot
    <3>3. Up'
      BY <3>2 DEF Up
    <3>4. ReferenceInv'
      BY <1>1, <1>2, <2>1, <2>3, <2>4, <3>2, <3>3, ReferencesKept
    <3> QED BY <1>1, <1>2, <1>3, <2>1, <2>3, <2>5, <3>1, <3>2, <3>3, <3>4, SlotStep
  <2> QED BY <2>6, <2>7, <2>8
<1> QED BY <1>4, <1>5

-----------------------------------------------------------------------------
(* The drain *)

\* A call goes on outside and leaves the state alone.
LEMMA WentOn ==
  ASSUME EInv, NEW t \in Threads, Moves(t), CallsInv', pc[t] \in Outside, pc'[t] \in Outside, pc'[t] # "destroy",
         UNCHANGED <<coreVars, endpointVars, fate, ingressVars>>,
         slot.state = "Draining" /\ WillLook(t) => WillLook(t)',
         Releases(t)' => Releases(t) /\ call'[t].key = call[t].key /\ call'[t].role = call[t].role /\ call'[t].op = call[t].op,
         HoldsReference(t)' <=> HoldsReference(t),
         HoldsReference(t) => call'[t].key = call[t].key /\ call'[t].role = call[t].role
  PROVE  EInv'
<1>1. UNCHANGED <<core, ledger, table, slot, generation, handle, refcount>>
  BY DEF coreVars, endpointVars
<1>2. SlotInv' /\ CoreInv' /\ DriverInv'
  BY <1>1, OutsideSlot
<1>3. OwnerInv'
  BY <1>1, OwnerKept DEF EInv
<1>4. ReferenceInv'
  BY <1>1, ReferencesKept DEF Up
<1>5. HandsKept(t)
  BY OutsideKept DEF EInv
<1>6. RequestInv' /\ HolderInv' /\ ReceiptInv' /\ ObjectInv'
  <2>1. (Active' => Active) /\ slot'.key = slot.key /\ Built' = Built /\ UNCHANGED dataVars
    BY <1>1 DEF Active, Built, dataVars, coreVars, ingressVars
  <2> QED BY <1>5, <2>1, DataKept
<1>7. StateTypes'
  BY DEF EInv, StateTypes, EndpointTypeOK, CoreTypeOK, coreVars, endpointVars, ingressVars
<1> QED BY <1>2, <1>3, <1>4, <1>6, <1>7 DEF EInv

\* A step of a drain keeps what the call goes on with: its reference, its owner's hold.
LEMMA DrivesOn ==
  ASSUME EInv, NEW t \in Threads, Moves(t), pc[t] \in Underway, pc'[t] \in Underway,
         call'[t].op = call[t].op, call'[t].role = call[t].role, call'[t].key = call[t].key, call'[t].next = call[t].next,
         slot'.key = slot.key, slot'.outer_owner_live = slot.outer_owner_live,
         slot'.endpoint_reference_live = slot.endpoint_reference_live, slot'.state \in {"Draining", "Drained"},
         UNCHANGED <<handle, refcount>>
  PROVE  /\ OwnerInv' /\ ReferenceInv'
         /\ call'[t].requests = call[t].requests => HandsKept(t)
<1>0. /\ \A p \in Underway : p \notin PinnedPlaces \cup {"acquire", "pin", "help", "deref", "accepted", "detach", "owned", "destroy"}
  BY DEF Underway, Driving, PinnedPlaces
<1>1. OwnerInv'
  BY <1>0, OwnerKept DEF EInv, Releases
<1>2. HoldsReference(t)' <=> HoldsReference(t)
  BY <1>0 DEF HoldsReference
<1>3. Up'
  BY DEF Up
<1>4. ReferenceInv'
  BY <1>0, <1>2, <1>3, ReferencesKept
<1>5. ~Offers(t) /\ ~Answers(t) /\ ~HasToken(t) /\ ~Claimant(t) /\ ~Imports(t) /\ t \notin Carriers
  BY <1>0 DEF PinnedPlaces, Offers, Answers, Replying, HasToken, Claimant, Imports, Carriers
<1>6. ~Offers(t)' /\ ~Answers(t)' /\ ~HasToken(t)' /\ ~Claimant(t)' /\ ~Imports(t)' /\ t \notin Carriers'
  BY <1>0 DEF PinnedPlaces, Offers, Answers, Replying, HasToken, Claimant, Imports, Carriers
<1> QED BY <1>1, <1>4, <1>5, <1>6 DEF HandsKept

\* The locals of a driver.
LEMMA DriverCall ==
  ASSUME EInv, NEW t \in Threads, pc[t] \in Underway, NEW p \in Underway, NEW c \in Calls, Goto(t, p), Locals(t, c),
         c.requests = {} \/ p = "cleanup"
  PROVE  /\ Moves(t) /\ CallsInv' /\ pc'[t] = p /\ call'[t] = c
<1>0. p \in Places /\ p \notin {"destroy", "borrow", "claim", "publish_handle", "accepted"}
  BY DEF Underway, Driving, Places
<1>1. /\ Moves(t) /\ pc'[t] = p /\ call'[t] = c
      /\ pc' \in [Threads -> Places] /\ call' \in [Threads -> Calls]
  BY <1>0, GotoLocals DEF EInv
<1>2. CallsInv'
  BY <1>0, <1>1, CallsKept DEF EInv
<1> QED BY <1>1, <1>2

\* The first hold of a drain, by the one that becomes its driver.
LEMMA BecomesDriver ==
  ASSUME EInv, NEW t \in Threads, pc[t] = "drive", ResolveExact(call[t].key), slot.state # "Drained", ~slot.drain_driver_active,
         NEW p \in {"cleanup", "drain"}, p = "cleanup" <=> slot.detached_cleanup, Goto(t, p),
         NEW c \in Calls, Locals(t, c), c.requests = {}, c.detached = IF p = "cleanup" THEN "charge" ELSE "none",
         c.op = call[t].op, c.role = call[t].role, c.key = call[t].key, c.next = call[t].next,
         slot' \in Slots, slot'.state = "Draining", slot'.key = slot.key, slot'.outer_owner_live = slot.outer_owner_live,
         slot'.endpoint_reference_live = slot.endpoint_reference_live,
         slot'.drain_driver_active, ~slot'.drain_retry_requested, ~slot'.detached_cleanup,
         UNCHANGED <<coreVars, generation, handle, refcount, fate, ingressVars>>
  PROVE  EInv'
<1>0. /\ slot.state \in {"Private", "Open", "Draining"} /\ Up /\ call[t].key = slot.key /\ "drive" \in Underway /\ p \in Underway
      /\ p \in Driving /\ p \notin PinnedPlaces /\ "drive" \notin PinnedPlaces
      /\ {"close", "finish", "drain", "cleanup", "settle"} \subseteq Driving
  BY DEF ResolveExact, Up, Underway, Driving, PinnedPlaces
<1>1. /\ Moves(t) /\ CallsInv' /\ pc'[t] = p /\ call'[t] = c
  BY <1>0, DriverCall
<1>2. OwnerInv' /\ ReferenceInv' /\ HandsKept(t)
  <2>1. call'[t].requests = call[t].requests
    BY <1>1 DEF EInv, CallsInv
  <2> QED BY <1>0, <1>1, <2>1, DrivesOn
<1>3. \A u \in Threads : u # t => pc'[u] = pc[u] /\ call'[u] = call[u]
  BY <1>1 DEF Moves
<1>4. \A u \in Threads : pc[u] \notin Driving
  BY DEF EInv, DriverInv
<1>5. ~core.drain_driver_active /\ UNCHANGED <<core, ledger, table>>
  BY <1>0, <1>4 DEF EInv, CoreInv, coreVars
<1>6. /\ slot.detached_cleanup => core.state = "Drained"
      /\ ~slot.detached_cleanup => Active
  BY <1>0 DEF EInv, SlotInv, Active
<1>7. SlotInv'
  BY <1>0, <1>5 DEF EInv, SlotInv, Up, Active
<1>8. CoreInv'
  BY <1>0, <1>1, <1>3, <1>5 DEF EInv, CoreInv, Active
<1>9. DriverInv'
  <2>1. \A u \in Threads : pc'[u] \in Driving => u = t
    BY <1>3, <1>4
  <2>2. DrainSeen'
    BY DEF DrainSeen
  <2> QED BY <1>0, <1>1, <1>5, <1>6, <2>1, <2>2 DEF DriverInv, Active
<1>10. RequestInv' /\ HolderInv' /\ ReceiptInv' /\ ObjectInv'
  <2>1. (Active' => Active) /\ slot'.key = slot.key /\ Built' = Built /\ UNCHANGED dataVars
    BY <1>0, <1>5 DEF Active, Built, dataVars, coreVars, ingressVars
  <2> QED BY <1>1, <1>2, <2>1, DataKept
<1>11. StateTypes'
  BY DEF EInv, StateTypes, EndpointTypeOK, CoreTypeOK, Slots, coreVars, ingressVars
<1> QED BY <1>1, <1>2, <1>7, <1>8, <1>9, <1>10, <1>11 DEF EInv

\* The first hold of a drain, by one that finds a driver: it leaves word.
LEMMA RetryLeft ==
  ASSUME EInv, NEW t \in Threads, pc[t] = "drive", slot.state = "Draining", slot.drain_driver_active,
         slot' = RetryRequested, Continue(t, "Busy"), UNCHANGED <<coreVars, generation, handle, refcount, fate, ingressVars>>
  PROVE  EInv'
<1>0. pc[t] \in Underway /\ pc[t] \in Outside /\ pc[t] \notin Driving /\ {"close", "finish", "drain", "cleanup", "settle"} \subseteq Driving
  BY DEF Underway, Outside, Places, PinnedPlaces, Driving
<1>1. slot \in Slots /\ handle' \in [Roles -> {"none", "unpublished", "queued", "open"}] /\ refcount' \in [Roles -> Nat]
  BY DEF EInv, StateTypes, EndpointTypeOK, Slots
<1>2. /\ slot' \in Slots /\ slot'.state = "Draining" /\ slot'.key = slot.key /\ slot'.outer_owner_live = slot.outer_owner_live
      /\ slot'.endpoint_reference_live = slot.endpoint_reference_live /\ slot'.detached_cleanup = slot.detached_cleanup
      /\ slot'.drain_driver_active /\ slot'.drain_retry_requested
  BY <1>1 DEF RetryRequested, Slots
<1>3. /\ Moves(t) /\ CallsInv' /\ pc'[t] \in Outside /\ pc'[t] \notin {"help", "drive", "destroy"}
      /\ HoldsReference(t)' <=> HoldsReference(t)
      /\ HoldsReference(t) => call'[t].key = call[t].key /\ call'[t].role = call[t].role
      /\ Releases(t)' => Releases(t) /\ call'[t].key = call[t].key /\ call'[t].role = call[t].role /\ call'[t].op = call[t].op
  BY <1>0, ContinueFacts
<1>4. Up /\ Up' /\ UNCHANGED <<core, ledger, table>>
  BY <1>2 DEF Up, coreVars
<1>5. OwnerInv'
  BY <1>2, <1>3, OwnerKept DEF EInv
<1>6. ReferenceInv'
  BY <1>2, <1>3, <1>4, ReferencesKept
<1>7. SlotInv'
  BY <1>2, <1>4 DEF EInv, SlotInv, Up, Active
<1>8. DriverInv'
  <2>1. pc'[t] \notin Driving /\ \A u \in Threads : u # t => pc'[u] = pc[u] /\ call'[u] = call[u]
    BY <1>3 DEF Outside, Moves
  <2>2. DrainSeen'
    BY <1>2 DEF DrainSeen
  <2>3. \A u \in Threads : pc'[u] \in Driving => u # t /\ pc[u] \in Driving /\ pc'[u] = pc[u] /\ call'[u] = call[u]
    BY <2>1
  <2>4. \E u \in Threads : pc'[u] \in Driving
    BY <1>0, <2>1 DEF EInv, DriverInv
  <2> QED BY <1>0, <1>2, <1>4, <2>1, <2>2, <2>3, <2>4 DEF EInv, DriverInv, Active
<1> QED BY <1>0, <1>1, <1>2, <1>3, <1>4, <1>5, <1>6, <1>7, <1>8, SlotStep

(* The locals with which a drain is begun.                                 *)
Begun(x, d) == [x EXCEPT !.result = "Ok", !.requests = {}, !.detached = d]

\* They keep what the call goes on with.
LEMMA BegunFields ==
  ASSUME NEW x \in Calls, NEW d \in {"none", "charge", "complete"}
  PROVE  /\ Begun(x, d) \in Calls /\ Begun(x, d).requests = {} /\ Begun(x, d).detached = d
         /\ Begun(x, d).op = x.op /\ Begun(x, d).role = x.role /\ Begun(x, d).key = x.key /\ Begun(x, d).next = x.next
BY DEF Calls, Begun

\* The first hold of a drain.
LEMMA DriveEnterKeeps == ASSUME EInv, NEW t \in Threads, DriveEnter(t), UNCHANGED ingressVars PROVE EInv'
<1>1. /\ pc[t] = "drive" /\ UNCHANGED <<coreVars, generation, handle, refcount, fate, ingressVars>>
      /\ "drive" \in Underway /\ "drive" \in Outside
  BY DEF DriveEnter, At, Underway, Outside, Places, PinnedPlaces, Driving
<1>2. slot \in Slots /\ call[t] \in Calls
  BY DEF EInv, StateTypes, EndpointTypeOK, Slots, CallsInv
<1> DEFINE s == Closing(slot)
<1>3. ResolveExact(call[t].key) =>
        /\ s \in Slots /\ s.key = slot.key /\ s.outer_owner_live = slot.outer_owner_live
        /\ s.endpoint_reference_live = slot.endpoint_reference_live
        /\ s.drain_driver_active = slot.drain_driver_active /\ s.detached_cleanup = slot.detached_cleanup
        /\ s.state = IF slot.state = "Drained" THEN "Drained" ELSE "Draining"
  BY <1>2, ClosingFacts DEF ResolveExact
<1>4. CASE \/ ~ResolveExact(call[t].key) /\ Continue(t, "StaleIdentity") /\ UNCHANGED slot
           \/ ResolveExact(call[t].key) /\ s.state = "Drained" /\ Continue(t, "Ok") /\ UNCHANGED slot
  <2>1. slot.state = "Draining" => ~WillLook(t)
    BY <1>3, <1>4 DEF ResolveExact, WillLook
  <2>2. PICK e \in {"Ok", "Busy", "StaleIdentity", "ResourceReleaseFailed", "RetainFailed"} : Continue(t, e)
    BY <1>4
  <2>3. /\ Moves(t) /\ CallsInv' /\ pc'[t] \in Outside /\ pc'[t] # "destroy"
        /\ HoldsReference(t)' <=> HoldsReference(t)
        /\ HoldsReference(t) => call'[t].key = call[t].key /\ call'[t].role = call[t].role
        /\ Releases(t)' => Releases(t) /\ call'[t].key = call[t].key /\ call'[t].role = call[t].role /\ call'[t].op = call[t].op
    BY <1>1, <2>2, ContinueFacts
  <2>4. UNCHANGED <<coreVars, endpointVars, fate, ingressVars>>
    BY <1>1, <1>4 DEF endpointVars
  <2> QED BY <1>1, <2>1, <2>3, <2>4, WentOn
<1>5. CASE /\ ResolveExact(call[t].key) /\ s.state = "Draining" /\ s.drain_driver_active
           /\ slot' = RetryRequested /\ Continue(t, "Busy")
  <2>1. slot.drain_driver_active /\ slot.state = "Draining"
    BY <1>3, <1>5 DEF EInv, SlotInv
  <2> QED BY <1>1, <1>5, <2>1, RetryLeft
<1> DEFINE c == [call[t] EXCEPT !.result = "Ok", !.requests = {}, !.detached = IF s.detached_cleanup THEN "charge" ELSE "none"]
<1>6. CASE /\ ResolveExact(call[t].key) /\ s.state = "Draining" /\ ~s.drain_driver_active
           /\ slot' = [s EXCEPT !.drain_driver_active = TRUE, !.drain_retry_requested = FALSE, !.detached_cleanup = FALSE]
           /\ Locals(t, c) /\ Goto(t, IF s.detached_cleanup THEN "cleanup" ELSE "drain")
  <2>1. PICK p \in {"cleanup", "drain"} : (p = "cleanup" <=> slot.detached_cleanup) /\ Goto(t, p)
    BY <1>3, <1>6
  <2>2. /\ c \in Calls /\ c.requests = {} /\ c.detached = (IF p = "cleanup" THEN "charge" ELSE "none")
        /\ c.op = call[t].op /\ c.role = call[t].role /\ c.key = call[t].key /\ c.next = call[t].next
    <3> DEFINE d == IF s.detached_cleanup THEN "charge" ELSE "none"
    <3>1. d \in {"none", "charge", "complete"} /\ d = IF p = "cleanup" THEN "charge" ELSE "none"
      BY <1>3, <1>6, <2>1
    <3>2. c = Begun(call[t], d)
      BY DEF Begun
    <3> HIDE DEF c, d, s
    <3>3. /\ c \in Calls /\ c.requests = {} /\ c.detached = d
          /\ c.op = call[t].op /\ c.role = call[t].role /\ c.key = call[t].key /\ c.next = call[t].next
      BY <1>2, <3>1, <3>2, BegunFields
    <3> QED BY <3>1, <3>3
  <2>3. /\ slot' \in Slots /\ slot'.state = "Draining" /\ slot'.key = slot.key /\ slot'.outer_owner_live = slot.outer_owner_live
        /\ slot'.endpoint_reference_live = slot.endpoint_reference_live
        /\ slot'.drain_driver_active /\ ~slot'.drain_retry_requested /\ ~slot'.detached_cleanup
    <3> HIDE DEF s
    <3> QED BY <1>3, <1>6 DEF Slots
  <2>4. slot.state # "Drained" /\ ~slot.drain_driver_active
    BY <1>3, <1>6
  <2>5. ResolveExact(call[t].key) /\ Locals(t, c)
    BY <1>6
  <2> HIDE DEF c
  <2> QED BY <1>1, <2>1, <2>2, <2>3, <2>4, <2>5, BecomesDriver
<1> QED BY <1>4, <1>5, <1>6 DEF DriveEnter

\* What a driver knows.
LEMMA DriverFacts ==
  ASSUME EInv, NEW t \in Threads, pc[t] \in Driving
  PROVE  /\ slot.drain_driver_active /\ slot.state = "Draining" /\ call[t].key = slot.key /\ slot.outer_owner_live /\ Up
         /\ ~slot.detached_cleanup /\ core.epoch = slot.key
         /\ \A u \in Threads : u # t => pc[u] \notin Driving /\ call[u].requests = {}
         /\ pc[t] # "cleanup" => call[t].requests = {}
         /\ call[t] \in Calls /\ pc[t] \in Underway /\ slot \in Slots
<1>1. /\ slot.drain_driver_active /\ call[t].key = slot.key /\ \A u \in Threads : u # t => pc[u] \notin Driving
  BY DEF EInv, DriverInv
<1>2. slot.state = "Draining" /\ slot.outer_owner_live /\ ~slot.detached_cleanup /\ Up /\ core.epoch = slot.key
  BY <1>1 DEF EInv, SlotInv, Up
<1>3. /\ \A u \in Threads : u # t => call[u].requests = {}
      /\ pc[t] # "cleanup" => call[t].requests = {}
  BY <1>1 DEF EInv, CallsInv, Driving
<1> QED BY <1>1, <1>2, <1>3 DEF EInv, CallsInv, StateTypes, EndpointTypeOK, Slots, Underway

\* Nobody but the driver is the driver after his step either.
LEMMA DriverAlone ==
  ASSUME EInv, NEW t \in Threads, pc[t] \in Driving, Moves(t), UNCHANGED slot
  PROVE  /\ \A u \in Threads : u # t => pc'[u] = pc[u] /\ call'[u] = call[u] /\ pc'[u] \notin Driving
         /\ \A u \in Threads : WillLook(u) => WillLook(u)'
         /\ DrainSeen'
<1>1. \A u \in Threads : u # t => pc'[u] = pc[u] /\ call'[u] = call[u] /\ pc'[u] \notin Driving
  BY DriverFacts DEF Moves
<1>2. ~WillLook(t)
  BY DEF WillLook, Driving, PinnedPlaces
<1>3. \A u \in Threads : WillLook(u) => WillLook(u)'
  BY <1>1, <1>2 DEF WillLook
<1>4. DrainSeen'
  BY DriverFacts DEF DrainSeen
<1> QED BY <1>1, <1>3, <1>4

\* ChannelCoreDrainExpected, first hold: a drain that cannot finalize leaves it to a pinned operation.
LEMMA DriveBeginKeeps == ASSUME EInv, NEW t \in Threads, DriveBegin(t), UNCHANGED ingressVars PROVE EInv'
<1> DEFINE c == [call[t] EXCEPT !.finalize = Quiescent]
<1>1. /\ pc[t] = "drain" /\ core' = [core EXCEPT !.state = "Draining", !.drain_driver_active = TRUE]
      /\ UNCHANGED <<ledger, table, port, object, endpointVars, fate, ingressVars>> /\ Locals(t, c) /\ Goto(t, "close")
      /\ {"close", "finish", "drain", "cleanup", "settle"} \subseteq Driving /\ {"close", "drain"} \subseteq Underway
      /\ "drain" \notin PinnedPlaces /\ "close" \notin PinnedPlaces
  BY DEF DriveBegin, DrainBegin, At, Underway, Driving, PinnedPlaces
<1>2. /\ slot.drain_driver_active /\ slot.state = "Draining" /\ call[t].key = slot.key
      /\ call[t].requests = {} /\ call[t] \in Calls
  BY <1>1, DriverFacts
<1>3. /\ c \in Calls /\ c.requests = {} /\ (c.finalize <=> core.pins = {}) /\ c.detached = call[t].detached
      /\ c.op = call[t].op /\ c.role = call[t].role /\ c.key = call[t].key /\ c.next = call[t].next
  <2>1. Quiescent \in BOOLEAN
    BY DEF Quiescent
  <2> QED BY <1>2, <2>1 DEF Calls, Quiescent
<1> HIDE DEF c
<1>4. Moves(t) /\ CallsInv' /\ pc'[t] = "close" /\ call'[t] = c
  BY <1>1, <1>3, DriverCall
<1>5. UNCHANGED <<slot, generation, handle, refcount>>
  BY <1>1 DEF endpointVars
<1>6. OwnerInv' /\ ReferenceInv' /\ HandsKept(t)
  BY <1>1, <1>2, <1>3, <1>4, <1>5, DrivesOn
<1>7. /\ Active /\ ~core.drain_driver_active /\ call[t].detached = "none"
  BY <1>1 DEF EInv, DriverInv
<1>8. /\ core'.state = "Draining" /\ core'.drain_driver_active /\ core'.epoch = core.epoch /\ core'.pins = core.pins
      /\ core'.ports_close_notified = core.ports_close_notified /\ core'.attached = core.attached
      /\ core'.request_ledgers_drained = core.request_ledgers_drained
      /\ core' \in [state: CoreStates, epoch: Nat, pins: SUBSET Threads, drain_driver_active: BOOLEAN,
               ports_close_notified: BOOLEAN, request_ledgers_drained: BOOLEAN, attached: BOOLEAN]
  BY <1>1 DEF EInv, StateTypes, EndpointTypeOK, CoreTypeOK, CoreStates
<1>9. /\ \A u \in Threads : u # t => pc'[u] = pc[u] /\ call'[u] = call[u] /\ pc'[u] \notin Driving
      /\ \A u \in Threads : WillLook(u) => WillLook(u)'
      /\ DrainSeen'
  BY <1>1, <1>4, <1>5, DriverAlone
<1>10. SlotInv'
  BY <1>2, <1>5, <1>7, <1>8, <1>1 DEF EInv, SlotInv, Up, Active
<1>11. CoreInv'
  BY <1>1, <1>4, <1>7, <1>8, <1>9 DEF EInv, CoreInv, Active
<1>12. DriverInv'
  <2>1. c.finalize \/ \E u \in Threads : WillLook(u)'
    <3>1. ASSUME ~c.finalize PROVE \E u \in Threads : WillLook(u)
      <4>1. PICK u \in core.pins : TRUE
        BY <1>3, <3>1
      <4>2. u \in Threads /\ pc[u] \in PinnedPlaces
        BY <4>1 DEF EInv, CoreInv, StateTypes, EndpointTypeOK, CoreTypeOK
      <4>3. WillLook(u)
        BY <4>2 DEF EInv, ReferenceInv, HoldsReference, WillLook
      <4> QED BY <4>2, <4>3
    <3> QED BY <1>9, <3>1
  <2> QED BY <1>1, <1>2, <1>3, <1>4, <1>5, <1>7, <1>8, <1>9, <2>1 DEF DriverInv
<1>13. RequestInv' /\ HolderInv' /\ ReceiptInv' /\ ObjectInv'
  <2>1. (Active' => Active) /\ slot'.key = slot.key /\ Built' = Built /\ UNCHANGED dataVars
    BY <1>1, <1>5, <1>7 DEF Built, dataVars
  <2> QED BY <1>4, <1>6, <2>1, DataKept
<1>14. StateTypes'
  BY <1>1, <1>5, <1>8 DEF EInv, StateTypes, EndpointTypeOK, CoreTypeOK, ingressVars
<1> QED BY <1>4, <1>6, <1>10, <1>11, <1>12, <1>13, <1>14 DEF EInv

\* No operation is pinned: nobody has a request, a receipt or the object in his hands.
LEMMA NoPins ==
  ASSUME EInv, core.pins = {}
  PROVE  /\ \A u \in Threads : pc[u] \notin PinnedPlaces /\ ~Offers(u) /\ ~Answers(u) /\ ~HasToken(u) /\ ~Imports(u)
         /\ {u \in Threads : Imports(u)} = {} /\ \A r \in Rows : Importers(r) = {}
         /\ table.active_operations = 0 /\ \A r \in Rows : table.rows[r].pins = 0
<1>1. \A u \in Threads : pc[u] \notin PinnedPlaces
  BY DEF EInv, CoreInv
<1>2. \A u \in Threads : ~Offers(u) /\ ~Answers(u) /\ ~HasToken(u) /\ ~Imports(u)
  BY <1>1 DEF PinnedPlaces, Offers, Answers, Replying, HasToken, Claimant, Imports
<1>3. {u \in Threads : Imports(u)} = {} /\ \A r \in Rows : Importers(r) = {}
  BY <1>2 DEF Importers
<1>4. table.active_operations = 0 /\ \A r \in Rows : table.rows[r].pins = 0
  BY <1>3, FS_EmptySet DEF EInv, ObjectInv, PinsInv
<1> QED BY <1>1, <1>2, <1>3, <1>4

\* ObjectTransferTableClose when no import is under way.
LEMMA ClosedTable ==
  ASSUME NEW x \in Tables, x.active_operations = 0, \A r \in Rows : x.rows[r].pins = 0,
         \A r \in Rows : x.rows[r].state = "Free" => x.rows[r].generation < kObjectTransferGenerationMax
  PROVE  /\ CloseStatus(x) = "Ok" /\ TableClosed(x) \in Tables /\ TableClosed(x).state = "Closed"
         /\ TableClosed(x).active_operations = 0 /\ Holding(TableClosed(x)) = {}
         /\ \A r \in Rows : /\ TableClosed(x).rows[r].pins = 0
                            /\ TableClosed(x).rows[r].state = "Free" => TableClosed(x).rows[r].generation < kObjectTransferGenerationMax
<1>1. CloseStatus(x) = "Ok"
  BY DEF CloseStatus
<1> DEFINE rows == [r \in Rows |-> IF r \notin Holding(x) THEN x.rows[r] ELSE Cleared(x.rows[r])]
<1>2. TableClosed(x) = [x EXCEPT !.state = "Closed", !.rows = rows]
  BY <1>1 DEF TableClosed
<1>3. \A r \in Rows : /\ rows[r] \in TransferRows /\ rows[r].pins = 0 /\ rows[r].state \in {"Free", "Retired"}
                      /\ rows[r].state = "Free" => rows[r].generation < kObjectTransferGenerationMax
  <2>1. \A r \in Rows : x.rows[r] \in TransferRows
    BY DEF Tables, TransferRows
  <2>2. ASSUME NEW r \in Rows, r \in Holding(x)
        PROVE  /\ rows[r] \in TransferRows /\ rows[r].pins = 0 /\ rows[r].state \in {"Free", "Retired"}
               /\ rows[r].state = "Free" => rows[r].generation < kObjectTransferGenerationMax
    BY <2>1, <2>2, ClearedFields
  <2>3. ASSUME NEW r \in Rows, r \notin Holding(x)
        PROVE  /\ rows[r] \in TransferRows /\ rows[r].pins = 0 /\ rows[r].state \in {"Free", "Retired"}
               /\ rows[r].state = "Free" => rows[r].generation < kObjectTransferGenerationMax
    BY <2>1, <2>3 DEF Holding, TransferRows
  <2> QED BY <2>2, <2>3
<1>4. rows \in [Rows -> TransferRows]
  BY <1>3
<1> HIDE DEF rows
<1>5. /\ TableClosed(x) \in Tables /\ TableClosed(x).state = "Closed" /\ TableClosed(x).active_operations = 0
      /\ TableClosed(x).rows = rows
  BY <1>2, <1>4 DEF Tables, TransferRows
<1>6. Holding(TableClosed(x)) = {}
  BY <1>3, <1>5 DEF Holding
<1> QED BY <1>1, <1>3, <1>5, <1>6

\* A table in which nothing is pinned or held.
LEMMA EmptyTable ==
  ASSUME EInv, \A u \in Threads : ~Imports(u)', Holding(table') = {}, table'.active_operations = 0,
         \A r \in Rows : /\ table'.rows[r].pins = 0
                         /\ table'.rows[r].state = "Free" => table'.rows[r].generation < kObjectTransferGenerationMax,
         Carriers' = Carriers, UNCHANGED <<source, destination>>, object' = object - Cardinality(Holding(table))
  PROVE  ObjectInv' /\ object' \in Nat
<1>1. {u \in Threads : Imports(u)'} = {} /\ \A r \in Rows : Importers(r)' = {}
  BY DEF Importers
<1>2. PinsInv'
  BY <1>1, FS_EmptySet DEF PinsInv
<1>3. RowsInv' /\ ImportInv'
  BY DEF RowsInv, ImportInv
<1>4. Cardinality(Holding(table)) \in Nat /\ Cardinality(Carriers) \in Nat
  <2>1. Holding(table) \in SUBSET Rows /\ Carriers \in SUBSET Threads
    BY DEF Holding, Carriers
  <2> QED BY <2>1, SomeMember, ObjectTransferAssumption, ChannelCoreAssumption
<1>5. CountInv' /\ object' \in Nat
  <2>1. Cardinality(Holding(table')) = 0
    BY FS_EmptySet
  <2> DEFINE a == IF source THEN 1 ELSE 0  b == IF destination = "live" THEN 1 ELSE 0
  <2>2. a \in 0..1 /\ b \in 0..1
    OBVIOUS
  <2>3. object = Cardinality(Holding(table)) + Cardinality(Carriers) + a + b
    BY DEF EInv, ObjectInv, CountInv
  <2> HIDE DEF a, b
  <2>4. object' = Cardinality(Holding(table')) + Cardinality(Carriers) + a + b /\ object' \in Nat
    BY <1>4, <2>1, <2>2, <2>3
  <2> QED BY <2>4 DEF CountInv, a, b
<1> QED BY <1>2, <1>3, <1>5 DEF ObjectInv

\* The ports close, and the table too when no operation is pinned.
LEMMA DriveCloseKeeps == ASSUME EInv, NEW t \in Threads, DriveClose(t), UNCHANGED ingressVars PROVE EInv'
<1>1. /\ pc[t] = "close" /\ port' = [port EXCEPT !.closed = TRUE] /\ Goto(t, "finish") /\ UNCHANGED call
      /\ UNCHANGED <<core, ledger, endpointVars, fate, ingressVars>>
      /\ {"close", "finish", "drain", "cleanup", "settle"} \subseteq Driving /\ {"close", "finish"} \subseteq Underway
      /\ "finish" \notin PinnedPlaces /\ "close" \notin PinnedPlaces
  BY DEF DriveClose, DrainClose, At, Underway, Driving, PinnedPlaces
<1>2. /\ slot.drain_driver_active /\ slot.state = "Draining" /\ call[t].key = slot.key
      /\ call[t].requests = {} /\ call[t] \in Calls
  BY <1>1, DriverFacts
<1>3. Moves(t) /\ CallsInv' /\ pc'[t] = "finish" /\ call'[t] = call[t]
  BY <1>1, <1>2, DriverCall, KeepsLocals
<1>4. UNCHANGED <<slot, generation, handle, refcount, receipt, source, destination, mix>>
  BY <1>1 DEF endpointVars, ingressVars
<1>5. OwnerInv' /\ ReferenceInv' /\ HandsKept(t)
  BY <1>1, <1>2, <1>3, <1>4, DrivesOn
<1>6. /\ core.state = "Draining" /\ core.drain_driver_active /\ call[t].detached = "none"
      /\ IF call[t].finalize THEN core.pins = {} ELSE slot.drain_retry_requested \/ \E u \in Threads : WillLook(u)
  BY <1>1 DEF EInv, DriverInv
<1>7. /\ \A u \in Threads : u # t => pc'[u] = pc[u] /\ call'[u] = call[u] /\ pc'[u] \notin Driving
      /\ \A u \in Threads : WillLook(u) => WillLook(u)'
      /\ DrainSeen'
  BY <1>1, <1>3, <1>4, DriverAlone
<1>8. /\ table' \in Tables /\ ObjectInv' /\ object' \in Nat
      /\ IF call[t].finalize THEN table'.state = "Closed" ELSE table' = table
  <2>1. CASE call[t].finalize
    <3>1. /\ \A u \in Threads : ~Imports(u)
          /\ table.active_operations = 0 /\ \A r \in Rows : table.rows[r].pins = 0
      BY <1>6, <2>1, NoPins
    <3>2. table' = TableClosed(table) /\ object' = IF CloseStatus(table) = "Ok" THEN object - Cardinality(Holding(table)) ELSE object
      BY <2>1 DEF DriveClose, DrainClose
    <3>3. table \in Tables /\ \A r \in Rows : table.rows[r].state = "Free" => table.rows[r].generation < kObjectTransferGenerationMax
      BY TypeParts DEF EInv, ObjectInv, RowsInv
    <3>4. /\ CloseStatus(table) = "Ok" /\ table' \in Tables /\ table'.state = "Closed"
          /\ table'.active_operations = 0 /\ Holding(table') = {}
          /\ \A r \in Rows : /\ table'.rows[r].pins = 0
                             /\ table'.rows[r].state = "Free" => table'.rows[r].generation < kObjectTransferGenerationMax
      BY <3>1, <3>2, <3>3, ClosedTable
    <3>5. \A u \in Threads : ~Imports(u)'
      BY <1>3, <1>7, <3>1 DEF Imports
    <3>6. Carriers' = Carriers
      BY <1>1, <1>3, <1>7 DEF Carriers
    <3> QED BY <1>4, <2>1, <3>2, <3>4, <3>5, <3>6, EmptyTable
  <2>2. CASE ~call[t].finalize
    <3>1. UNCHANGED <<table, object>>
      BY <2>2 DEF DriveClose, DrainClose
    <3> QED BY <1>3, <1>4, <1>5, <2>2, <3>1, ObjectKept, TypeParts DEF EInv, HandsKept
  <2> QED BY <2>1, <2>2
<1>9. SlotInv'
  BY <1>1, <1>4 DEF EInv, SlotInv, Up, Active
<1>10. CoreInv'
  BY <1>1, <1>3, <1>6, <1>7, <1>8 DEF EInv, CoreInv, Active
<1>11. DriverInv'
  BY <1>1, <1>2, <1>3, <1>4, <1>6, <1>7, <1>8 DEF DriverInv
<1>12. port' \in Ports /\ port'.queue = port.queue
  BY <1>1, TypeParts DEF EInv, Ports
<1>13. StateTypes'
  BY <1>1, <1>4, <1>8, <1>12, TypeParts, DataTypes DEF EInv
<1>14. RequestInv'
  BY <1>1, <1>3, RequestsKept DEF EInv
<1>15. HolderInv'
  <2>1. \A r \in Receipts : Owed(r)' => Owed(r) /\ receipt'[r].id = receipt[r].id
    BY <1>4 DEF Owed
  <2> QED BY <1>1, <1>3, <1>5, <1>12, <2>1, HoldersKept DEF EInv, HandsKept, Active
<1>16. ReceiptInv'
  BY <1>3, <1>4, <1>5, ReceiptsKept DEF EInv, HandsKept, Built
<1> QED BY <1>3, <1>5, <1>8, <1>9, <1>10, <1>11, <1>13, <1>14, <1>15, <1>16 DEF EInv

\* The second hold of a drain that detaches: the requests pass from the ledger to the driver.
LEMMA DriveDetaches ==
  ASSUME EInv, NEW t \in Threads, pc[t] = "finish", DrainEnd(call[t].finalize), DrainDetaches(call[t].finalize),
         Goto(t, "cleanup"), Locals(t, [call[t] EXCEPT !.detached = "complete", !.requests = LiveRequests(ledger)]),
         UNCHANGED <<endpointVars, fate, ingressVars>>
  PROVE  EInv'
<1> DEFINE c == [call[t] EXCEPT !.detached = "complete", !.requests = LiveRequests(ledger)]
<1>1. /\ {"close", "finish", "drain", "cleanup", "settle"} \subseteq Driving /\ {"cleanup", "finish"} \subseteq Underway
      /\ "finish" \notin PinnedPlaces /\ "cleanup" \notin PinnedPlaces
      /\ UNCHANGED <<table, port, object, slot, generation, handle, refcount, receipt, source, destination, mix>>
  BY DEF DrainEnd, Underway, Driving, PinnedPlaces, endpointVars, ingressVars
<1>2. /\ slot.drain_driver_active /\ slot.state = "Draining" /\ call[t].key = slot.key /\ core.epoch = slot.key
      /\ call[t].requests = {} /\ call[t] \in Calls /\ \A u \in Threads : u # t => call[u].requests = {}
  BY <1>1, DriverFacts
<1>3. /\ c \in Calls /\ c.requests = LiveRequests(ledger) /\ c.detached = "complete"
      /\ c.op = call[t].op /\ c.role = call[t].role /\ c.key = call[t].key /\ c.next = call[t].next /\ Locals(t, c)
  <2>1. LiveRequests(ledger) \in SUBSET RequestIds
    BY DEF LiveRequests
  <2> QED BY <1>2, <2>1 DEF Calls
<1> HIDE DEF c
<1>4. Moves(t) /\ CallsInv' /\ pc'[t] = "cleanup" /\ call'[t] = c
  BY <1>1, <1>3, DriverCall
<1>5. OwnerInv' /\ ReferenceInv'
  BY <1>1, <1>2, <1>3, <1>4, DrivesOn
<1>6. core.pins = {} /\ table.state = "Closed"
  BY DEF DrainDetaches, Quiescent
<1>7. /\ core'.state = "Drained" /\ ~core'.drain_driver_active /\ core'.epoch = core.epoch /\ core'.pins = {}
      /\ core'.ports_close_notified /\ ~core'.attached /\ core'.request_ledgers_drained
      /\ core' \in [state: CoreStates, epoch: Nat, pins: SUBSET Threads, drain_driver_active: BOOLEAN,
               ports_close_notified: BOOLEAN, request_ledgers_drained: BOOLEAN, attached: BOOLEAN]
  <2> DEFINE ended == [core EXCEPT !.ports_close_notified = TRUE, !.drain_driver_active = FALSE]
  <2>1. core' = [ended EXCEPT !.state = "Drained", !.attached = FALSE, !.request_ledgers_drained = TRUE]
    BY DEF DrainEnd
  <2> QED BY <1>6, <2>1 DEF EInv, StateTypes, EndpointTypeOK, CoreTypeOK, CoreStates
<1>8. /\ ledger' \in Ledgers /\ ledger'.state = "Draining" /\ ledger'.identity = ledger.identity /\ ledger'.next_request_id = 0
      /\ \A id \in RequestIds : ledger'.slots[id] = "Free"
  <2>1. ledger' = LedgerDrained(ledger) /\ ledger \in Ledgers
    BY TypeParts DEF DrainEnd, EInv
  <2>2. NoRequests \in [RequestIds -> SlotStates] /\ 0 \in 0..kEndpointRequestIdMaximum
    BY EndpointRequestLedgerAssumption DEF NoRequests, SlotStates
  <2> QED BY <2>1, <2>2 DEF LedgerDrained, Ledgers, NoRequests
<1>9. /\ \A u \in Threads : u # t => pc'[u] = pc[u] /\ call'[u] = call[u] /\ pc'[u] \notin Driving
      /\ DrainSeen'
  BY <1>1, <1>4, DriverAlone
<1>10. /\ \A u \in Threads : pc[u] \notin PinnedPlaces /\ ~Offers(u) /\ ~Answers(u) /\ ~HasToken(u) /\ ~Imports(u)
  BY <1>6, NoPins
<1>11. SlotInv'
  BY <1>1, <1>2, <1>7, <1>8 DEF EInv, SlotInv, Up, Active
<1>12. CoreInv'
  BY <1>1, <1>4, <1>6, <1>7, <1>8, <1>9, <1>10 DEF CoreInv, Active
<1>13. DriverInv'
  BY <1>1, <1>2, <1>3, <1>4, <1>7, <1>9 DEF DriverInv
<1>14. RequestInv'
  <2>1. LiveRequests(ledger') = {}
    BY <1>8 DEF LiveRequests
  <2>2. LedgerIsCanonical(ledger')
    BY <1>8, <2>1, FS_EmptySet, EndpointRequestLedgerAssumption DEF LedgerIsCanonical
  <2>3. \A id \in RequestIds : (\E u \in Threads : id \in call'[u].requests) <=> ledger.slots[id] # "Free"
    BY <1>2, <1>3, <1>4, <1>9 DEF LiveRequests
  <2>4. \A id \in RequestIds : fate[id] # "twice" /\ (fate[id] = "live" <=> ledger.slots[id] # "Free")
    BY <1>2 DEF EInv, RequestInv
  <2> QED BY <1>8, <2>2, <2>3, <2>4 DEF RequestInv
<1>15. \A u \in Threads : ~Offers(u)' /\ ~Answers(u)' /\ ~HasToken(u)' /\ ~Claimant(u)'
  <2>1. \A u \in Threads : pc'[u] \notin PinnedPlaces
    BY <1>1, <1>4, <1>9, <1>10
  <2> QED BY <2>1 DEF PinnedPlaces, Offers, Answers, Replying, HasToken, Claimant
<1>16. HolderInv'
  BY <1>7, <1>15 DEF HolderInv, QueueInv, OwedInv, OfferInv, AnswerInv, Active
<1>17. ReceiptInv'
  BY <1>1, <1>4, <1>15, ReceiptsKept DEF EInv, Built
<1>18. ObjectInv'
  BY <1>1, <1>4, ObjectKept DEF EInv, Imports, Carriers
<1>19. StateTypes'
  BY <1>1, <1>7, <1>8 DEF EInv, StateTypes, EndpointTypeOK, CoreTypeOK
<1> QED BY <1>4, <1>5, <1>11, <1>12, <1>13, <1>14, <1>16, <1>17, <1>18, <1>19 DEF EInv

\* The second hold of a drain that waits for pinned operations.
LEMMA DriveBusy ==
  ASSUME EInv, NEW t \in Threads, pc[t] = "finish", DrainEnd(call[t].finalize), ~DrainDetaches(call[t].finalize),
         Goto(t, "settle"), Locals(t, [call[t] EXCEPT !.result = "Busy"]), UNCHANGED <<endpointVars, fate, ingressVars>>
  PROVE  EInv'
<1> DEFINE c == [call[t] EXCEPT !.result = "Busy"]
<1>1. /\ {"close", "finish", "drain", "cleanup", "settle"} \subseteq Driving /\ {"settle", "finish"} \subseteq Underway
      /\ "finish" \notin PinnedPlaces /\ "settle" \notin PinnedPlaces
      /\ UNCHANGED <<ledger, table, port, object, slot, generation, handle, refcount, receipt, source, destination, mix>>
  BY DEF DrainEnd, Underway, Driving, PinnedPlaces, endpointVars, ingressVars
<1>2. /\ slot.drain_driver_active /\ slot.state = "Draining" /\ call[t].key = slot.key
      /\ call[t].requests = {} /\ call[t] \in Calls
  BY <1>1, DriverFacts
<1>3. /\ c \in Calls /\ c.requests = {} /\ c.detached = call[t].detached /\ c.result = "Busy"
      /\ c.op = call[t].op /\ c.role = call[t].role /\ c.key = call[t].key /\ c.next = call[t].next /\ Locals(t, c)
  BY <1>2 DEF Calls
<1> HIDE DEF c
<1>4. Moves(t) /\ CallsInv' /\ pc'[t] = "settle" /\ call'[t] = c
  BY <1>1, <1>3, DriverCall
<1>5. OwnerInv' /\ ReferenceInv' /\ HandsKept(t)
  BY <1>1, <1>2, <1>3, <1>4, DrivesOn
<1>6. /\ core.state = "Draining" /\ call[t].detached = "none" /\ ~call[t].finalize
      /\ slot.drain_retry_requested \/ \E u \in Threads : WillLook(u)
  BY DEF EInv, DriverInv, DrainDetaches, Quiescent
<1>7. /\ core'.state = "Draining" /\ ~core'.drain_driver_active /\ core'.epoch = core.epoch /\ core'.pins = core.pins
      /\ core'.attached = core.attached /\ core'.request_ledgers_drained = core.request_ledgers_drained
      /\ core' \in [state: CoreStates, epoch: Nat, pins: SUBSET Threads, drain_driver_active: BOOLEAN,
               ports_close_notified: BOOLEAN, request_ledgers_drained: BOOLEAN, attached: BOOLEAN]
  <2>1. core \in [state: CoreStates, epoch: Nat, pins: SUBSET Threads, drain_driver_active: BOOLEAN,
               ports_close_notified: BOOLEAN, request_ledgers_drained: BOOLEAN, attached: BOOLEAN]
    BY DEF EInv, StateTypes, EndpointTypeOK, CoreTypeOK
  <2>2. core' = [core EXCEPT !.ports_close_notified = TRUE, !.drain_driver_active = FALSE]
    BY DEF DrainEnd
  <2> QED BY <1>6, <2>1, <2>2
<1>8. /\ \A u \in Threads : u # t => pc'[u] = pc[u] /\ call'[u] = call[u] /\ pc'[u] \notin Driving
      /\ \A u \in Threads : WillLook(u) => WillLook(u)'
      /\ DrainSeen'
  BY <1>1, <1>4, DriverAlone
<1>9. SlotInv'
  BY <1>1, <1>2, <1>6, <1>7 DEF EInv, SlotInv, Up, Active
<1>10. CoreInv'
  BY <1>1, <1>4, <1>6, <1>7, <1>8 DEF EInv, CoreInv, Active
<1>11. DriverInv'
  BY <1>1, <1>2, <1>3, <1>4, <1>6, <1>7, <1>8 DEF DriverInv
<1>12. RequestInv' /\ HolderInv' /\ ReceiptInv' /\ ObjectInv'
  <2>1. (Active' => Active) /\ slot'.key = slot.key /\ Built' = Built /\ UNCHANGED dataVars
    BY <1>1, <1>6 DEF Active, Built, dataVars, ingressVars
  <2> QED BY <1>4, <1>5, <2>1, DataKept
<1>13. StateTypes'
  BY <1>1, <1>7 DEF EInv, StateTypes, EndpointTypeOK, CoreTypeOK
<1> QED BY <1>4, <1>5, <1>9, <1>10, <1>11, <1>12, <1>13 DEF EInv

\* ChannelCoreDrainExpected, second hold.
LEMMA DriveEndKeeps == ASSUME EInv, NEW t \in Threads, DriveEnd(t), UNCHANGED ingressVars PROVE EInv'
<1>1. pc[t] = "finish" /\ DrainEnd(call[t].finalize) /\ UNCHANGED <<endpointVars, fate, ingressVars>>
  BY DEF DriveEnd, At
<1>2. CASE DrainDetaches(call[t].finalize)
  <2>1. Goto(t, "cleanup") /\ Locals(t, [call[t] EXCEPT !.detached = "complete", !.requests = LiveRequests(ledger)])
    BY <1>2 DEF DriveEnd
  <2> QED BY <1>1, <1>2, <2>1, DriveDetaches
<1>3. CASE ~DrainDetaches(call[t].finalize)
  <2>1. Goto(t, "settle") /\ Locals(t, [call[t] EXCEPT !.result = "Busy"])
    BY <1>3 DEF DriveEnd
  <2> QED BY <1>1, <1>3, <2>1, DriveBusy
<1> QED BY <1>2, <1>3

\* The end of requests that are live.
LEMMA EndedFates ==
  ASSUME StateTypes, NEW S \in SUBSET RequestIds, \A id \in S : fate[id] = "live", fate' = Ended(S)
  PROVE  /\ fate' \in [RequestIds -> Fates]
         /\ \A id \in RequestIds : fate'[id] = IF id \in S THEN "ended" ELSE fate[id]
<1>1. fate \in [RequestIds -> Fates]
  BY TypeParts
<1>2. \A id \in RequestIds : fate'[id] = IF id \in S THEN "ended" ELSE fate[id]
  BY DEF Ended
<1>3. \A id \in RequestIds : fate'[id] \in Fates
  BY <1>1, <1>2 DEF Fates
<1> QED BY <1>2, <1>3 DEF Ended

\* The cleanup of what a drain detached.
LEMMA DriveCleanupKeeps == ASSUME EInv, NEW t \in Threads, DriveCleanup(t), UNCHANGED ingressVars PROVE EInv'
<1>1. /\ pc[t] = "cleanup" /\ fate' = Ended(call[t].requests) /\ Goto(t, "settle")
      /\ {"close", "finish", "drain", "cleanup", "settle"} \subseteq Driving /\ {"settle", "cleanup"} \subseteq Underway
      /\ "settle" \notin PinnedPlaces /\ "cleanup" \notin PinnedPlaces
      /\ UNCHANGED <<core, ledger, object, slot, generation, handle, refcount, receipt, source, destination, mix>>
  BY DEF DriveCleanup, ReleaseDetached, At, Underway, Driving, PinnedPlaces, endpointVars, ingressVars, coreVars
<1>2. /\ slot.drain_driver_active /\ slot.state = "Draining" /\ call[t].key = slot.key
      /\ call[t] \in Calls /\ \A u \in Threads : u # t => call[u].requests = {}
  BY <1>1, DriverFacts
<1>3. PICK c \in Calls :
        /\ Locals(t, c) /\ c.requests = {}
        /\ \/ c.detached = "none" /\ c.result = "Ok"
           \/ c.detached = "charge" /\ c.result = "ResourceReleaseFailed"
        /\ c.op = call[t].op /\ c.role = call[t].role /\ c.key = call[t].key /\ c.next = call[t].next
  <2>1. PICK released \in BOOLEAN :
          Locals(t, [call[t] EXCEPT !.requests = {}, !.detached = IF released THEN "none" ELSE "charge",
                                    !.result = IF released THEN "Ok" ELSE "ResourceReleaseFailed"])
    BY DEF DriveCleanup
  <2> DEFINE d == [call[t] EXCEPT !.requests = {}, !.detached = "none", !.result = "Ok"]
             e == [call[t] EXCEPT !.requests = {}, !.detached = "charge", !.result = "ResourceReleaseFailed"]
  <2>2. Locals(t, d) \/ Locals(t, e)
    BY <2>1
  <2>3. /\ d \in Calls /\ d.requests = {} /\ d.detached = "none" /\ d.result = "Ok"
        /\ d.op = call[t].op /\ d.role = call[t].role /\ d.key = call[t].key /\ d.next = call[t].next
    BY <1>2 DEF Calls
  <2>4. /\ e \in Calls /\ e.requests = {} /\ e.detached = "charge" /\ e.result = "ResourceReleaseFailed"
        /\ e.op = call[t].op /\ e.role = call[t].role /\ e.key = call[t].key /\ e.next = call[t].next
    BY <1>2 DEF Calls
  <2> HIDE DEF d, e
  <2> QED BY <2>2, <2>3, <2>4
<1>4. Moves(t) /\ CallsInv' /\ pc'[t] = "settle" /\ call'[t] = c
  BY <1>1, <1>3, DriverCall
<1>5. OwnerInv' /\ ReferenceInv'
  BY <1>1, <1>2, <1>3, <1>4, DrivesOn
<1>6. core.state = "Drained" /\ ~core.drain_driver_active /\ core.pins = {} /\ table.state \in {"Closed", "Uninitialized"}
      /\ ledger.state = "Draining"
  BY <1>1 DEF EInv, DriverInv, CoreInv, Active
<1>7. /\ \A u \in Threads : u # t => pc'[u] = pc[u] /\ call'[u] = call[u] /\ pc'[u] \notin Driving
      /\ DrainSeen'
  BY <1>1, <1>4, DriverAlone
<1>8. /\ \A u \in Threads : pc[u] \notin PinnedPlaces /\ ~Imports(u)
      /\ table.active_operations = 0 /\ \A r \in Rows : table.rows[r].pins = 0
  BY <1>6, NoPins
<1>9. \A u \in Threads : pc'[u] \notin PinnedPlaces
  BY <1>1, <1>4, <1>7, <1>8
<1>10. \A u \in Threads : ~Offers(u)' /\ ~Answers(u)' /\ ~HasToken(u)' /\ ~Claimant(u)' /\ ~Imports(u)'
  BY <1>9 DEF PinnedPlaces, Offers, Answers, Replying, HasToken, Claimant, Imports
<1>11. /\ table' \in Tables /\ port' \in Ports /\ table'.state \in {"Closed", "Uninitialized"} /\ ObjectInv'
  <2>0. Carriers' = Carriers /\ Holding(table) = {} /\ object \in Nat
    BY <1>1, <1>4, <1>6, <1>7, TypeParts DEF Carriers, EInv, ObjectInv, RowsInv
  <2>1. CASE table' = NoTable /\ port' = NoPort
    <3>1. /\ NoTable \in Tables /\ NoTable.state = "Uninitialized" /\ NoTable.active_operations = 0 /\ Holding(NoTable) = {}
          /\ \A r \in Rows : NoTable.rows[r].pins = 0 /\ NoTable.rows[r].generation < kObjectTransferGenerationMax
      BY ObjectTransferAssumption DEF NoTable, Tables, FreeRow, Holding
    <3>2. object' = object - Cardinality(Holding(table))
      BY <1>1, <2>0, FS_EmptySet
    <3>3. ObjectInv'
      BY <1>1, <1>10, <2>0, <2>1, <3>1, <3>2, EmptyTable
    <3>4. NoPort \in Ports
      BY DEF NoPort, Ports
    <3> QED BY <2>1, <3>1, <3>3, <3>4
  <2>2. CASE UNCHANGED <<table, port>>
    <3>1. ObjectInv'
      BY <1>1, <1>4, <1>10, <2>0, <2>2, <1>8, ObjectKept DEF EInv
    <3> QED BY <1>6, <2>2, <3>1, TypeParts DEF EInv
  <2> QED BY <2>1, <2>2 DEF DriveCleanup, ReleaseDetached, coreVars
<1>12. SlotInv'
  BY <1>1 DEF EInv, SlotInv, Up, Active
<1>13. CoreInv'
  BY <1>1, <1>6, <1>9, <1>11 DEF EInv, CoreInv, Active
<1>14. DriverInv'
  BY <1>1, <1>2, <1>3, <1>4, <1>6, <1>7 DEF DriverInv
<1>15. /\ fate' \in [RequestIds -> Fates]
       /\ \A id \in RequestIds : fate'[id] = IF id \in call[t].requests THEN "ended" ELSE fate[id]
  <2>1. call[t].requests \in SUBSET RequestIds
    BY <1>2 DEF Calls
  <2>2. \A id \in call[t].requests : fate[id] = "live"
    BY <2>1 DEF EInv, RequestInv
  <2> QED BY <1>1, <2>1, <2>2, EndedFates DEF EInv
<1>16. RequestInv'
  <2>1. \A u \in Threads : call'[u].requests = {}
    BY <1>2, <1>3, <1>4, <1>7
  <2>2. \A id \in RequestIds : ledger.slots[id] = "Free"
    BY <1>6 DEF EInv, RequestInv, LedgerIsCanonical, LiveRequests
  <2>3. \A id \in RequestIds : fate[id] # "twice" /\ (fate[id] = "live" <=> id \in call[t].requests)
    BY <1>2, <2>2 DEF EInv, RequestInv
  <2>4. LedgerIsCanonical(ledger') /\ ledger'.state # "Open" /\ \A id \in RequestIds : ledger'.slots[id] = "Free"
    BY <1>1, <1>6, <2>2 DEF EInv, RequestInv
  <2>5. \A id \in RequestIds : fate'[id] # "twice" /\ fate'[id] # "live"
    BY <1>15, <2>3
  <2> QED BY <2>1, <2>4, <2>5 DEF RequestInv
<1>17. HolderInv'
  BY <1>1, <1>6, <1>10 DEF HolderInv, QueueInv, OwedInv, OfferInv, AnswerInv, Active
<1>18. ReceiptInv'
  BY <1>1, <1>4, <1>10, ReceiptsKept DEF EInv, Built
<1>19. StateTypes'
  BY <1>1, <1>11, <1>15, TypeParts, DataTypes DEF EInv, endpointVars
<1> QED BY <1>4, <1>5, <1>11, <1>12, <1>13, <1>14, <1>16, <1>17, <1>18, <1>19 DEF EInv

\* The last hold of a drain: a driver that leaves a drain unfinished leaves it to somebody.
LEMMA DriveSettleKeeps == ASSUME EInv, NEW t \in Threads, DriveSettle(t), UNCHANGED ingressVars PROVE EInv'
<1> DEFINE retry == call[t].result = "Busy" /\ slot.drain_retry_requested
           settled == [slot EXCEPT !.detached_cleanup = call[t].detached = "charge",
                              !.state = IF call[t].result = "Ok" THEN "Drained" ELSE @,
                              !.drain_retry_requested = FALSE,
                              !.drain_driver_active = retry]
<1>1. /\ pc[t] = "settle" /\ UNCHANGED <<generation, handle, refcount, fate, ingressVars>> /\ SetSlot(settled)
      /\ \/ retry /\ Goto(t, "drain") /\ Locals(t, [call[t] EXCEPT !.result = "Ok"])
         \/ ~retry /\ Continue(t, call[t].result)
      /\ {"close", "finish", "drain", "cleanup", "settle"} \subseteq Driving /\ {"settle", "drain"} \subseteq Underway
      /\ "settle" \notin PinnedPlaces /\ "drain" \notin PinnedPlaces
  BY DEF DriveSettle, At, Underway, Driving, PinnedPlaces
<1>2. /\ slot.drain_driver_active /\ slot.state = "Draining" /\ call[t].key = slot.key /\ slot.outer_owner_live
      /\ call[t].requests = {} /\ call[t] \in Calls /\ slot \in Slots
      /\ \A u \in Threads : u # t => pc[u] \notin Driving
  BY <1>1, DriverFacts
<1>3. /\ settled \in Slots /\ settled.key = slot.key /\ settled.outer_owner_live = slot.outer_owner_live
      /\ settled.endpoint_reference_live = slot.endpoint_reference_live
      /\ settled.state = (IF call[t].result = "Ok" THEN "Drained" ELSE "Draining")
      /\ (settled.detached_cleanup <=> call[t].detached = "charge")
      /\ ~settled.drain_retry_requested /\ (settled.drain_driver_active <=> retry)
  <2> DEFINE a == call[t].detached = "charge"  b == retry  d == IF call[t].result = "Ok" THEN "Drained" ELSE "Draining"
  <2>1. a \in BOOLEAN /\ b \in BOOLEAN /\ d \in SlotStatesOf
    BY DEF SlotStatesOf
  <2>2. settled = [slot EXCEPT !.detached_cleanup = a, !.state = d, !.drain_retry_requested = FALSE, !.drain_driver_active = b]
    BY <1>2
  <2> HIDE DEF a, b, d, settled
  <2>3. /\ settled \in Slots /\ settled.key = slot.key /\ settled.outer_owner_live = slot.outer_owner_live
        /\ settled.endpoint_reference_live = slot.endpoint_reference_live
        /\ settled.state = d /\ settled.detached_cleanup = a /\ settled.drain_retry_requested = FALSE /\ settled.drain_driver_active = b
    BY <1>2, <2>1, <2>2 DEF Slots
  <2> QED BY <2>3 DEF a, b, d
<1>4. slot' = settled /\ UNCHANGED coreVars
  BY <1>1, <1>2, <1>3 DEF SetSlot, Recyclable
<1>5. /\ slot' \in Slots /\ slot'.key = slot.key /\ slot'.outer_owner_live = slot.outer_owner_live
      /\ slot'.endpoint_reference_live = slot.endpoint_reference_live
      /\ slot'.state = (IF call[t].result = "Ok" THEN "Drained" ELSE "Draining")
      /\ (slot'.detached_cleanup <=> call[t].detached = "charge")
      /\ ~slot'.drain_retry_requested /\ (slot'.drain_driver_active <=> retry)
  BY <1>3, <1>4
<1> HIDE DEF settled
<1>6. /\ Up /\ Up' /\ slot'.state \in {"Draining", "Drained"} /\ Built' = Built
      /\ UNCHANGED <<core, ledger, table, port, object, receipt, source, destination, mix>> /\ UNCHANGED dataVars
  BY <1>1, <1>2, <1>4, <1>5 DEF Up, Built, coreVars, ingressVars, dataVars
<1>7. \/ /\ call[t].result = "Busy" /\ call[t].detached = "none" /\ core.state = "Draining" /\ ~core.drain_driver_active
         /\ slot.drain_retry_requested \/ \E u \in Threads : WillLook(u)
      \/ call[t].result = "Ok" /\ call[t].detached = "none" /\ core.state = "Drained"
      \/ call[t].result = "ResourceReleaseFailed" /\ call[t].detached = "charge" /\ core.state = "Drained"
  BY <1>1 DEF EInv, DriverInv
<1>8. StateTypes'
  BY <1>1, <1>5, <1>6 DEF EInv, StateTypes, EndpointTypeOK, CoreTypeOK, Slots
<1>9. SlotInv'
  BY <1>1, <1>2, <1>5, <1>6, <1>7 DEF EInv, SlotInv, Up, Active
<1>10. ~core.drain_driver_active
  BY <1>7 DEF EInv, CoreInv
<1>11. CASE retry
  <2> DEFINE c == [call[t] EXCEPT !.result = "Ok"]
  <2>1. Goto(t, "drain") /\ Locals(t, c)
    BY <1>1, <1>11
  <2>2. /\ c \in Calls /\ c.requests = {} /\ c.detached = call[t].detached
        /\ c.op = call[t].op /\ c.role = call[t].role /\ c.key = call[t].key /\ c.next = call[t].next
    BY <1>2 DEF Calls
  <2> HIDE DEF c
  <2>3. Moves(t) /\ CallsInv' /\ pc'[t] = "drain" /\ call'[t] = c
    BY <1>1, <2>1, <2>2, DriverCall
  <2>4. OwnerInv' /\ ReferenceInv' /\ HandsKept(t)
    BY <1>1, <1>2, <1>5, <1>6, <2>2, <2>3, DrivesOn
  <2>5. \A u \in Threads : u # t => pc'[u] = pc[u] /\ call'[u] = call[u] /\ pc'[u] \notin Driving
    BY <1>2, <2>3 DEF Moves
  <2>6. CoreInv'
    BY <1>1, <1>6, <1>10, <2>3, <2>5 DEF EInv, CoreInv, Active
  <2>7. DrainSeen'
    BY <1>5, <1>11 DEF DrainSeen
  <2>8. DriverInv'
    BY <1>1, <1>2, <1>5, <1>6, <1>7, <1>11, <2>2, <2>3, <2>5, <2>7 DEF DriverInv, Active
  <2>9. RequestInv' /\ HolderInv' /\ ReceiptInv' /\ ObjectInv'
    BY <1>5, <1>6, <2>3, <2>4, DataKept DEF Active
  <2> QED BY <1>8, <1>9, <2>3, <2>4, <2>6, <2>8, <2>9 DEF EInv
<1>12. CASE ~retry
  <2>1. Continue(t, call[t].result) /\ call[t].result \in {"Ok", "Busy", "StaleIdentity", "ResourceReleaseFailed", "RetainFailed"}
    BY <1>1, <1>7, <1>12
  <2>2. /\ Moves(t) /\ CallsInv' /\ pc'[t] \in Outside /\ pc'[t] # "destroy"
        /\ HoldsReference(t)' <=> HoldsReference(t)
        /\ HoldsReference(t) => call'[t].key = call[t].key /\ call'[t].role = call[t].role
        /\ Releases(t)' => Releases(t) /\ call'[t].key = call[t].key /\ call'[t].role = call[t].role /\ call'[t].op = call[t].op
    BY <1>1, <2>1, ContinueFacts
  <2>3. OwnerInv'
    BY <1>5, <1>6, <2>2, OwnerKept DEF EInv
  <2>4. ReferenceInv'
    BY <1>1, <1>5, <1>6, <2>2, ReferencesKept
  <2>5. HandsKept(t)
    BY <1>1, <2>2, OutsideKept DEF EInv
  <2>6. pc'[t] \notin Driving /\ pc'[t] \notin PinnedPlaces
    BY <2>2 DEF Outside
  <2>7. \A u \in Threads : u # t => pc'[u] = pc[u] /\ call'[u] = call[u] /\ pc'[u] \notin Driving
    BY <1>2, <2>2 DEF Moves
  <2>8. CoreInv'
    BY <1>1, <1>6, <1>10, <2>6, <2>7 DEF EInv, CoreInv, Active
  <2>9. DrainSeen'
    <3>1. CASE call[t].result = "Busy"
      <4>1. PICK u \in Threads : WillLook(u)
        BY <1>7, <1>12, <3>1
      <4>2. u # t
        BY <1>1, <4>1 DEF WillLook
      <4>3. WillLook(u)'
        BY <1>5, <2>7, <4>1, <4>2 DEF WillLook
      <4> QED BY <4>3 DEF DrainSeen
    <3>2. CASE call[t].result # "Busy"
      BY <1>5, <1>7, <3>2 DEF DrainSeen
    <3> QED BY <3>1, <3>2
  <2>10. DriverInv'
    <3>1. \A u \in Threads : pc'[u] \notin Driving
      BY <2>6, <2>7
    <3> QED BY <1>1, <1>5, <1>12, <2>9, <3>1 DEF DriverInv
  <2>11. RequestInv' /\ HolderInv' /\ ReceiptInv' /\ ObjectInv'
    BY <1>5, <1>6, <2>2, <2>5, DataKept DEF Active
  <2> QED BY <1>8, <1>9, <2>2, <2>3, <2>4, <2>8, <2>10, <2>11 DEF EInv
<1> QED BY <1>11, <1>12

-----------------------------------------------------------------------------
(* The handles to the object *)

\* A handle to the object is closed: DrainDestination, CloseImported and CloseSource.
LEMMA ObjectHandleKeeps ==
  ASSUME EInv, DrainDestination \/ CloseImported \/ CloseSource
  PROVE  EInv'
<1>1. /\ UNCHANGED <<core, ledger, port, table, endpointVars, fate, pc, call, receipt, mix>>
      /\ source' \in BOOLEAN /\ destination' \in {"free", "reserved", "live", "drained"}
  BY TypeParts DEF EInv, DrainDestination, CloseImported, CloseSource, SetDestination, SetTable
<1> DEFINE a == IF source THEN 1 ELSE 0  b == IF destination = "live" THEN 1 ELSE 0
           x == IF source' THEN 1 ELSE 0  y == IF destination' = "live" THEN 1 ELSE 0
<1>2. a \in 0..1 /\ b \in 0..1 /\ x \in 0..1 /\ y \in 0..1
  OBVIOUS
<1>3. object' = object + x + y - a - b
  <2>1. object \in Nat
    BY TypeParts DEF EInv
  <2>2. CASE DrainDestination
    BY <2>1, <2>2 DEF DrainDestination, SetDestination, SetTable
  <2>3. CASE CloseImported
    BY <2>1, <2>3 DEF CloseImported, SetDestination, SetTable
  <2>4. CASE CloseSource
    BY <2>1, <2>4 DEF CloseSource, SetTable
  <2> QED BY <2>2, <2>3, <2>4
<1>4. object = Cardinality(Holding(table)) + Cardinality(Carriers) + a + b
  BY DEF EInv, ObjectInv, CountInv
<1>5. Cardinality(Holding(table)) \in Nat /\ Cardinality(Carriers) \in Nat
  <2>1. Holding(table) \in SUBSET Rows /\ Carriers \in SUBSET Threads
    BY DEF Holding, Carriers
  <2> QED BY <2>1, SomeMember, ObjectTransferAssumption, ChannelCoreAssumption
<1>6. Carriers' = Carriers /\ Holding(table') = Holding(table)
  BY <1>1 DEF Carriers
<1> HIDE DEF a, b, x, y
<1>7. object' = Cardinality(Holding(table)) + Cardinality(Carriers) + x + y /\ object' \in Nat
  BY <1>2, <1>3, <1>4, <1>5
<1>8. CountInv'
  BY <1>6, <1>7 DEF CountInv, x, y
<1>9. ObjectInv'
  BY <1>1, <1>8 DEF EInv, ObjectInv, PinsInv, RowsInv, ImportInv, Imports, Importers
<1>10. CallsInv' /\ SlotInv' /\ CoreInv' /\ DriverInv' /\ OwnerInv' /\ ReferenceInv'
  BY <1>1, StillSlot
<1>11. StateTypes'
  BY <1>1, <1>7, TypeParts, DataTypes DEF EInv
<1>12. RequestInv'
  BY <1>1 DEF EInv, RequestInv
<1>13. UNCHANGED <<slot, generation>>
  BY <1>1 DEF endpointVars
<1>14. HolderInv'
  BY <1>1, <1>13 DEF EInv, HolderInv, QueueInv, OwedInv, OfferInv, AnswerInv, Active, Owed, Offers, Answers, Replying
<1>15. ReceiptInv'
  BY <1>1, <1>13 DEF EInv, ReceiptInv, RowInv, ClaimInv, Claimant, Replying, HasToken, Built
<1> QED BY <1>9, <1>10, <1>11, <1>12, <1>14, <1>15 DEF EInv

-----------------------------------------------------------------------------
(* Connecting *)

\* A slot without a channel: nobody is in it, and nothing of the last channel is left.
LEMMA NobodyThere ==
  ASSUME EInv, ~Up
  PROVE  /\ Deserted /\ \A r \in Roles : refcount[r] = 0 /\ handle[r] = "none" /\ ~slot.endpoint_reference_live[r]
         /\ core = NoCore /\ ledger = NoLedger /\ ~Active
         /\ table.state \in {"Closed", "Uninitialized"} /\ Holding(table) = {}
<1>1. /\ core = NoCore /\ ledger = NoLedger /\ ~slot.drain_driver_active
      /\ \A r \in Roles : ~slot.endpoint_reference_live[r]
  BY DEF EInv, SlotInv
<1>2. ~Active
  BY <1>1 DEF Active, NoCore
<1>3. table.state \in {"Closed", "Uninitialized"} /\ Holding(table) = {}
  BY <1>2 DEF EInv, CoreInv, ObjectInv, RowsInv
<1>4. \A r \in Roles : refcount[r] = 0 /\ handle[r] = "none" /\ \A u \in Threads : HoldsReference(u) => call[u].role # r
  BY ReferenceFacts
<1>5. ASSUME NEW u \in Threads
      PROVE  /\ ~HoldsReference(u) /\ ~Releases(u) /\ call[u].requests = {}
             /\ pc[u] \notin PinnedPlaces \cup Driving \cup {"destroy"}
  <2>1. call[u].role \in Roles
    BY DEF EInv, CallsInv, Calls
  <2>2. ~HoldsReference(u)
    BY <1>4, <2>1
  <2>3. ~Releases(u)
    BY DEF EInv, OwnerInv, Up
  <2>4. pc[u] \notin Driving
    BY <1>1 DEF EInv, DriverInv
  <2>5. pc[u] # "destroy"
    BY DEF EInv, ReferenceInv
  <2>6. pc[u] \notin PinnedPlaces
    BY <2>2 DEF HoldsReference
  <2>7. call[u].requests = {}
    BY <2>4 DEF EInv, CallsInv, Driving
  <2> QED BY <2>2, <2>3, <2>4, <2>5, <2>6, <2>7
<1>6. Deserted
  BY <1>5 DEF Deserted
<1> QED BY <1>1, <1>2, <1>3, <1>4, <1>6

\* No thread moves: a slot that nobody was in stays so, and nobody has anything in hand.
LEMMA StaysDeserted ==
  ASSUME EInv, Deserted, UNCHANGED <<pc, call>>
  PROVE  /\ CallsInv' /\ Deserted' /\ Carriers' = Carriers
         /\ \A u \in Threads : ~Offers(u)' /\ ~Answers(u)' /\ ~HasToken(u)' /\ ~Claimant(u)' /\ ~Imports(u)'
<1>1. CallsInv'
  BY DEF EInv, CallsInv
<1>2. Deserted'
  BY DEF Deserted, HoldsReference, Releases
<1>3. \A u \in Threads : ~Offers(u)' /\ ~Answers(u)' /\ ~HasToken(u)' /\ ~Claimant(u)' /\ ~Imports(u)'
  BY <1>2 DEF Deserted, PinnedPlaces, Offers, Answers, Replying, HasToken, Claimant, Imports
<1>4. Carriers' = Carriers
  BY DEF Carriers
<1> QED BY <1>1, <1>2, <1>3, <1>4

\* The receipts of channels that were built before, when nobody has a token.
LEMMA ReceiptsLeft ==
  ASSUME EInv, receipt' = receipt, Built \in Nat, Built' \in Nat, Built' >= Built,
         \A u \in Threads : ~HasToken(u)' /\ ~Claimant(u)'
  PROVE  ReceiptInv'
<1>1. \A r \in Receipts : receipt[r].key \in Nat
  BY TypeParts, ServiceEndpointAssumption DEF EInv, ReceiptRows
<1>2. \A r \in Receipts : RowInv(r)'
  BY <1>1 DEF EInv, ReceiptInv, RowInv
<1> QED BY <1>2 DEF ReceiptInv

\* A slot goes from one state without a channel to another.
LEMMA StaysDown ==
  ASSUME EInv, ~Up, UNCHANGED <<coreVars, handle, refcount, fate, pc, call, ingressVars>>, slot' \in Slots,
         generation' \in 0..kServiceEndpointGenerationMaximum,
         slot'.state \in {"Empty", "Constructing", "Retired"},
         slot'.state \in {"Empty", "Retired"} => slot'.key = 0,
         slot'.state = "Empty" => generation' < kServiceEndpointGenerationMaximum,
         slot'.state = "Constructing" => slot'.key = generation' /\ generation' > 0,
         ~slot'.outer_owner_live, ~slot'.drain_driver_active, ~slot'.drain_retry_requested, ~slot'.detached_cleanup,
         \A r \in Roles : ~slot'.endpoint_reference_live[r],
         Built \in Nat, Built' \in Nat, Built' >= Built
  PROVE  EInv'
<1>1. /\ Deserted /\ \A r \in Roles : refcount[r] = 0 /\ handle[r] = "none" /\ ~slot.endpoint_reference_live[r]
      /\ core = NoCore /\ ledger = NoLedger /\ ~Active
      /\ table.state \in {"Closed", "Uninitialized"} /\ Holding(table) = {}
  BY NobodyThere
<1>2. /\ CallsInv' /\ Deserted' /\ Carriers' = Carriers
      /\ \A u \in Threads : ~Offers(u)' /\ ~Answers(u)' /\ ~HasToken(u)' /\ ~Claimant(u)' /\ ~Imports(u)'
  BY <1>1, StaysDeserted
<1>3. UNCHANGED <<core, ledger, table, port, object, receipt, source, destination, mix>>
  BY DEF coreVars, ingressVars
<1>4. SlotInv' /\ CoreInv' /\ DriverInv' /\ OwnerInv' /\ ReferenceInv'
  <2>1. core' = NoCore /\ ledger' = NoLedger /\ table'.state \in {"Closed", "Uninitialized"}
    BY <1>1, <1>3
  <2>2. \A r \in Roles : ~slot'.endpoint_reference_live[r] /\ refcount'[r] = 0 /\ handle'[r] = "none"
    BY <1>1
  <2> QED BY <1>2, <2>1, <2>2, DownSlot
<1>5. RequestInv'
  BY <1>3 DEF EInv, RequestInv
<1>6. HolderInv'
  <2>1. ~Active'
    BY <1>1, <1>3 DEF Active
  <2> QED BY <1>2, <2>1 DEF HolderInv, QueueInv, OwedInv, OfferInv, AnswerInv
<1>7. ReceiptInv'
  BY <1>2, <1>3, ReceiptsLeft
<1>8. ObjectInv'
  BY <1>3 DEF EInv, ObjectInv, PinsInv, RowsInv, ImportInv, CountInv, Imports, Importers, Carriers
<1>9. StateTypes'
  BY <1>3 DEF EInv, StateTypes, EndpointTypeOK, CoreTypeOK, Slots
<1> QED BY <1>2, <1>4, <1>5, <1>6, <1>7, <1>8, <1>9 DEF EInv

\* CreateReserve: the slot's next generation.
LEMMA CreateReserveKeeps == ASSUME EInv, CreateReserve, UNCHANGED ingressVars PROVE EInv'
<1>1. /\ slot.state = "Empty" /\ ~Up /\ generation \in Nat /\ generation < kServiceEndpointGenerationMaximum
      /\ generation' = generation + 1 /\ slot' = [EmptySlot EXCEPT !.state = "Constructing", !.key = generation + 1]
      /\ UNCHANGED <<coreVars, handle, refcount, fate, pc, call, ingressVars>> /\ kServiceEndpointGenerationMaximum \in Nat
  BY ServiceEndpointAssumption DEF CreateReserve, EInv, SlotInv, Up, StateTypes, EndpointTypeOK
<1>2. generation' \in 0..kServiceEndpointGenerationMaximum /\ generation' > 0
  BY <1>1
<1>3. /\ slot' \in Slots /\ slot'.state = "Constructing" /\ slot'.key = generation'
      /\ ~slot'.outer_owner_live /\ ~slot'.drain_driver_active /\ ~slot'.drain_retry_requested /\ ~slot'.detached_cleanup
      /\ \A r \in Roles : ~slot'.endpoint_reference_live[r]
  <2>1. EmptySlot \in Slots
    BY ServiceEndpointAssumption DEF EmptySlot, Slots, SlotStatesOf
  <2> QED BY <1>1, <1>2, <2>1 DEF EmptySlot, Slots, SlotStatesOf
<1>4. Built \in Nat /\ Built' \in Nat /\ Built' >= Built
  BY <1>1, <1>3 DEF Built
<1> QED BY <1>1, <1>2, <1>3, <1>4, StaysDown

\* CreateFails: the generation is used up.
LEMMA CreateFailsKeeps == ASSUME EInv, CreateFails, UNCHANGED ingressVars PROVE EInv'
<1>1. /\ slot.state = "Constructing" /\ ~Up /\ generation \in 0..kServiceEndpointGenerationMaximum /\ slot.key = generation
      /\ slot' = ClearedSlot(slot.key) /\ generation > 0 /\ kServiceEndpointGenerationMaximum \in Nat
      /\ UNCHANGED <<coreVars, generation, handle, refcount, fate, pc, call, ingressVars>>
  BY ServiceEndpointAssumption DEF CreateFails, EInv, SlotInv, Up, StateTypes, EndpointTypeOK
<1>2. /\ slot'.state = (IF slot.key = kServiceEndpointGenerationMaximum THEN "Retired" ELSE "Empty") /\ slot'.key = 0
      /\ slot' \in Slots
      /\ ~slot'.outer_owner_live /\ ~slot'.drain_driver_active /\ ~slot'.drain_retry_requested /\ ~slot'.detached_cleanup
      /\ \A r \in Roles : ~slot'.endpoint_reference_live[r]
  <2>1. EmptySlot \in Slots
    BY ServiceEndpointAssumption DEF EmptySlot, Slots, SlotStatesOf
  <2> QED BY <1>1, <2>1 DEF ClearedSlot, EmptySlot, Slots, SlotStatesOf
<1>3. slot'.state = "Empty" => generation' < kServiceEndpointGenerationMaximum
  BY <1>1, <1>2
<1>4. Built \in Nat /\ Built' \in Nat /\ Built' >= Built
  BY <1>1, <1>2 DEF Built
<1>5. slot'.state \in {"Empty", "Retired"} /\ generation' \in 0..kServiceEndpointGenerationMaximum
  BY <1>1, <1>2
<1> QED BY <1>1, <1>2, <1>3, <1>4, <1>5, StaysDown

\* CreatePair: a new channel, whose requests, rows and references are its own; what is
\* left of earlier channels, receipts that nobody answered, does not name it.
LEMMA CreatePairKeeps == ASSUME EInv, CreatePair, UNCHANGED ingressVars PROVE EInv'
<1>1. /\ slot.state = "Constructing" /\ ~Up /\ generation \in Nat /\ slot.key = generation /\ generation > 0
      /\ generation \in 0..kServiceEndpointGenerationMaximum
      /\ ~slot.drain_driver_active /\ ~slot.drain_retry_requested /\ ~slot.detached_cleanup
      /\ slot \in Slots /\ UNCHANGED <<generation, pc, call, receipt, source, destination, mix, object>>
      /\ slot' = [slot EXCEPT !.state = "Private", !.outer_owner_live = TRUE, !.endpoint_reference_live = [r \in Roles |-> TRUE]]
      /\ handle' = [r \in Roles |-> "unpublished"] /\ refcount' = [r \in Roles |-> 1]
      /\ fate' = [id \in RequestIds |-> "unused"]
      /\ core' = [NoCore EXCEPT !.state = "Open", !.epoch = slot.key, !.attached = TRUE]
      /\ ledger' = LedgerInitialized(slot.key) /\ table' = TableInitialized /\ port' = [queue |-> <<>>, closed |-> FALSE]
  BY ServiceEndpointAssumption DEF CreatePair, ChannelCoreInitialize, EInv, SlotInv, Up, StateTypes, EndpointTypeOK, Slots, ingressVars
<1>2. /\ Deserted /\ \A r \in Roles : refcount[r] = 0 /\ handle[r] = "none" /\ ~slot.endpoint_reference_live[r]
      /\ core = NoCore /\ ledger = NoLedger /\ ~Active
      /\ table.state \in {"Closed", "Uninitialized"} /\ Holding(table) = {}
  BY <1>1, NobodyThere
<1>3. /\ CallsInv' /\ Deserted' /\ Carriers' = Carriers
      /\ \A u \in Threads : ~Offers(u)' /\ ~Answers(u)' /\ ~HasToken(u)' /\ ~Claimant(u)' /\ ~Imports(u)'
  BY <1>1, <1>2, StaysDeserted
<1>4. /\ slot' \in Slots /\ slot'.state = "Private" /\ slot'.key = generation /\ slot'.outer_owner_live
      /\ ~slot'.drain_driver_active /\ ~slot'.drain_retry_requested /\ ~slot'.detached_cleanup
      /\ \A r \in Roles : slot'.endpoint_reference_live[r]
  BY <1>1 DEF Slots, SlotStatesOf
<1>5. /\ core'.state = "Open" /\ core'.epoch = generation /\ core'.attached /\ core'.pins = {} /\ ~core'.drain_driver_active
      /\ ~core'.ports_close_notified /\ ~core'.request_ledgers_drained
      /\ core' \in [state: CoreStates, epoch: Nat, pins: SUBSET Threads, drain_driver_active: BOOLEAN,
               ports_close_notified: BOOLEAN, request_ledgers_drained: BOOLEAN, attached: BOOLEAN]
  BY <1>1 DEF NoCore, CoreStates
<1>6. /\ ledger'.state = "Open" /\ ledger'.identity = generation /\ ledger'.next_request_id = 1
      /\ \A id \in RequestIds : ledger'.slots[id] = "Free"
      /\ ledger' \in Ledgers
  BY <1>1, EndpointRequestLedgerAssumption DEF LedgerInitialized, NoRequests, Ledgers, SlotStates
<1>7. /\ table' \in Tables /\ table'.state = "Open" /\ table'.active_operations = 0 /\ Holding(table') = {}
      /\ \A r \in Rows : table'.rows[r].pins = 0 /\ table'.rows[r].generation < kObjectTransferGenerationMax
  BY <1>1, ObjectTransferAssumption DEF TableInitialized, NoTable, Tables, FreeRow, Holding
<1>8. port' \in Ports /\ Len(port'.queue) = 0 /\ fate' \in [RequestIds -> Fates]
  BY <1>1 DEF Ports, Fates
<1>9. Up' /\ Active'
  BY <1>4, <1>5 DEF Up, Active
<1>10. SlotInv'
  BY <1>1, <1>4, <1>5, <1>6, <1>9 DEF SlotInv
<1>11. CoreInv'
  BY <1>3, <1>5, <1>6, <1>7, <1>9 DEF CoreInv, Deserted
<1>12. DriverInv'
  <2>1. {"close", "finish", "drain", "cleanup", "settle"} \subseteq Driving
    BY DEF Driving
  <2> QED BY <1>3, <1>4, <2>1 DEF DriverInv, DrainSeen, Deserted
<1>13. OwnerInv'
  BY <1>3 DEF OwnerInv, Deserted
<1>14. ReferenceInv'
  <2>1. \A r \in Roles : Referents(r)' = {}
    BY <1>3 DEF Referents, Deserted
  <2>2. \A r \in Roles : handle'[r] = "unpublished" /\ refcount'[r] = 1
    BY <1>1
  <2>3. \A r \in Roles : refcount'[r] = Cardinality(Referents(r)') + (IF handle'[r] = "none" THEN 0 ELSE 1)
    BY <2>1, <2>2, FS_EmptySet
  <2>4. handle'["acceptor"] = "unpublished"
    BY <2>2 DEF Roles
  <2> QED BY <1>3, <1>4, <1>9, <2>3, <2>4 DEF ReferenceInv, Deserted
<1>15. RequestInv'
  <2>1. LedgerIsCanonical(ledger')
    <3>1. LiveRequests(ledger') = {}
      BY <1>6 DEF LiveRequests
    <3> QED BY <1>6, <3>1, FS_EmptySet, EndpointRequestLedgerAssumption DEF LedgerIsCanonical
  <2>2. \A id \in RequestIds : fate'[id] = "unused"
    BY <1>1
  <2>3. \A u \in Threads : call'[u].requests = {}
    BY <1>3 DEF Deserted
  <2> QED BY <1>6, <2>1, <2>2, <2>3 DEF RequestInv
<1>16. HolderInv'
  <2>1. \A r \in Receipts : ~Owed(r)'
    <3>1. \A r \in Receipts : receipt[r].key \in Nat /\ (receipt[r].key # 0 => receipt[r].key <= generation - 1)
      BY <1>1, TypeParts, ServiceEndpointAssumption DEF EInv, ReceiptInv, RowInv, ReceiptRows, Built
    <3> QED BY <1>1, <1>4, <3>1 DEF Owed
  <2>2. QueueInv' /\ OwedInv'
    BY <1>8, <2>1 DEF QueueInv, OwedInv
  <2> QED BY <1>3, <2>2 DEF HolderInv, OfferInv, AnswerInv
<1>17. ReceiptInv'
  <2>1. Built \in Nat /\ Built' \in Nat /\ Built' >= Built
    BY <1>1, <1>4 DEF Built
  <2> QED BY <1>1, <1>3, <2>1, ReceiptsLeft
<1>18. ObjectInv' /\ object' \in Nat
  <2>1. object' = object - Cardinality(Holding(table))
    BY <1>1, <1>2, TypeParts, FS_EmptySet DEF EInv
  <2> QED BY <1>1, <1>3, <1>7, <2>1, EmptyTable
<1>19. StateTypes'
  <2>1. handle' \in [Roles -> {"none", "unpublished", "queued", "open"}] /\ refcount' \in [Roles -> Nat]
    BY <1>1
  <2>2. port'.closed \in BOOLEAN /\ port'.queue \in Seq(RequestIds)
    BY <1>8 DEF Ports
  <2>3. CoreTypeOK'
    BY <1>5, <1>6, <1>7, <1>18, <2>2 DEF CoreTypeOK
  <2>4. EndpointTypeOK'
    BY <1>1, <1>4, <1>8, <2>1, <2>3 DEF EndpointTypeOK, Slots
  <2> QED BY <1>1, <1>8, <2>4, TypeParts DEF EInv, StateTypes
<1> QED BY <1>3, <1>10, <1>11, <1>12, <1>13, <1>14, <1>15, <1>16, <1>17, <1>18, <1>19 DEF EInv

\* The reference of a handle goes on to the next place: the counts and the slot's hold stay.
LEMMA HandleMoves ==
  ASSUME EInv, NEW r \in Roles, NEW h \in {"queued", "open"}, handle[r] # "none", handle' = [handle EXCEPT ![r] = h],
         r = "acceptor" => slot'.state # "Private", slot'.state = "Private" => slot.state = "Private",
         UNCHANGED <<refcount, pc, call>>, slot'.key = slot.key, Up => Up',
         slot'.endpoint_reference_live = slot.endpoint_reference_live
  PROVE  ReferenceInv' /\ handle' \in [Roles -> {"none", "unpublished", "queued", "open"}]
<1>1. handle \in [Roles -> {"none", "unpublished", "queued", "open"}]
  BY DEF EInv, StateTypes, EndpointTypeOK
<1>2. handle' \in [Roles -> {"none", "unpublished", "queued", "open"}]
  BY <1>1
<1>3. \A q \in Roles : (handle'[q] = "none" <=> handle[q] = "none") /\ (q # r => handle'[q] = handle[q])
  BY <1>1
<1>4. \A q \in Roles : Referents(q)' = Referents(q)
  BY DEF Referents, HoldsReference
<1>5. \A q \in Roles : refcount'[q] = Cardinality(Referents(q)') + (IF handle'[q] = "none" THEN 0 ELSE 1)
  BY <1>3, <1>4 DEF EInv, ReferenceInv
<1>6. \A q \in Roles : refcount'[q] > 0 => Up' /\ slot'.endpoint_reference_live[q]
  BY DEF EInv, ReferenceInv
<1>7. \A u \in Threads :
       /\ HoldsReference(u)' => call'[u].key = slot'.key
       /\ pc'[u] = "destroy" =>
            /\ Up' /\ slot'.endpoint_reference_live[call'[u].role] /\ call'[u].key = slot'.key
            /\ refcount'[call'[u].role] = 0
            /\ \A v \in Threads \ {u} : pc'[v] = "destroy" => call'[v].role # call'[u].role
  BY DEF EInv, ReferenceInv, HoldsReference
<1>8. slot'.state = "Private" => handle'["acceptor"] = "unpublished"
  BY <1>3 DEF EInv, ReferenceInv, Roles
<1> QED BY <1>2, <1>5, <1>6, <1>7, <1>8 DEF ReferenceInv

\* PublishInitiator and PublishAcceptor.
LEMMA PublishHandleKeeps ==
  ASSUME EInv, PublishInitiator \/ PublishAcceptor, UNCHANGED ingressVars
  PROVE  EInv'
<1>1. PICK r \in Roles : /\ handle[r] # "none" /\ handle' = [handle EXCEPT ![r] = "open"]
                         /\ r = "acceptor" => handle[r] = "queued"
  BY DEF PublishInitiator, PublishAcceptor, Roles
<1>2. UNCHANGED <<coreVars, slot, generation, refcount, fate, pc, call, ingressVars>>
  BY DEF PublishInitiator, PublishAcceptor
<1>3. UNCHANGED <<core, ledger, table, port, object, receipt, source, destination, mix>>
  BY <1>2 DEF coreVars, ingressVars
<1>4. r = "acceptor" => slot'.state # "Private"
  BY <1>1, <1>2 DEF EInv, ReferenceInv
<1>5. ReferenceInv' /\ handle' \in [Roles -> {"none", "unpublished", "queued", "open"}]
  BY <1>1, <1>2, <1>4, HandleMoves DEF Up
<1>6. StateTypes'
  <2>1. refcount' \in [Roles -> Nat]
    BY <1>2 DEF EInv, StateTypes, EndpointTypeOK
  <2> QED BY <1>2, <1>5, <2>1, HandleTypes DEF EInv
<1>7. CallsInv' /\ SlotInv'
  BY <1>2, <1>3 DEF EInv, CallsInv, SlotInv, Up, Active
<1>8. CoreInv' /\ OwnerInv'
  BY <1>2, <1>3 DEF EInv, CoreInv, Active, OwnerInv, Releases
<1>9. DriverInv'
  BY <1>2, <1>3 DEF EInv, DriverInv, DrainSeen, WillLook, Active
<1>10. RequestInv' /\ ReceiptInv'
  BY <1>2, <1>3 DEF EInv, RequestInv, ReceiptInv, RowInv, ClaimInv, Claimant, Replying, HasToken, Built
<1>11. HolderInv'
  BY <1>2, <1>3 DEF EInv, HolderInv, QueueInv, OwedInv, OfferInv, AnswerInv, Active, Owed, Offers, Answers, Replying
<1>12. ObjectInv'
  BY <1>2, <1>3 DEF EInv, ObjectInv, PinsInv, RowsInv, ImportInv, CountInv, Imports, Importers, Carriers
<1> QED BY <1>5, <1>6, <1>7, <1>8, <1>9, <1>10, <1>11, <1>12 DEF EInv

\* ServiceEndpointActivate.
LEMMA ActivateKeeps == ASSUME EInv, ServiceEndpointActivate, UNCHANGED ingressVars PROVE EInv'
<1>1. /\ slot.state = "Private" /\ slot' = [slot EXCEPT !.state = "Open"] /\ handle' = [handle EXCEPT !["acceptor"] = "queued"]
      /\ UNCHANGED <<generation, refcount, fate, pc, call>> /\ slot \in Slots
      /\ UNCHANGED <<core, ledger, table, port, object, receipt, source, destination, mix>>
  BY DEF ServiceEndpointActivate, EInv, StateTypes, EndpointTypeOK, Slots, coreVars, ingressVars
<1>2. /\ slot' \in Slots /\ slot'.state = "Open" /\ slot'.key = slot.key /\ slot'.outer_owner_live = slot.outer_owner_live
      /\ slot'.endpoint_reference_live = slot.endpoint_reference_live /\ slot'.drain_driver_active = slot.drain_driver_active
      /\ slot'.drain_retry_requested = slot.drain_retry_requested /\ slot'.detached_cleanup = slot.detached_cleanup
  BY <1>1 DEF Slots, SlotStatesOf
<1>3. Up /\ Up'
  BY <1>1, <1>2 DEF Up
<1>4. ReferenceInv' /\ handle' \in [Roles -> {"none", "unpublished", "queued", "open"}]
  <2>1. handle["acceptor"] # "none" /\ "acceptor" \in Roles
    BY <1>1 DEF EInv, ReferenceInv, Roles
  <2> QED BY <1>1, <1>2, <1>3, <2>1, HandleMoves
<1>5. StateTypes'
  BY <1>1, <1>2, <1>4 DEF EInv, StateTypes, EndpointTypeOK, CoreTypeOK, Slots
<1>6. CallsInv'
  BY <1>1 DEF EInv, CallsInv
<1>7. SlotInv'
  BY <1>1, <1>2, <1>3 DEF EInv, SlotInv, Active
<1>8. CoreInv'
  BY <1>1 DEF EInv, CoreInv, Active
<1>9. ~slot.drain_driver_active /\ \A u \in Threads : pc[u] \notin Driving /\ ~Releases(u)
  BY <1>1 DEF EInv, SlotInv, DriverInv, OwnerInv
<1>10. DriverInv'
  <2>1. {"close", "finish", "drain", "cleanup", "settle"} \subseteq Driving
    BY DEF Driving
  <2> QED BY <1>1, <1>2, <1>9, <2>1 DEF DriverInv, DrainSeen
<1>11. OwnerInv'
  BY <1>1, <1>9 DEF OwnerInv, Releases
<1>12. RequestInv'
  BY <1>1 DEF EInv, RequestInv
<1>13. ReceiptInv'
  BY <1>1, <1>2 DEF EInv, ReceiptInv, RowInv, ClaimInv, Claimant, Replying, HasToken, Built
<1>14. HolderInv'
  BY <1>1, <1>2 DEF EInv, HolderInv, QueueInv, OwedInv, OfferInv, AnswerInv, Active, Owed, Offers, Answers, Replying
<1>15. ObjectInv'
  BY <1>1 DEF EInv, ObjectInv, PinsInv, RowsInv, ImportInv, CountInv, Imports, Importers, Carriers
<1> QED BY <1>4, <1>5, <1>6, <1>7, <1>8, <1>10, <1>11, <1>12, <1>13, <1>14, <1>15 DEF EInv

-----------------------------------------------------------------------------
(* The invariant is inductive *)

\* Before the first connection nothing is there, and the client has its handle to the object.
LEMMA EInvInit == Init => EInv
<1> SUFFICES ASSUME Init PROVE EInv
  OBVIOUS
<1>1. /\ core = NoCore /\ ledger = NoLedger /\ table = NoTable /\ port = NoPort /\ object = 1
      /\ slot = EmptySlot /\ generation = 0
      /\ handle = [r \in Roles |-> "none"] /\ refcount = [r \in Roles |-> 0]
      /\ fate = [id \in RequestIds |-> "unused"]
      /\ pc = [t \in Threads |-> "idle"] /\ call = [t \in Threads |-> NoCall]
      /\ receipt = [r \in Receipts |-> FreeReceipt] /\ source = TRUE /\ destination = "free" /\ mix \in Mixes
  BY DEF Init, EndpointInit, CoreInit
<1>2. \A t \in Threads : /\ pc[t] = "idle" /\ call[t] = NoCall /\ call[t].next = "idle" /\ call[t].requests = {}
  BY <1>1 DEF NoCall
<1>3. \A t \in Threads : pc[t] \notin PinnedPlaces \cup Driving \cup Underway \cup {"destroy"}
  BY <1>2 DEF PinnedPlaces, Driving, Underway
<1>4. \A t \in Threads : /\ ~HoldsReference(t) /\ ~Releases(t) /\ ~Offers(t) /\ ~Answers(t) /\ ~HasToken(t)
                         /\ ~Claimant(t) /\ ~Imports(t) /\ t \notin Carriers
  <2>1. \A t \in Threads : ~HoldsReference(t) /\ ~Releases(t)
    BY <1>2, <1>3 DEF HoldsReference, Releases
  <2>2. \A t \in Threads : ~Offers(t) /\ ~Answers(t) /\ ~HasToken(t) /\ ~Claimant(t) /\ ~Imports(t) /\ t \notin Carriers
    BY <1>2 DEF Offers, Answers, Replying, HasToken, Claimant, Imports, Carriers
  <2> QED BY <2>1, <2>2
<1>5. /\ slot \in Slots /\ slot.state = "Empty" /\ slot.key = 0 /\ ~slot.outer_owner_live /\ ~slot.drain_driver_active
      /\ ~slot.drain_retry_requested /\ ~slot.detached_cleanup /\ \A r \in Roles : ~slot.endpoint_reference_live[r]
  BY <1>1, ServiceEndpointAssumption DEF EmptySlot, Slots, SlotStatesOf
<1>6. /\ core.state = "Uninitialized" /\ core.pins = {} /\ ~core.drain_driver_active
      /\ core \in [state: CoreStates, epoch: Nat, pins: SUBSET Threads, drain_driver_active: BOOLEAN,
                   ports_close_notified: BOOLEAN, request_ledgers_drained: BOOLEAN, attached: BOOLEAN]
  BY <1>1 DEF NoCore, CoreStates
<1>7. /\ ledger \in Ledgers /\ ledger.state = "Uninitialized" /\ ledger.next_request_id = 0
      /\ \A id \in RequestIds : ledger.slots[id] = "Free"
  BY <1>1, EndpointRequestLedgerAssumption DEF NoLedger, Ledgers, NoRequests, SlotStates
<1>8. /\ table \in Tables /\ table.state = "Uninitialized" /\ table.active_operations = 0 /\ Holding(table) = {}
      /\ \A r \in Rows : table.rows[r].pins = 0 /\ table.rows[r].generation < kObjectTransferGenerationMax
  BY <1>1, ObjectTransferAssumption DEF NoTable, Tables, FreeRow, Holding
<1>9. ~Up /\ ~Active
  BY <1>5, <1>6 DEF Up, Active
<1>10. StateTypes
  <2>1. port \in Ports /\ port.closed \in BOOLEAN /\ port.queue \in Seq(RequestIds)
    BY <1>1 DEF NoPort, Ports
  <2>2. CoreTypeOK
    BY <1>1, <1>6, <1>7, <1>8, <2>1 DEF CoreTypeOK
  <2>3. /\ generation \in 0..kServiceEndpointGenerationMaximum /\ refcount \in [Roles -> Nat]
        /\ handle \in [Roles -> {"none", "unpublished", "queued", "open"}] /\ fate \in [RequestIds -> Fates]
    BY <1>1, ServiceEndpointAssumption DEF Fates
  <2>4. EndpointTypeOK
    BY <1>5, <2>2, <2>3 DEF EndpointTypeOK, Slots
  <2>5. FreeReceipt \in ReceiptRows
    BY IngressAssumption, ServiceEndpointAssumption, EndpointRequestLedgerAssumption DEF FreeReceipt, ReceiptRows
  <2>6. receipt \in [Receipts -> ReceiptRows] /\ mix \subseteq Operations
    BY <1>1, <2>5, IngressAssumption
  <2> QED BY <1>1, <2>1, <2>4, <2>6 DEF StateTypes
<1>11. CallsInv
  <2>1. pc \in [Threads -> Places] /\ call \in [Threads -> Calls]
    BY <1>1, NoCallType DEF Places
  <2> QED BY <1>2, <2>1 DEF CallsInv
<1>12. SlotInv
  BY <1>1, <1>5, <1>9, ServiceEndpointAssumption DEF SlotInv
<1>13. CoreInv
  BY <1>1, <1>3, <1>6, <1>8, <1>9 DEF CoreInv
<1>14. DriverInv
  BY <1>3, <1>5 DEF DriverInv, DrainSeen, Driving
<1>15. OwnerInv
  BY <1>4 DEF OwnerInv
<1>16. ReferenceInv
  <2>1. \A r \in Roles : Referents(r) = {} /\ refcount[r] = 0 /\ handle[r] = "none"
    BY <1>1, <1>4 DEF Referents
  <2>2. \A r \in Roles : refcount[r] = Cardinality(Referents(r)) + (IF handle[r] = "none" THEN 0 ELSE 1)
    BY <2>1, FS_EmptySet
  <2> QED BY <1>3, <1>4, <1>5, <2>1, <2>2 DEF ReferenceInv
<1>17. RequestInv
  <2>1. LiveRequests(ledger) = {}
    BY <1>7 DEF LiveRequests
  <2>2. LedgerIsCanonical(ledger)
    BY <1>7, <2>1, FS_EmptySet, EndpointRequestLedgerAssumption DEF LedgerIsCanonical
  <2>3. \A id \in RequestIds : fate[id] = "unused"
    BY <1>1
  <2> QED BY <1>2, <1>7, <2>2, <2>3 DEF RequestInv
<1>18. HolderInv
  BY <1>4, <1>9 DEF HolderInv, QueueInv, OwedInv, OfferInv, AnswerInv
<1>19. ReceiptInv
  <2>1. \A r \in Receipts : receipt[r].state = "Free" /\ receipt[r].generation = 0 /\ receipt[r].key = 0
    BY <1>1 DEF FreeReceipt
  <2>2. \A r \in Receipts : RowInv(r)
    BY <2>1, IngressAssumption DEF RowInv
  <2> QED BY <1>4, <2>2 DEF ReceiptInv
<1>20. ObjectInv
  <2>1. {t \in Threads : Imports(t)} = {} /\ Carriers = {} /\ \A r \in Rows : Importers(r) = {}
    BY <1>4 DEF Importers, Carriers
  <2>2. PinsInv
    BY <1>8, <2>1, FS_EmptySet DEF PinsInv
  <2>3. RowsInv /\ ImportInv
    BY <1>4, <1>8 DEF RowsInv, ImportInv
  <2>4. CountInv
    BY <1>1, <1>8, <2>1, FS_EmptySet DEF CountInv
  <2> QED BY <2>2, <2>3, <2>4 DEF ObjectInv
<1> QED BY <1>10, <1>11, <1>12, <1>13, <1>14, <1>15, <1>16, <1>17, <1>18, <1>19, <1>20 DEF EInv

\* A step that changes nothing.
LEMMA EInvStutter == ASSUME EInv, UNCHANGED vars PROVE EInv'
<1>1. /\ UNCHANGED <<core, ledger, table, port, object, fate, pc, call, receipt, source, destination, mix>>
      /\ UNCHANGED endpointVars /\ UNCHANGED <<slot, generation, handle, refcount>>
  BY DEF vars, coreVars, endpointVars, ingressVars
<1>2. CallsInv' /\ SlotInv' /\ CoreInv' /\ DriverInv' /\ OwnerInv' /\ ReferenceInv'
  BY <1>1, StillSlot
<1>3. StateTypes'
  BY <1>1, TypeParts, DataTypes DEF EInv
<1>4. RequestInv'
  BY <1>1 DEF EInv, RequestInv
<1>5. HolderInv'
  BY <1>1 DEF EInv, HolderInv, QueueInv, OwedInv, OfferInv, AnswerInv, Active, Owed, Offers, Answers, Replying
<1>6. ReceiptInv'
  BY <1>1 DEF EInv, ReceiptInv, RowInv, ClaimInv, Claimant, Replying, HasToken, Built
<1>7. ObjectInv'
  BY <1>1 DEF EInv, ObjectInv, PinsInv, RowsInv, ImportInv, CountInv, Imports, Importers, Carriers
<1> QED BY <1>2, <1>3, <1>4, <1>5, <1>6, <1>7 DEF EInv

\* Every step preserves the invariant.
LEMMA EInvNext == EInv /\ [Next]_vars => EInv'
<1> SUFFICES ASSUME EInv, [Next]_vars PROVE EInv'
  OBVIOUS
<1>1. CASE UNCHANGED vars
  BY <1>1, EInvStutter
<1>2. CASE Connects
  BY <1>2, CreateReserveKeeps, CreatePairKeeps, CreateFailsKeeps, PublishHandleKeeps, ActivateKeeps DEF Connects
<1>3. CASE ServiceEndpointIngressCancelProcess \/ DrainDestination \/ CloseImported \/ CloseSource
  BY <1>3, CancelProcessKeeps, ObjectHandleKeeps
<1>4. ASSUME NEW t \in Threads, EndpointStep(t) PROVE EInv'
  <2>1. UNCHANGED ingressVars
    BY <1>4 DEF EndpointStep
  <2>2. CASE DriveDrain(t)
    BY <2>1, <2>2, DriveEnterKeeps, DriveBeginKeeps, DriveCloseKeeps, DriveEndKeeps, DriveCleanupKeeps, DriveSettleKeeps
       DEF DriveDrain
  <2>3. CASE DropReference(t) \/ DestroyEndpointObject(t)
    BY <2>1, <2>3, DropKeeps, DestroyKeeps
  <2>4. CASE ReleaseOwner(t) \/ ReleaseOwnerEnd(t) \/ InitiatorUnpublished(t)
    BY <2>1, <2>4, ReleaseOwnerKeeps, ReleaseOwnerEndKeeps, UnpublishedKeeps
  <2> QED BY <1>4, <2>2, <2>3, <2>4 DEF EndpointStep
<1>5. ASSUME NEW t \in Threads, Acquires(t) \/ Closes(t) PROVE EInv'
  BY <1>5, AcquiresKeep, ClosesKeep
<1>6. ASSUME NEW t \in Threads, Sends(t) PROVE EInv'
  BY <1>6, ReserveKeeps, SendKeeps, CancelSentKeeps DEF Sends
<1>7. ASSUME NEW t \in Threads, Receives(t) PROVE EInv'
  BY <1>7, PendKeeps, ReceiveKeeps, CommitKeeps, CancelSentKeeps, PublishKeeps, AbandonKeeps DEF Receives
<1>8. ASSUME NEW t \in Threads, Replies(t) PROVE EInv'
  BY <1>8, ClaimKeeps, SendReplyKeeps, CompleteKeeps, FinishKeeps DEF Replies
<1>9. ASSUME NEW t \in Threads, Transfers(t) PROVE EInv'
  <2>1. CASE RetainSource(t) \/ ObjectTransferExport(t) \/ ObjectTransferRevoke(t)
    BY <2>1, RetainSourceKeeps, ExportKeeps, RevokeKeeps
  <2>2. CASE ReserveHandle(t) \/ PinRow(t) \/ AbortImport(t)
    BY <2>2, ReserveHandleKeeps, PinRowKeeps
  <2>3. CASE RetainObject(t) \/ UnpinRow(t) \/ PublishImported(t)
    BY <2>3, RetainObjectKeeps, UnpinKeeps, PublishImportedKeeps
  <2> QED BY <1>9, <2>1, <2>2, <2>3 DEF Transfers
<1>10. ASSUME NEW t \in Threads, NEW r \in Roles, LookupEndpoint(t, r) \/ RecogniseEndpoint(t, r) \/ DrainHandle(t, r) PROVE EInv'
  BY <1>10, LookupKeeps, DrainHandleKeeps
<1> QED BY <1>1, <1>2, <1>3, <1>4, <1>5, <1>6, <1>7, <1>8, <1>9, <1>10 DEF Next

\* Whatever the threads do with the two ends of a channel, and however calls, closes, drains
\* and the owner's release interleave over the life of a slot, EInv holds.
THEOREM EndpointInductive == Spec => []EInv
<1> QED BY EInvInit, EInvNext, PTL DEF Spec

-----------------------------------------------------------------------------
(* The properties *)

\* TypeOK: no count of references or pins goes below zero, and no slot, row or receipt is
\* given out past its last generation, for any maxima.
THEOREM EndpointTypes == Spec => []TypeOK
<1>1. EInv => TypeOK
  BY DEF EInv, StateTypes, CallsInv, TypeOK
<1> QED BY <1>1, EndpointInductive, PTL

\* CoreNeverCorrupt: every operation finds the core canonical (no call answers CorruptState),
\* and the one driver of a drain finds the core of his channel, without another driver.
THEOREM EndpointCore == Spec => []CoreNeverCorrupt
<1>1. ASSUME EInv PROVE CoreNeverCorrupt
  <2>1. CoreIsCanonical
    <3>1. LedgerIsCanonical(ledger)
      BY <1>1 DEF EInv, RequestInv
    <3> QED BY <1>1, <3>1 DEF EInv, CoreInv, CoreIsCanonical, Active
  <2>2. ASSUME NEW t \in Threads, pc[t] \in Driving
        PROVE  /\ slot.drain_driver_active /\ ResolveExact(call[t].key)
               /\ \A u \in Threads \ {t} : pc[u] \notin Driving
               /\ At(t, "drain") => core.epoch = call[t].key /\ core.state \in {"Open", "Draining"} /\ ~core.drain_driver_active
    <3>1. slot.drain_driver_active /\ call[t].key = slot.key /\ \A u \in Threads \ {t} : pc[u] \notin Driving
      BY <1>1, <2>2 DEF EInv, DriverInv
    <3>2. slot.state = "Draining" /\ core.epoch = slot.key
      BY <1>1, <3>1 DEF EInv, SlotInv, Up
    <3>3. pc[t] = "drain" => Active /\ ~core.drain_driver_active
      BY <1>1 DEF EInv, DriverInv
    <3> QED BY <3>1, <3>2, <3>3 DEF ResolveExact, At, Active
  <2> QED BY <2>1, <2>2 DEF CoreNeverCorrupt
<1> QED BY <1>1, EndpointInductive, PTL

\* NoAbandonedDrain: closers, the last operation and the owner hand the drain to one another
\* without ever dropping it.
THEOREM EndpointDrain == Spec => []NoAbandonedDrain
<1>1. ASSUME EInv PROVE NoAbandonedDrain
  <2> SUFFICES ASSUME slot.state = "Draining"
               PROVE  \/ \E t \in Threads : call[t].key = slot.key /\ pc[t] \in PinnedPlaces \cup Driving \cup {"help", "drive"}
                      \/ slot.outer_owner_live /\ slot.detached_cleanup
    BY DEF NoAbandonedDrain
  <2>1. CASE slot.drain_driver_active
    BY <1>1, <2>1 DEF EInv, DriverInv
  <2>2. CASE slot.detached_cleanup
    BY <1>1, <2>2 DEF EInv, SlotInv
  <2>3. CASE ~slot.drain_driver_active /\ ~slot.detached_cleanup
    BY <1>1, <2>3 DEF EInv, DriverInv, DrainSeen, WillLook
  <2> QED BY <2>1, <2>2, <2>3
<1> QED BY <1>1, EndpointInductive, PTL

\* NothingInUseDetached: a pinned operation keeps the ports, the table and the ledger of its
\* channel, and a thread with a reference keeps its slot from being recycled.
THEOREM EndpointInUse == Spec => []NothingInUseDetached
<1>1. ASSUME EInv PROVE NothingInUseDetached
  <2>1. ASSUME NEW t \in Threads, pc[t] \in PinnedPlaces \cup {"acquire", "pin", "help", "deref"}
        PROVE  /\ ResolveExact(call[t].key) /\ slot.endpoint_reference_live[call[t].role]
               /\ refcount[call[t].role] > 0 /\ call[t].key = slot.key
    <3>1. HoldsReference(t) /\ call[t].role \in Roles
      BY <1>1, <2>1 DEF HoldsReference, EInv, CallsInv, Calls
    <3>2. /\ refcount[call[t].role] > 0 /\ call[t].key = slot.key
          /\ Up /\ slot.endpoint_reference_live[call[t].role]
      BY <1>1, <3>1, ReferenceFacts
    <3> QED BY <3>2 DEF ResolveExact, Up
  <2>2. ASSUME NEW t \in Threads, pc[t] \in PinnedPlaces
        PROVE  /\ t \in core.pins /\ core.epoch = call[t].key
               /\ core.attached /\ table.state \in {"Open", "Draining"}
    <3>1. t \in core.pins /\ Active /\ slot.key = core.epoch
      BY <1>1, <2>2, PinFacts DEF EInv
    <3>2. core.attached /\ table.state = "Open"
      BY <1>1, <3>1 DEF EInv, CoreInv, Active
    <3> QED BY <2>1, <2>2, <3>1, <3>2
  <2> QED BY <2>1, <2>2 DEF NothingInUseDetached
<1> QED BY <1>1, EndpointInductive, PTL

\* RequestEndsOnce: a request is in the ledger or with the driver of the drain until it ends,
\* it ends once, and a reply that was sent completes its request.
THEOREM EndpointRequests == Spec => []RequestEndsOnce
<1>1. ASSUME EInv PROVE RequestEndsOnce
  <2>1. \A id \in RequestIds : /\ fate[id] # "twice"
                               /\ fate[id] = "live" <=> ledger.slots[id] # "Free" \/ \E t \in Threads : id \in call[t].requests
    BY <1>1 DEF EInv, RequestInv
  <2>2. \A t \in Threads : call[t].requests \subseteq RequestIds
    BY <1>1 DEF EInv, CallsInv, Calls
  <2>3. {id \in RequestIds : fate[id] = "live"} = LiveRequests(ledger) \cup UNION {call[t].requests : t \in Threads}
    BY <2>1, <2>2 DEF LiveRequests
  <2>4. ASSUME NEW t \in Threads, At(t, "complete") PROVE Completes(t)
    <3>1. pc[t] \in PinnedPlaces /\ Answers(t)
      BY <2>4 DEF At, PinnedPlaces, Answers, Replying
    <3>2. t \in core.pins /\ Active /\ Up /\ slot.key = core.epoch /\ ledger.state \in {"Open", "SequenceRetired"}
      BY <1>1, <3>1, PinFacts DEF EInv
    <3>3. ledger.slots[call[t].id] = "Committed"
      BY <1>1, <3>1 DEF EInv, HolderInv, AnswerInv
    <3>4. ledger.identity = slot.key /\ call[t].key = slot.key
      BY <1>1, <3>1, <3>2 DEF EInv, SlotInv, ReferenceInv, HoldsReference
    <3> QED BY <3>2, <3>3, <3>4 DEF Completes, PinValid, Active, CompleteStatus, FindStatus
  <2> QED BY <2>1, <2>3, <2>4 DEF RequestEndsOnce
<1> QED BY <1>1, EndpointInductive, PTL

\* ObjectReferencesExact: the exported object has exactly the references that are held, and it
\* is alive for an import that retains it.
THEOREM EndpointObject == Spec => []ObjectReferencesExact
<1>1. ASSUME EInv PROVE ObjectReferencesExact
  <2>1. Carriers = {t \in Threads : \/ At(t, "export")
                                    \/ pc[t] \in {"unpin", "publish_handle"} /\ call[t].result = "Ok"}
    BY DEF Carriers, At
  <2>2. /\ Cardinality(Holding(table)) \in Nat /\ Cardinality(Carriers) \in Nat
        /\ Cardinality(Holding(table)) = 0 <=> Holding(table) = {}
    <3>1. Holding(table) \in SUBSET Rows /\ Carriers \in SUBSET Threads
      BY DEF Holding, Carriers
    <3> QED BY <3>1, SomeMember, ObjectTransferAssumption, ChannelCoreAssumption
  <2> DEFINE a == IF source THEN 1 ELSE 0  b == IF destination = "live" THEN 1 ELSE 0
  <2>3. a \in 0..1 /\ b \in 0..1
    OBVIOUS
  <2>4. object = Cardinality(Holding(table)) + Cardinality(Carriers) + a + b
    BY <1>1 DEF EInv, ObjectInv, CountInv
  <2> HIDE DEF a, b
  <2>5. object = a + Cardinality(Holding(table)) + Cardinality(Carriers) + b
    BY <2>2, <2>3, <2>4
  <2>6. ASSUME NEW t \in Threads, At(t, "retain") PROVE object > 0
    <3>1. Holding(table) # {}
      BY <1>1, <2>6 DEF EInv, ObjectInv, ImportInv, Imports, At
    <3> QED BY <2>2, <2>3, <2>5, <3>1
  <2> QED BY <2>1, <2>5, <2>6 DEF ObjectReferencesExact, a, b
<1> QED BY <1>1, EndpointInductive, PTL
=============================================================================
