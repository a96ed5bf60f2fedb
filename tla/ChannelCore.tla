---------------------------- MODULE ChannelCore ----------------------------
(***************************************************************************)
(* The channel core (kernel/ipc/channel_core.{h,cpp}): what one channel    *)
(* owns (message ports, transfer tables, request ledgers), the operations  *)
(* pinned on it, and the drain that closes and detaches it.  A drain is    *)
(* two holds of the core's lock around the closing of the ports and        *)
(* tables; resources are detached only by a drain that began and ended     *)
(* with no operation pinned.                                               *)
(*                                                                         *)
(* The two directions of a channel share nothing but the core, so the      *)
(* model has one ledger, one table and one queue of requests; replies go   *)
(* over the other port, of which only the closing matters.  A pin is named *)
(* by the thread whose operation it is.  A port keeps the promise of       *)
(* MessageQueue, which KMessagePort implements.                            *)
(***************************************************************************)
EXTENDS EndpointRequestLedger, ObjectTransfer, Sequences

CONSTANTS
  Threads,
  kChannelCoreOperationCapacity

ASSUME ChannelCoreAssumption == IsFiniteSet(Threads) /\ kChannelCoreOperationCapacity \in Nat \ {0}

VARIABLES
  core,     \* ChannelCore
  ledger,   \* its request ledger
  table,    \* its transfer table
  port,     \* its message port: the ids of the queued requests, and closed
  object    \* references to the exported object (KObject::refcount)

coreVars == <<core, ledger, table, port, object>>

CoreStates == {"Uninitialized", "Open", "Draining", "Drained"}
NoCore == [state |-> "Uninitialized", epoch |-> 0, pins |-> {}, drain_driver_active |-> FALSE,
           ports_close_notified |-> FALSE, request_ledgers_drained |-> FALSE, attached |-> FALSE]
NoPort == [queue |-> <<>>, closed |-> TRUE]

CoreTypeOK ==
  /\ core \in [state: CoreStates, epoch: Nat, pins: SUBSET Threads, drain_driver_active: BOOLEAN,
               ports_close_notified: BOOLEAN, request_ledgers_drained: BOOLEAN, attached: BOOLEAN]
  /\ ledger \in Ledgers /\ table \in Tables /\ object \in Nat
  /\ port.closed \in BOOLEAN /\ port.queue \in Seq(RequestIds)

CoreInit == core = NoCore /\ ledger = NoLedger /\ table = NoTable /\ port = NoPort /\ object = 1

\* CoreIsCanonical: every operation answers CorruptState when it does not hold.
CoreIsCanonical ==
  /\ LedgerIsCanonical(ledger)
  /\ core.state \in {"Open", "Draining"} =>
       /\ core.attached
       /\ core.request_ledgers_drained => core.pins = {}
       /\ (ledger.state = "Draining") <=> core.request_ledgers_drained
  /\ core.state = "Open" => ~core.drain_driver_active /\ ~core.ports_close_notified
  /\ core.state = "Drained" =>
       /\ ~core.attached /\ core.pins = {} /\ ~core.drain_driver_active
       /\ core.ports_close_notified /\ core.request_ledgers_drained /\ ledger.state = "Draining"

-----------------------------------------------------------------------------
(* Life *)

\* ChannelCoreInitialize, which no other thread sees before it has ended.
ChannelCoreInitialize(epoch) ==
  /\ core' = [NoCore EXCEPT !.state = "Open", !.epoch = epoch, !.attached = TRUE]
  /\ ledger' = LedgerInitialized(epoch)
  /\ table' = TableInitialized
  /\ port' = [queue |-> <<>>, closed |-> FALSE]
  /\ UNCHANGED object

\* The storage of a core that is given up.
CoreCleared == core' = NoCore /\ ledger' = NoLedger /\ UNCHANGED <<table, port, object>>

CanAcquire(epoch) ==
  /\ core.epoch = epoch /\ core.state = "Open"
  /\ Cardinality(core.pins) < kChannelCoreOperationCapacity

ChannelCoreAcquireOperation(t) ==
  core' = [core EXCEPT !.pins = @ \cup {t}] /\ UNCHANGED <<ledger, table, port, object>>

ChannelCoreReleaseOperation(t) ==
  core' = [core EXCEPT !.pins = @ \ {t}] /\ UNCHANGED <<ledger, table, port, object>>

\* ValidatePinLocked without allow_draining: borrow and reserve.
PinOpen(t) == t \in core.pins /\ core.state = "Open"

\* ValidatePinLocked with allow_draining: commit, cancel and complete.
PinValid(t) == t \in core.pins /\ core.state \in {"Open", "Draining"}

SetLedger(l) == ledger' = l /\ UNCHANGED <<core, table, port, object>>

-----------------------------------------------------------------------------
(* Drain *)

\* Mutant: pinned operations are not waited for.
FinalizeAnyway == TRUE

\* attempt_finalize.
Quiescent == core.pins = {}

\* First hold: no pin is given out from here on.
DrainBegin ==
  /\ core' = [core EXCEPT !.state = "Draining", !.drain_driver_active = TRUE]
  /\ UNCHANGED <<ledger, table, port, object>>

\* No lock: the ports close, and the tables too when the drain is to finalize.
DrainClose(finalize) ==
  /\ port' = [port EXCEPT !.closed = TRUE]
  /\ IF finalize
     THEN /\ table' = TableClosed(table)
          /\ object' = IF CloseStatus(table) = "Ok" THEN object - Cardinality(Holding(table)) ELSE object
     ELSE UNCHANGED <<table, object>>
  /\ UNCHANGED <<core, ledger>>

\* Second hold: does the drain detach?
DrainDetaches(finalize) == finalize /\ Quiescent /\ table.state = "Closed"

DrainEnd(finalize) ==
  LET ended == [core EXCEPT !.ports_close_notified = TRUE, !.drain_driver_active = FALSE] IN
  /\ IF DrainDetaches(finalize)
     THEN /\ core' = [ended EXCEPT !.state = "Drained", !.attached = FALSE, !.request_ledgers_drained = TRUE]
          /\ ledger' = LedgerDrained(ledger)
     ELSE core' = ended /\ UNCHANGED ledger
  /\ UNCHANGED <<table, port, object>>

\* ChannelCoreReleaseDetachedCleanup: the tables are freed, the ports released.
ReleaseDetached == table' = NoTable /\ port' = NoPort /\ UNCHANGED <<core, ledger, object>>
=============================================================================
