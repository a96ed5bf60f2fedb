--------------------------- MODULE ObjectTransfer ---------------------------
(***************************************************************************)
(* The object transfer table of one direction of a channel                 *)
(* (kernel/ipc/object_transfer.{h,cpp}): rows that own a reference to an   *)
(* exported object until they are revoked or the table closes.  An import  *)
(* pins its row, retains the object without the table's lock and unpins.   *)
(*                                                                         *)
(* A table is a record, each critical section a function on it.  What is   *)
(* left out is the exported type, rights and metadata: checks of immutable *)
(* values.                                                                 *)
(***************************************************************************)
EXTENDS Naturals, FiniteSets

CONSTANTS
  Rows,                         \* the rows of the table (without the reserved row 0)
  kObjectTransferGenerationMax  \* a row is retired after this many exports

ASSUME ObjectTransferAssumption == IsFiniteSet(Rows) /\ kObjectTransferGenerationMax \in Nat \ {0}

Generations == 1..kObjectTransferGenerationMax
FreeRow == [state |-> "Free", generation |-> 0, pins |-> 0]

Tables == [state: {"Uninitialized", "Open", "Draining", "Closed"}, active_operations: Nat,
           rows: [Rows -> [state: {"Free", "Live", "Closing", "Retired"},
                           generation: 0..kObjectTransferGenerationMax, pins: Nat]]]

NoTable == [state |-> "Uninitialized", active_operations |-> 0, rows |-> [r \in Rows |-> FreeRow]]

\* ObjectTransferTableInitialize.
TableInitialized == [NoTable EXCEPT !.state = "Open"]

\* Rows that own a reference.
Holding(table) == {r \in Rows : table.rows[r].state \in {"Live", "Closing"}}

\* ClearSlot.
Cleared(row) ==
  [row EXCEPT !.pins = 0, !.state = IF row.generation = kObjectTransferGenerationMax THEN "Retired" ELSE "Free"]

-----------------------------------------------------------------------------
\* ObjectTransferExport: rows that can take the retained reference.
ExportRows(table) == IF table.state = "Open" THEN {r \in Rows : table.rows[r].state = "Free"} ELSE {}

Exported(table, r) ==
  [table EXCEPT !.rows[r] = [state |-> "Live", generation |-> table.rows[r].generation + 1, pins |-> 0]]

\* ObjectTransferImport, first critical section.
CanPin(table, r, generation) ==
  /\ table.state = "Open"
  /\ table.rows[r].state = "Live" /\ table.rows[r].generation = generation

Pinned(table, r) ==
  [table EXCEPT !.rows[r].pins = @ + 1, !.active_operations = @ + 1]

\* Second critical section: is the row still the pinned one, and the unpin.
IdentityIntact(table, r, generation) ==
  /\ table.rows[r].generation = generation /\ table.rows[r].state \in {"Live", "Closing"}
  /\ table.rows[r].pins > 0 /\ table.active_operations > 0

Unpinned(table, r) ==
  [table EXCEPT !.rows[r].pins = IF @ > 0 THEN @ - 1 ELSE 0,
                !.active_operations = IF @ > 0 THEN @ - 1 ELSE 0]

-----------------------------------------------------------------------------
\* ObjectTransferRevoke: the named row begins to close ...
CanRevoke(table, r, generation) ==
  /\ table.state = "Open"
  /\ table.rows[r].state \in {"Live", "Closing"} /\ table.rows[r].generation = generation

\* Mutant: the row is cleared under an import.
RevokesPinned(row) == TRUE

\* ... and gives its reference up when no import has pinned it.
Unused(row) == row.pins = 0

Revoked(table, r) ==
  [table EXCEPT !.rows[r] = IF Unused(@) THEN Cleared(@) ELSE [@ EXCEPT !.state = "Closing"]]

\* ObjectTransferTableClose.
CloseStatus(table) == IF table.state # "Closed" /\ table.active_operations # 0 THEN "Busy" ELSE "Ok"

TableClosed(table) ==
  [table EXCEPT
    !.state = IF CloseStatus(table) = "Ok" THEN "Closed" ELSE "Draining",
    !.rows = [r \in Rows |->
                IF r \notin Holding(table) THEN table.rows[r]
                ELSE IF CloseStatus(table) = "Ok" THEN Cleared(table.rows[r])
                ELSE [table.rows[r] EXCEPT !.state = "Closing"]]]
=============================================================================
