--------------------------- MODULE MCHandleTable ---------------------------
(* Instances of HandleTable for TLC: every object an Event. *)
EXTENDS HandleTable, TLC

MCObjType == [o \in Objects |-> "Event"]
MCNarrowing == {{"Duplicate", "Wait"}, {"Duplicate"}}
MCOneRight == {{"Duplicate"}}
Symmetry == Permutations(Threads) \cup Permutations(Objects) \cup Permutations(Tables)
=============================================================================
