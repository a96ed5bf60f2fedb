--------------------------- MODULE MCKMessagePort ---------------------------
(* Instances of KMessagePort for TLC. *)
EXTENDS KMessagePort, TLC

Symmetry == Permutations(Workers) \cup Permutations(Tasks \ Workers)
=============================================================================
