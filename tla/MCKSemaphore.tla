---------------------------- MODULE MCKSemaphore ----------------------------
(* Instances of KSemaphore for TLC. *)
EXTENDS KSemaphore, TLC

Symmetry == Permutations(Tasks)
=============================================================================
