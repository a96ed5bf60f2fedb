------------------------------ MODULE MCKMutex ------------------------------
(* Instances of KMutex for TLC. *)
EXTENDS KMutex, TLC

Symmetry == Permutations(Tasks)
=============================================================================
