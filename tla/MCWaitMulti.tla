---------------------------- MODULE MCWaitMulti ----------------------------
(* Instances of WaitMulti, and of KEvent alone, for TLC. *)
EXTENDS WaitMulti

CONSTANT e1

Symmetry == Permutations(Tasks \ MultiTasks) \cup Permutations(MultiTasks)
OneEvent == {<<e1>>}
TwiceListed == {<<e1, e1>>}
=============================================================================
