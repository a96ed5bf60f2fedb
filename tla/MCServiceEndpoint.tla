------------------------- MODULE MCServiceEndpoint -------------------------
(* Instances of ServiceEndpointIngress for TLC. *)
EXTENDS ServiceEndpointIngress, TLC

Symmetry == Permutations(Threads)
=============================================================================
