------------------------------ MODULE MCProxy ------------------------------
(* Proxy for TLC: a file of three blobs at two replicas.                     *)
EXTENDS Proxy, TLC

CONSTANTS c1, c2

Symmetry == Permutations(Replicas)
=============================================================================
