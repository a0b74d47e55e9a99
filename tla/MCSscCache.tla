----------------------------- MODULE MCSscCache -----------------------------
(* SscCache for TLC: small sets of model values and the symmetry of those    *)
(* that are interchangeable.                                                 *)
EXTENDS SscCache, TLC

CONSTANTS k1, k2, k3, k4, k5, f1, f2, f3, f4, v1, v2

Symmetry == Permutations(Keys) \cup Permutations(FakeKeys) \cup Permutations(Values \ {Empty})
=============================================================================
