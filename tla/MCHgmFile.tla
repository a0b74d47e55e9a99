----------------------------- MODULE MCHgmFile -----------------------------
(* HgmFile for TLC: one or two requests on a file of a few bytes.            *)
EXTENDS HgmFile, TLC

CONSTANTS r1, r2

Symmetry == Permutations(Readers)
=============================================================================
