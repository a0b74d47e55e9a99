---------------------------- MODULE MCSscShared ----------------------------
(* SscShared for TLC. *)
EXTENDS SscShared

CONSTANTS c1, c2, n1, n2, f1, f2
=============================================================================
