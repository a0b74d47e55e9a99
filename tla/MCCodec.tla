------------------------------ MODULE MCCodec ------------------------------
(* Constants of Codec for TLC: the units are scaled down, not their order. *)
EXTENDS Codec

MCSizes == 1 .. 26
MCSkips == {0, 1, 5, 27}
=============================================================================
