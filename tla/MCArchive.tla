----------------------------- MODULE MCArchive -----------------------------
(* Constants of Archive for TLC. *)
EXTENDS Archive

CONSTANTS f1, f2

MCBatches == {<<f1, f2>>}
MCOptions == {o \in [replicate : BOOLEAN, dryRun : BOOLEAN] : ~ (o.replicate /\ o.dryRun)}
MCSizes == <<5, 1>>
=============================================================================
