------------------------------ MODULE MCHandoff ------------------------------
(* Small instances of Handoff for TLC.                                       *)
EXTENDS Handoff, TLC

CONSTANTS r1, r2, a1, a2, a3
=============================================================================
