------------------------------ MODULE MCWarRoom ------------------------------
(* Small instances of WarRoom for TLC.                                       *)
EXTENDS WarRoom, TLC

CONSTANTS s1, s2, s3, a1, a2, c1, c2

OneAgent  == {{a1}}
TwoAgents == {{a1, a2}}
Symmetry  == Permutations(Session) \cup Permutations(Caller)
=============================================================================
