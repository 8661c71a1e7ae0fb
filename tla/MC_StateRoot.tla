---------------------------- MODULE MC_StateRoot ----------------------------
(* Small instance of StateRoot: two processes, two releases and the legacy  *)
(* tool, one loss of power, three bodies of the record.                       *)
EXTENDS StateRoot, TLC

CONSTANTS p1, p2, v1, v2

RootSymmetry == Permutations(Proc) \cup Permutations(Version)
=============================================================================
