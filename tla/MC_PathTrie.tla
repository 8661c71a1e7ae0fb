----------------------------- MODULE MC_PathTrie -----------------------------
(* Paths of up to three components, one of which has two spellings. *)
EXTENDS PathTrie, TLC

CONSTANTS a, A, b, l1, l2, l3

MCFold == [c \in {a, A, b} |-> IF c = A THEN a ELSE c]
MCPath == {<<a>>, <<A>>, <<b>>, <<a, b>>, <<A, b>>, <<b, a>>, <<a, b, a>>, <<b, A, b>>}

MCSymmetry == Permutations(Lane)
=============================================================================
