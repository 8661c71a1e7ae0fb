----------------------------- MODULE MC_Capture -----------------------------
(* Small instances of Capture: one checkout, one or two lanes, two paths.   *)
EXTENDS Capture

CONSTANTS p1, p2, l1, l2, a, b

\* One path, two commits of one path each, one commit of two paths.
MCPlan == {<<{a}>>, <<{a}, {b}>>, <<{a, b}>>}
MCShortPlan == {<<{a}>>, <<{b}>>}

MCSymmetry == Permutations(Proc) \cup Permutations(Lane)
=============================================================================
