---------------------------- MODULE MC_LaneSetup ----------------------------
(* Setups that want the same lane, the same checkout or the same paths: one  *)
(* creates its linked checkout, others run in that one or in the main one.   *)
EXTENDS LaneSetup, TLC

CONSTANTS p1, p2, l1, l2, a1, a2, main, linked, x, y

MCSetup == {
  [lane |-> l1, agent |-> a1, mode |-> "worktree", tree |-> linked, paths |-> {x},
   create |-> TRUE, install |-> TRUE],
  [lane |-> l2, agent |-> a2, mode |-> "worktree", tree |-> linked, paths |-> {y},
   create |-> FALSE, install |-> FALSE],
  [lane |-> l1, agent |-> a2, mode |-> "shared", tree |-> main, paths |-> {x, y},
   create |-> FALSE, install |-> TRUE],
  [lane |-> l2, agent |-> a2, mode |-> "shared", tree |-> main, paths |-> {y},
   create |-> FALSE, install |-> FALSE]}

MCSymmetry == Permutations(Proc)
=============================================================================
