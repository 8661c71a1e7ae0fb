----------------------------- MODULE MC_Archive -----------------------------
(* Small instances of Archive. *)
EXTENDS Archive, TLC

CONSTANTS p1, p2, l1, l2

\* A lane without records of its own, one with a lease, one with both.
MCSupport == {{}, {"lease"}, {"lease", "profile"}}
MCFull == {{"lease", "profile"}}

\* Bound: a second command runs beside the first only where nothing has been
\* stopped or moved from outside, and on the busy lane.
MCBeside ==
  \/ Cardinality({p \in Proc : pc[p] # "idle"}) <= 1
  \/ /\ stops = 0 /\ moved = {}
     /\ \A p \in Proc : pc[p] # "idle" => LanesOf(job[p].plan) = Busy

MCSymmetry == Permutations(Proc)
=============================================================================
