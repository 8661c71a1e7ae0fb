----------------------------- MODULE LaneHistory -----------------------------
(***************************************************************************)
(* What captures promise about the history of a lane: it only grows; a     *)
(* capture adds all the commits of its plan at once or none, in the order  *)
(* of the plan, none of them empty and each within its own group of paths; *)
(* it does so on an open lane whose recorded commit is its last one; what  *)
(* is recorded is always the history of that moment, and a lane is closed  *)
(* for good.  Commits from outside may come in between.                    *)
(***************************************************************************)
EXTENDS Integers, SequencesExt

CONSTANTS Lane,  \* lanes
          Path,  \* repository paths
          Base,  \* the content of every path before the first commit
          Plan   \* plans: sequences of groups of paths

VARIABLES history,  \* the commits of each lane
          recorded, \* the history its manifest tells of
          open      \* whether the lane still takes captures

Init ==
  /\ history = [l \in Lane |-> <<>>]
  /\ recorded = [l \in Lane |-> <<>>]
  /\ open = [l \in Lane |-> TRUE]

\* The paths whose content the n-th commit of a history changes.
Touched(h, n) ==
  {x \in Path : h[n].tree[x] # IF n = 1 THEN Base ELSE h[n - 1].tree[x]}

\* One lane gets n more commits on top of those it has.
Grows(l, n) ==
  /\ IsPrefix(history[l], history'[l])
  /\ Len(history'[l]) = Len(history[l]) + n
  /\ \A m \in Lane \ {l} : history'[m] = history[m]
  /\ UNCHANGED <<recorded, open>>

\* A capture.
Advance(l, plan) ==
  /\ open[l]
  /\ recorded[l] = history[l]
  /\ Grows(l, Len(plan))
  /\ \A n \in 1..Len(plan) :
       LET changes == Touched(history'[l], Len(history[l]) + n) IN
       changes # {} /\ changes \subseteq plan[n]

\* Somebody else commits to the lane.
Foreign(l) == Grows(l, 1)

\* The end of a capture, or a reconciliation.
Record(l) ==
  /\ recorded' = [recorded EXCEPT ![l] = history[l]]
  /\ UNCHANGED <<history, open>>

Close(l) ==
  /\ open' = [open EXCEPT ![l] = FALSE]
  /\ UNCHANGED <<history, recorded>>

Next ==
  \E l \in Lane :
    \/ \E plan \in Plan : Advance(l, plan)
    \/ Foreign(l) \/ Record(l) \/ Close(l)

Spec == Init /\ [][Next]_<<history, recorded, open>>
=============================================================================
