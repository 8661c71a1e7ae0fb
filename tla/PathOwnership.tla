---------------------------- MODULE PathOwnership ----------------------------
(***************************************************************************)
(* What the lease registry promises its clients: at every moment each open *)
(* lane owns a set of path scopes, scopes of two lanes never overlap, a    *)
(* lane gains scopes only while it is open, and a closed lane owns nothing *)
(* ever again.  Ownership may lapse at any time, several lanes at once     *)
(* (leases expire).                                                        *)
(***************************************************************************)
EXTENDS WipPaths

CONSTANT Lane

VARIABLES held,   \* the path scopes each lane owns now
          open    \* whether the lane still takes part

Init ==
  /\ held = [l \in Lane |-> {}]
  /\ open = [l \in Lane |-> TRUE]

\* One lane gains scopes that overlap nothing another lane owns.
Gain(l, S) ==
  /\ open[l]
  /\ \A m \in Lane \ {l} : ~ScopesOverlap(S, held[m])
  /\ held' = [held EXCEPT ![l] = @ \cup S]
  /\ UNCHANGED open

\* Leases expire or are given up.
Lapse ==
  /\ held' = [l \in Lane |-> held'[l]]
  /\ \A l \in Lane : held'[l] \subseteq held[l]
  /\ UNCHANGED open

\* A lane that owns nothing is released or aborted, for good.
Close(l) ==
  /\ held[l] = {}
  /\ open' = [open EXCEPT ![l] = FALSE]
  /\ UNCHANGED held

Next ==
  \/ \E l \in Lane, S \in SUBSET Path : Gain(l, S)
  \/ Lapse
  \/ \E l \in Lane : Close(l)

Spec == Init /\ [][Next]_<<held, open>>
=============================================================================
