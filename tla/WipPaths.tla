------------------------------ MODULE WipPaths ------------------------------
(***************************************************************************)
(* Portable path identity (internal/pathid).  A repository path is a       *)
(* non-empty sequence of components; two spellings of a component are the  *)
(* same file exactly when they have the same key (NFC, case folding and    *)
(* lower case, abstracted to the idempotent function Fold).  Leases and    *)
(* split groups are sets of such paths, each read as the scope of          *)
(* everything at or below it.                                              *)
(***************************************************************************)
EXTENDS Integers, Sequences

CONSTANTS Component,   \* spellings of one path component
          Fold,        \* the canonical spelling of each component
          Path         \* the repository paths of the instance

ASSUME PathAssumption ==
  /\ Fold \in [Component -> Component]
  /\ \A c \in Component : Fold[Fold[c]] = Fold[c]
  /\ \A p \in Path : p \in Seq(Component) /\ p # <<>>

\* The canonical key of a path, component by component.
Key(p) == [n \in 1..Len(p) |-> Fold[p[n]]]

\* p is the scope itself or lies below it, at a component boundary.
AtOrBelow(p, scope) ==
  /\ Len(scope) <= Len(p)
  /\ \A n \in 1..Len(scope) : Key(p)[n] = Key(scope)[n]

\* One of the two paths is the other or a component prefix of it.
Overlap(p, q) == AtOrBelow(p, q) \/ AtOrBelow(q, p)

\* p is at or below one of the scopes.
Covered(p, scopes) == \E s \in scopes : AtOrBelow(p, s)

\* Two scope sets with a path of one overlapping a path of the other.
ScopesOverlap(S, T) == \E p \in S, q \in T : Overlap(p, q)

\* What NormalizePaths accepts: some path, and no two spellings of one key.
Normalized(S) ==
  /\ S # {}
  /\ \A p, q \in S : Key(p) = Key(q) => p = q
=============================================================================
