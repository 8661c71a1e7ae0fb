------------------------------ MODULE PathTrie ------------------------------
(***************************************************************************)
(* The audit that every refresh of a lease makes                            *)
(* (internal/store/store.go FindActiveLeaseConflict): the active leased     *)
(* paths go one by one into a trie over the components of their keys; each  *)
(* is first looked up for an owner above, at or below it that belongs to    *)
(* another lane.  WipPaths!Overlap is what the lookup stands for.           *)
(*                                                                         *)
(* The code sorts the owners, which makes its answer deterministic; here    *)
(* they come in any order and any of the owners a node offers is reported.  *)
(***************************************************************************)
EXTENDS WipPaths, FiniteSets

CONSTANTS Lane,        \* lanes
          MaxOwners,   \* bound on the leased paths of an instance
          None         \* no conflict

Owner == [lane : Lane, path : Path]

ASSUME TrieAssumption == MaxOwners \in Nat /\ None \notin Owner \X Owner

VARIABLES todo,        \* active leased paths still to look up
          seen,        \* those in the trie
          terminal,    \* owners by the node of their key, one per lane
          descendant,  \* owners by every node down to their key, one per lane
          conflict     \* the answer: two owners, or None

vars == <<todo, seen, terminal, descendant, conflict>>

Overlapping(o, q) == o.lane # q.lane /\ Overlap(o.path, q.path)
-----------------------------------------------------------------------------
Init ==
  /\ todo \in SUBSET Owner /\ Cardinality(todo) <= MaxOwners
  /\ seen = {} /\ terminal = {} /\ descendant = {}
  /\ conflict = None

\* The node of the first n components of a key.
Node(key, n) == [i \in 1..n |-> key[i]]

\* Nodes exist once something has been inserted below them.
Reached(key, n) == \A m \in 1..n : \E e \in descendant : e.node = Node(key, m)

\* The owners of other lanes at a node.
Others(entries, node, lane) ==
  {e.owner : e \in {e \in entries : e.node = node /\ e.owner.lane # lane}}

\* Mutant: only the node of the whole key is asked.
FindOverlap_Exact(o) ==
  LET key == Key(o.path) IN
  Others(terminal, key, o.lane) \cup Others(descendant, key, o.lane)

\* Mutant: an owner of the same lane is reported too.
FindOverlap_AnyLane(o) ==
  LET key == Key(o.path) IN
  {e.owner : e \in {e \in descendant : e.node = key}}

\* The terminals on the way down, then everything at or below the last node.
FindOverlap(o) ==
  LET key == Key(o.path) IN
  (UNION {Others(terminal, Node(key, n), o.lane) : n \in {n \in 0..Len(key) : Reached(key, n)}})
    \cup Others(descendant, key, o.lane)

\* A map entry of a lane is replaced by a later owner of the lane.
Put(entries, node, o) ==
  {e \in entries : e.node # node \/ e.owner.lane # o.lane} \cup {[node |-> node, owner |-> o]}

Insert(o) ==
  LET key == Key(o.path)
      nodes == {Node(key, n) : n \in 0..Len(key)} IN
  /\ terminal' = Put(terminal, key, o)
  /\ descendant' = {e \in descendant : e.node \notin nodes \/ e.owner.lane # o.lane}
                     \cup {[node |-> n, owner |-> o] : n \in nodes}

Scan(o) ==
  /\ conflict = None
  /\ todo' = todo \ {o}
  /\ IF FindOverlap(o) # {}
       THEN /\ \E q \in FindOverlap(o) : conflict' = <<q, o>>
            /\ UNCHANGED <<seen, terminal, descendant>>
       ELSE /\ Insert(o)
            /\ seen' = seen \cup {o}
            /\ UNCHANGED conflict

Next == \E o \in todo : Scan(o)

Spec == Init /\ [][Next]_vars
-----------------------------------------------------------------------------
(* Properties. *)

\* A reported pair belongs to two lanes and does overlap, in whatever spelling.
ReportedIsOverlap ==
  conflict # None => Overlapping(conflict[1], conflict[2])

\* Without a report no two leased paths of different lanes overlap: what was
\* replaced in a map of the trie is never missed.
ScanIsComplete ==
  conflict = None => \A o, q \in seen : ~Overlapping(o, q)
=============================================================================
