---------------------------- MODULE PathTrieProofs ----------------------------
(***************************************************************************)
(* The trie audit finds an overlap exactly when there is one, for every set *)
(* of lanes and paths and whatever order the leased paths come in.          *)
(***************************************************************************)
EXTENDS PathTrie, TLAPS

(* What the maps of the trie say of the paths inserted so far.  An entry may *)
(* have been replaced by one of the same lane, never by nothing.             *)

Types == todo \subseteq Owner /\ seen \subseteq Owner /\ (conflict = None \/ conflict \in Owner \X Owner)

TerminalSound ==
  \A e \in terminal : e.owner \in seen /\ e.node = Key(e.owner.path)
TerminalComplete ==
  \A q \in seen : \E e \in terminal : e.node = Key(q.path) /\ e.owner.lane = q.lane
DescendantSound ==
  \A e \in descendant :
    e.owner \in seen /\ \E n \in 0..Len(Key(e.owner.path)) : e.node = Node(Key(e.owner.path), n)
DescendantComplete ==
  \A q \in seen : \A n \in 0..Len(Key(q.path)) :
    \E e \in descendant : e.node = Node(Key(q.path), n) /\ e.owner.lane = q.lane

IInv == /\ Types
        /\ TerminalSound /\ TerminalComplete /\ DescendantSound /\ DescendantComplete
        /\ ReportedIsOverlap /\ ScanIsComplete
-----------------------------------------------------------------------------
(* Keys and nodes. *)

LEMMA KeyType ==
  ASSUME NEW p \in Path
  PROVE  /\ Len(p) \in Nat /\ Len(Key(p)) = Len(p)
         /\ Key(p) = [n \in 1..Len(p) |-> Fold[p[n]]]
<1>1. p \in Seq(Component) /\ Len(p) \in Nat
  BY PathAssumption
<1>2. \A n \in 1..Len(p) : Fold[p[n]] \in Component
  BY <1>1, PathAssumption
<1>3. Key(p) \in Seq(Component) /\ Len(Key(p)) = Len(p)
  BY <1>1, <1>2 DEF Key
<1>. QED BY <1>1, <1>3 DEF Key

LEMMA SameLength ==
  ASSUME NEW n \in Nat, NEW m \in Nat, 1..n = 1..m
  PROVE  n = m
<1>1. n # 0 => n \in 1..m
  OBVIOUS
<1>2. m # 0 => m \in 1..n
  OBVIOUS
<1>. QED BY <1>1, <1>2

\* A key that is a node of another key belongs to a path above the other.
LEMMA NodeIsAbove ==
  ASSUME NEW p \in Path, NEW q \in Path, NEW n \in 0..Len(Key(p)), Key(q) = Node(Key(p), n)
  PROVE  AtOrBelow(p, q)
<1>1. n \in Nat /\ n <= Len(p) /\ Len(q) \in Nat /\ Len(p) \in Nat
  BY KeyType
<1>2. DOMAIN Key(q) = 1..Len(q)
  BY KeyType
<1>3. DOMAIN Node(Key(p), n) = 1..n
  BY DEF Node
<1>4. Len(q) = n
  BY <1>1, <1>2, <1>3, SameLength
<1>5. \A i \in 1..Len(q) : Key(q)[i] = Key(p)[i]
  BY <1>4 DEF Node
<1>. QED BY <1>1, <1>4, <1>5 DEF AtOrBelow

\* The nodes of a path above another are nodes of the other, the last its key.
LEMMA AboveIsNode ==
  ASSUME NEW p \in Path, NEW q \in Path, AtOrBelow(p, q)
  PROVE  /\ Len(Key(q)) \in 0..Len(Key(p))
         /\ Key(q) = Node(Key(p), Len(Key(q)))
         /\ \A m \in 0..Len(Key(q)) : Node(Key(q), m) = Node(Key(p), m)
<1>1. Len(q) \in Nat /\ Len(p) \in Nat /\ Len(Key(q)) = Len(q) /\ Len(Key(p)) = Len(p)
  BY KeyType
<1>2. Len(q) <= Len(p) /\ \A i \in 1..Len(q) : Key(p)[i] = Key(q)[i]
  BY DEF AtOrBelow
<1>3. Key(q) = [i \in 1..Len(q) |-> Key(q)[i]]
  BY KeyType
<1>4. Key(q) = Node(Key(p), Len(q))
  BY <1>2, <1>3 DEF Node
<1>5. ASSUME NEW m \in 0..Len(q)
      PROVE  Node(Key(q), m) = Node(Key(p), m)
  <2>1. \A i \in 1..m : Key(p)[i] = Key(q)[i]
    BY <1>1, <1>2
  <2>. QED BY <2>1 DEF Node
<1>. QED BY <1>1, <1>2, <1>4, <1>5
-----------------------------------------------------------------------------
(* The lookup. *)

\* Whatever the lookup returns overlaps and belongs to another lane.
LEMMA LookupSound ==
  ASSUME IInv, NEW o \in Owner, NEW q \in FindOverlap(o)
  PROVE  q \in seen /\ Overlapping(q, o)
<1>1. o.path \in Path /\ \A x \in seen : x.path \in Path
  BY DEF IInv, Types, Owner
<1>2. CASE q \in Others(descendant, Key(o.path), o.lane)
  <2>1. PICK e \in descendant : e.node = Key(o.path) /\ e.owner = q /\ q.lane # o.lane
    BY <1>2 DEF Others
  <2>2. q \in seen /\ \E n \in 0..Len(Key(q.path)) : Key(o.path) = Node(Key(q.path), n)
    BY <2>1 DEF IInv, DescendantSound
  <2>3. AtOrBelow(q.path, o.path)
    BY <1>1, <2>2, NodeIsAbove
  <2>. QED BY <2>1, <2>2, <2>3 DEF Overlapping, Overlap
<1>3. CASE \E n \in 0..Len(Key(o.path)) : q \in Others(terminal, Node(Key(o.path), n), o.lane)
  <2>1. PICK n \in 0..Len(Key(o.path)) : q \in Others(terminal, Node(Key(o.path), n), o.lane)
    BY <1>3
  <2>2. PICK e \in terminal : e.node = Node(Key(o.path), n) /\ e.owner = q /\ q.lane # o.lane
    BY <2>1 DEF Others
  <2>3. q \in seen /\ Key(q.path) = Node(Key(o.path), n)
    BY <2>2 DEF IInv, TerminalSound
  <2>4. AtOrBelow(o.path, q.path)
    BY <1>1, <2>3, NodeIsAbove
  <2>. QED BY <2>2, <2>3, <2>4 DEF Overlapping, Overlap
<1>. QED BY <1>2, <1>3 DEF FindOverlap

\* An inserted path of another lane that overlaps is found, possibly under
\* another path of its lane that has taken its place.
LEMMA LookupComplete ==
  ASSUME IInv, NEW o \in Owner, NEW q \in seen, Overlapping(o, q)
  PROVE  FindOverlap(o) # {}
<1>1. o.path \in Path /\ q.path \in Path /\ q.lane # o.lane
  BY DEF IInv, Types, Owner, Overlapping
<1>2. CASE AtOrBelow(q.path, o.path)
  <2>1. Len(Key(o.path)) \in 0..Len(Key(q.path)) /\ Key(o.path) = Node(Key(q.path), Len(Key(o.path)))
    BY <1>1, <1>2, AboveIsNode
  <2>2. PICK e \in descendant : e.node = Key(o.path) /\ e.owner.lane = q.lane
    BY <2>1 DEF IInv, DescendantComplete
  <2>3. e.owner \in Others(descendant, Key(o.path), o.lane)
    BY <1>1, <2>2 DEF Others
  <2>. QED BY <2>3 DEF FindOverlap
<1>3. CASE AtOrBelow(o.path, q.path)
  <2>. DEFINE n == Len(Key(q.path))
  <2>1. /\ n \in 0..Len(Key(o.path)) /\ Key(q.path) = Node(Key(o.path), n)
        /\ \A m \in 0..n : Node(Key(q.path), m) = Node(Key(o.path), m)
    BY <1>1, <1>3, AboveIsNode
  <2>2. PICK e \in terminal : e.node = Key(q.path) /\ e.owner.lane = q.lane
    BY DEF IInv, TerminalComplete
  <2>3. e.owner \in Others(terminal, Node(Key(o.path), n), o.lane)
    BY <1>1, <2>1, <2>2 DEF Others
  <2>4. n \in Nat
    BY <1>1, KeyType
  <2>5. ASSUME NEW m \in 1..n
        PROVE  \E d \in descendant : d.node = Node(Key(o.path), m)
    <3>1. m \in 0..n
      BY <2>4
    <3>2. PICK d \in descendant : d.node = Node(Key(q.path), m)
      BY <3>1 DEF IInv, DescendantComplete
    <3>. QED BY <2>1, <3>1, <3>2
  <2>6. Reached(Key(o.path), n)
    BY <2>5 DEF Reached
  <2>. HIDE DEF n
  <2>. QED BY <2>1, <2>3, <2>6 DEF FindOverlap
<1>. QED BY <1>2, <1>3 DEF Overlapping, Overlap
-----------------------------------------------------------------------------
(* Insertion. *)

LEMMA InsertSound ==
  ASSUME IInv, NEW o \in Owner, Insert(o), seen' = seen \cup {o}
  PROVE  TerminalSound' /\ DescendantSound'
<1>1. TerminalSound'
  BY DEF IInv, TerminalSound, Insert, Put
<1>2. DescendantSound'
  <2>. SUFFICES ASSUME NEW e \in descendant'
                PROVE  /\ e.owner \in seen'
                       /\ \E n \in 0..Len(Key(e.owner.path)) : e.node = Node(Key(e.owner.path), n)
    BY DEF DescendantSound
  <2>1. CASE e \in descendant
    BY <2>1 DEF IInv, DescendantSound
  <2>2. CASE \E n \in 0..Len(Key(o.path)) : e = [node |-> Node(Key(o.path), n), owner |-> o]
    BY <2>2
  <2>. QED BY <2>1, <2>2 DEF Insert
<1>. QED BY <1>1, <1>2

\* An entry that is replaced leaves one of the same node and lane.
LEMMA InsertComplete ==
  ASSUME IInv, NEW o \in Owner, Insert(o), seen' = seen \cup {o}
  PROVE  TerminalComplete' /\ DescendantComplete'
<1>. DEFINE nodes == {Node(Key(o.path), n) : n \in 0..Len(Key(o.path))}
<1>1. [node |-> Key(o.path), owner |-> o] \in terminal'
  BY DEF Insert, Put
<1>2. ASSUME NEW e \in terminal
      PROVE  \E f \in terminal' : f.node = e.node /\ f.owner.lane = e.owner.lane
  <2>1. CASE e.node = Key(o.path) /\ e.owner.lane = o.lane
    BY <1>1, <2>1
  <2>2. CASE e.node # Key(o.path) \/ e.owner.lane # o.lane
    BY <2>2 DEF Insert, Put
  <2>. QED BY <2>1, <2>2
<1>3. TerminalComplete'
  <2>. SUFFICES ASSUME NEW q \in seen'
                PROVE  \E e \in terminal' : e.node = Key(q.path) /\ e.owner.lane = q.lane
    BY DEF TerminalComplete
  <2>1. CASE q = o
    BY <1>1, <2>1
  <2>2. CASE q \in seen
    BY <1>2, <2>2 DEF IInv, TerminalComplete
  <2>. QED BY <2>1, <2>2
<1>4. \A x \in nodes : [node |-> x, owner |-> o] \in descendant'
  BY DEF Insert
<1>5. ASSUME NEW e \in descendant
      PROVE  \E f \in descendant' : f.node = e.node /\ f.owner.lane = e.owner.lane
  <2>1. CASE e.node \in nodes /\ e.owner.lane = o.lane
    BY <1>4, <2>1
  <2>2. CASE e.node \notin nodes \/ e.owner.lane # o.lane
    BY <2>2 DEF Insert
  <2>. QED BY <2>1, <2>2
<1>6. DescendantComplete'
  <2>. SUFFICES ASSUME NEW q \in seen', NEW n \in 0..Len(Key(q.path))
                PROVE  \E e \in descendant' : e.node = Node(Key(q.path), n) /\ e.owner.lane = q.lane
    BY DEF DescendantComplete
  <2>1. CASE q = o
    <3>1. Node(Key(q.path), n) \in nodes
      BY <2>1
    <3>. QED BY <1>4, <2>1, <3>1
  <2>2. CASE q \in seen
    <3>1. PICK e \in descendant : e.node = Node(Key(q.path), n) /\ e.owner.lane = q.lane
      BY <2>2 DEF IInv, DescendantComplete
    <3>. QED BY <1>5, <3>1
  <2>. QED BY <2>1, <2>2
<1>. QED BY <1>3, <1>6
-----------------------------------------------------------------------------
LEMMA InitIInv == Init => IInv
BY DEF Init, IInv, Types, TerminalSound, TerminalComplete, DescendantSound, DescendantComplete,
       ReportedIsOverlap, ScanIsComplete

LEMMA StepIInv == IInv /\ [Next]_vars => IInv'
<1>. SUFFICES ASSUME IInv, [Next]_vars PROVE IInv'
  OBVIOUS
<1>. USE DEF IInv
<1>1. CASE UNCHANGED vars
  BY <1>1 DEF vars, Types, TerminalSound, TerminalComplete, DescendantSound, DescendantComplete,
              ReportedIsOverlap, ScanIsComplete
<1>2. ASSUME NEW o \in todo, Scan(o)
      PROVE  IInv'
  <2>1. o \in Owner /\ conflict = None
    BY <1>2 DEF Types, Scan
  <2>2. CASE FindOverlap(o) # {}
    <3>1. PICK q \in FindOverlap(o) : conflict' = <<q, o>>
      BY <1>2, <2>2 DEF Scan
    <3>2. UNCHANGED <<seen, terminal, descendant>> /\ todo' \subseteq todo
      BY <1>2, <2>2 DEF Scan
    <3>3. q \in Owner /\ Overlapping(q, o)
      BY <2>1, LookupSound DEF Types
    <3>4. conflict' \in Owner \X Owner /\ conflict' # None
      BY <2>1, <3>1, <3>3, TrieAssumption
    <3>5. Types' /\ ReportedIsOverlap' /\ ScanIsComplete'
      BY <3>1, <3>2, <3>3, <3>4 DEF Types, ReportedIsOverlap, ScanIsComplete
    <3>. QED BY <3>2, <3>5 DEF TerminalSound, TerminalComplete, DescendantSound, DescendantComplete
  <2>3. CASE FindOverlap(o) = {}
    <3>1. Insert(o) /\ seen' = seen \cup {o} /\ conflict' = conflict /\ todo' \subseteq todo
      BY <1>2, <2>3 DEF Scan
    <3>2. \A q \in seen : ~Overlapping(o, q)
      BY <2>1, <2>3, LookupComplete
    <3>3. ScanIsComplete'
      <4>1. \A q \in seen : ~Overlapping(q, o)
        BY <3>2 DEF Overlapping, Overlap
      <4>2. ~Overlapping(o, o)
        BY DEF Overlapping
      <4>3. \A x, y \in seen : ~Overlapping(x, y)
        BY <2>1 DEF ScanIsComplete
      <4>4. \A x, y \in seen' : ~Overlapping(x, y)
        BY <3>1, <3>2, <4>1, <4>2, <4>3
      <4>. QED BY <4>4 DEF ScanIsComplete
    <3>4. Types' /\ ReportedIsOverlap'
      BY <2>1, <3>1 DEF Types, ReportedIsOverlap
    <3>. QED BY <2>1, <3>1, <3>3, <3>4, InsertSound, InsertComplete
  <2>. QED BY <2>2, <2>3
<1>. QED BY <1>1, <1>2 DEF Next

\* A reported pair of leased paths belongs to two lanes and overlaps, in whatever
\* spelling: the audit never refuses a lease set without a reason.
THEOREM AuditSound == Spec => []ReportedIsOverlap
<1>1. IInv => ReportedIsOverlap
  BY DEF IInv
<1>. QED BY InitIInv, StepIInv, <1>1, PTL DEF Spec

\* A lease set that passes the audit has no overlap between two lanes, although
\* each map of the trie keeps one path per lane only.
THEOREM AuditComplete == Spec => []ScanIsComplete
<1>1. IInv => ScanIsComplete
  BY DEF IInv
<1>. QED BY InitIInv, StepIInv, <1>1, PTL DEF Spec
=============================================================================
