---------------------------- MODULE CaptureProofs ----------------------------
(***************************************************************************)
(* Proofs about Capture, for any number of commands, lanes, paths, plans   *)
(* and any bounds: each property of its safety run, from CaptureInv.       *)
(***************************************************************************)
EXTENDS Capture, TLAPS

-----------------------------------------------------------------------------
(* Sequences. *)

LEMMA PrefixElements ==
  ASSUME NEW S, NEW s \in Seq(S), NEW t \in Seq(S)
  PROVE  IsPrefix(s, t) <=> Len(s) <= Len(t) /\ \A n \in 1..Len(s) : s[n] = t[n]
<1>1. ASSUME IsPrefix(s, t) PROVE Len(s) <= Len(t) /\ \A n \in 1..Len(s) : s[n] = t[n]
  <2>1. Len(s) <= Len(t) /\ SubSeq(s, 1, Len(s)) = SubSeq(t, 1, Len(s))
    BY <1>1 DEF IsPrefix
  <2>2. \A n \in 1..Len(s) : SubSeq(s, 1, Len(s))[n] = s[n] /\ SubSeq(t, 1, Len(s))[n] = t[n]
    BY <2>1
  <2>. QED BY <2>1, <2>2
<1>2. ASSUME Len(s) <= Len(t), \A n \in 1..Len(s) : s[n] = t[n] PROVE IsPrefix(s, t)
  <2>1. SubSeq(s, 1, Len(s)) = SubSeq(t, 1, Len(s))
    BY <1>2
  <2>. QED BY <1>2, <2>1 DEF IsPrefix
<1>. QED BY <1>1, <1>2

LEMMA SameElements ==
  ASSUME NEW S, NEW s \in Seq(S), NEW t \in Seq(S), Len(s) = Len(t),
         \A n \in 1..Len(s) : s[n] = t[n]
  PROVE  s = t
OBVIOUS

LEMMA PrefixReflexive ==
  ASSUME NEW S, NEW s \in Seq(S)
  PROVE  IsPrefix(s, s)
BY PrefixElements

LEMMA PrefixTransitive ==
  ASSUME NEW S, NEW s \in Seq(S), NEW t \in Seq(S), NEW u \in Seq(S),
         IsPrefix(s, t), IsPrefix(t, u)
  PROVE  IsPrefix(s, u)
<1>1. Len(s) \in Nat /\ Len(t) \in Nat /\ Len(u) \in Nat
  OBVIOUS
<1>2. Len(s) <= Len(t) /\ \A n \in 1..Len(s) : s[n] = t[n]
  BY PrefixElements
<1>3. Len(t) <= Len(u) /\ \A n \in 1..Len(t) : t[n] = u[n]
  BY PrefixElements
<1>4. Len(s) <= Len(u) /\ \A n \in 1..Len(s) : s[n] = u[n]
  BY <1>1, <1>2, <1>3
<1>. QED BY <1>4, PrefixElements

LEMMA PrefixAppend ==
  ASSUME NEW S, NEW s \in Seq(S), NEW t \in Seq(S), NEW e \in S, IsPrefix(s, t)
  PROVE  /\ Append(t, e) \in Seq(S)
         /\ IsPrefix(s, Append(t, e))
         /\ s # Append(t, e)
<1>1. Len(s) \in Nat /\ Len(t) \in Nat /\ Len(Append(t, e)) = Len(t) + 1
  OBVIOUS
<1>2. Len(s) <= Len(t) /\ \A n \in 1..Len(s) : s[n] = t[n]
  BY PrefixElements
<1>3. Append(t, e) \in Seq(S) /\ \A n \in 1..Len(t) : Append(t, e)[n] = t[n]
  OBVIOUS
<1>4. Len(s) <= Len(Append(t, e)) /\ \A n \in 1..Len(s) : s[n] = Append(t, e)[n]
  BY <1>1, <1>2, <1>3
<1>5. IsPrefix(s, Append(t, e))
  BY <1>3, <1>4, PrefixElements
<1>6. s # Append(t, e)
  BY <1>1, <1>2
<1>. QED BY <1>3, <1>5, <1>6

LEMMA SubSeqAppend ==
  ASSUME NEW S, NEW t \in Seq(S), NEW e \in S
  PROVE  /\ \A n \in 0..Len(t) : SubSeq(Append(t, e), 1, n) = SubSeq(t, 1, n)
         /\ SubSeq(Append(t, e), 1, Len(t)) = t
         /\ SubSeq(Append(t, e), 1, Len(t) + 1) = Append(t, e)
<1>1. Len(t) \in Nat /\ Append(t, e) \in Seq(S) /\ Len(Append(t, e)) = Len(t) + 1
  OBVIOUS
<1>2. ASSUME NEW n \in 0..Len(t)
      PROVE  SubSeq(Append(t, e), 1, n) = SubSeq(t, 1, n)
  <2>1. \A k \in 1..n : Append(t, e)[k] = t[k]
    BY <1>1
  <2>. QED BY <1>1, <2>1
<1>3. SubSeq(t, 1, Len(t)) = t
  OBVIOUS
<1>4. SubSeq(Append(t, e), 1, Len(t) + 1) = Append(t, e)
  BY <1>1
<1>. QED BY <1>1, <1>2, <1>3, <1>4

LEMMA TailElements ==
  ASSUME NEW S, NEW s \in Seq(S), s # <<>>
  PROVE  /\ Tail(s) \in Seq(S) /\ Head(s) \in S /\ 1 \in DOMAIN s /\ Head(s) = s[1]
         /\ \A n \in DOMAIN Tail(s) : n + 1 \in DOMAIN s /\ Tail(s)[n] = s[n + 1]
OBVIOUS
-----------------------------------------------------------------------------
(* Commits. *)

Entry == [tree : Tree, at : Nat]

LEMMA TreeOfCommit ==
  ASSUME NEW c \in Commit
  PROVE  TreeOf(c) \in Tree
<1>1. CASE c = <<>>
  BY <1>1, CaptureAssumption DEF TreeOf, BaseTree, Tree
<1>2. CASE c # <<>>
  <2>. c \in Seq(Entry)
    BY DEF Commit, Entry
  <2>1. Len(c) \in 1..Len(c)
    BY <1>2
  <2>2. c[Len(c)] \in Entry
    BY <2>1
  <2>. QED BY <1>2, <2>2 DEF TreeOf, Last, Entry
<1>. QED BY <1>1, <1>2

LEMMA TreeOfAppend ==
  ASSUME NEW c \in Commit, NEW e \in Entry
  PROVE  Append(c, e) \in Commit /\ TreeOf(Append(c, e)) = e.tree
<1>1. c \in Seq(Entry)
  BY DEF Commit, Entry
<1>2. Append(c, e) \in Seq(Entry) /\ Len(Append(c, e)) = Len(c) + 1
  BY <1>1
<1>3. Append(c, e) # <<>> /\ Append(c, e)[Len(c) + 1] = e
  BY <1>1, <1>2
<1>. QED BY <1>2, <1>3 DEF Commit, Entry, TreeOf, Last

\* Nothing built yet.
LEMMA BuiltNothing ==
  ASSUME NEW c \in Commit, NEW R, NEW A
  PROVE  Built(c, c, R, A)
<1>1. IsPrefix(c, c)
  BY PrefixReflexive DEF Commit
<1>2. Changed(TreeOf(c), TreeOf(c)) = {}
  BY DEF Changed
<1>3. InScope(c, c, A)
  <2>1. Len(c) \in Nat
    BY DEF Commit
  <2>. QED BY <2>1 DEF InScope
<1>. QED BY <1>1, <1>2, <1>3 DEF Built

\* One more commit of a group in scope.
LEMMA BuiltAppend ==
  ASSUME NEW old \in Commit, NEW new \in Commit, NEW e \in Entry, NEW R, NEW A,
         Built(old, new, R, A), Changed(TreeOf(new), e.tree) \subseteq R \cap A
  PROVE  Built(old, Append(new, e), R, A) /\ old # Append(new, e)
<1>. DEFINE next == Append(new, e)
<1>1. old \in Seq(Entry) /\ new \in Seq(Entry) /\ next \in Seq(Entry)
  BY TreeOfAppend DEF Commit, Entry
<1>2. IsPrefix(old, next) /\ old # next
  <2>1. IsPrefix(old, new)
    BY DEF Built
  <2>. QED BY <1>1, <2>1, PrefixAppend
<1>3. TreeOf(next) = e.tree
  BY TreeOfAppend
<1>4. Changed(TreeOf(old), TreeOf(next)) \subseteq R \cap A
  BY <1>3 DEF Changed, Built
<1>5. ASSUME NEW n \in Len(old) + 1 .. Len(next)
      PROVE  Changed(TreeOf(SubSeq(next, 1, n - 1)), TreeOf(SubSeq(next, 1, n))) \subseteq A
  <2>1. Len(old) \in Nat /\ Len(new) \in Nat /\ Len(next) = Len(new) + 1
    BY <1>1
  <2>2. CASE n \in Len(old) + 1 .. Len(new)
    <3>1. n \in 0..Len(new) /\ n - 1 \in 0..Len(new)
      BY <2>1, <2>2
    <3>2. SubSeq(next, 1, n) = SubSeq(new, 1, n) /\ SubSeq(next, 1, n - 1) = SubSeq(new, 1, n - 1)
      BY <1>1, <3>1, SubSeqAppend
    <3>3. InScope(old, new, A)
      BY DEF Built
    <3>. HIDE DEF next
    <3>. QED BY <2>2, <3>2, <3>3 DEF InScope
  <2>3. CASE n = Len(new) + 1
    <3>1. SubSeq(next, 1, n) = next
      BY <1>1, <2>3, SubSeqAppend
    <3>2. n - 1 = Len(new)
      BY <2>1, <2>3
    <3>3. SubSeq(next, 1, n - 1) = new
      BY <1>1, <3>2, SubSeqAppend
    <3>. QED BY <1>3, <3>1, <3>3
  <2>. QED BY <2>1, <2>2, <2>3
<1>6. InScope(old, next, A)
  BY <1>5 DEF InScope
<1>. QED BY <1>2, <1>4, <1>6 DEF Built

\* No group is done yet.
LEMMA GroupedNothing ==
  ASSUME NEW c \in Commit, NEW plan
  PROVE  Grouped(c, c, plan) /\ Len(c) - Len(c) = 0
<1>1. Len(c) \in Nat
  BY DEF Commit
<1>. QED BY <1>1 DEF Grouped

\* One more commit is that of the next group.
LEMMA GroupedAppend ==
  ASSUME NEW old \in Commit, NEW new \in Commit, NEW e \in Entry, NEW plan \in Seq(SUBSET Path),
         IsPrefix(old, new), Grouped(old, new, plan),
         Changed(TreeOf(new), e.tree) # {},
         Changed(TreeOf(new), e.tree) \subseteq plan[Len(new) - Len(old) + 1]
  PROVE  /\ Grouped(old, Append(new, e), plan)
         /\ Len(Append(new, e)) - Len(old) = Len(new) - Len(old) + 1
<1>. DEFINE next == Append(new, e)
            step(c, k) == Changed(TreeOf(SubSeq(c, 1, k - 1)), TreeOf(SubSeq(c, 1, k)))
<1>1. /\ old \in Seq(Entry) /\ new \in Seq(Entry) /\ next \in Seq(Entry)
      /\ Len(old) \in Nat /\ Len(new) \in Nat /\ Len(next) = Len(new) + 1
  BY TreeOfAppend DEF Commit, Entry
<1>2. Len(old) <= Len(new)
  BY DEF IsPrefix
<1>3. TreeOf(next) = e.tree
  BY TreeOfAppend
<1>4. ASSUME NEW n \in 1 .. Len(next) - Len(old)
      PROVE  step(next, Len(old) + n) # {} /\ step(next, Len(old) + n) \subseteq plan[n]
  <2>. DEFINE k == Len(old) + n
  <2>1. CASE n \in 1 .. Len(new) - Len(old)
    <3>1. k \in 0..Len(new) /\ k - 1 \in 0..Len(new)
      BY <1>1, <2>1
    <3>2. SubSeq(next, 1, k) = SubSeq(new, 1, k) /\ SubSeq(next, 1, k - 1) = SubSeq(new, 1, k - 1)
      BY <1>1, <3>1, SubSeqAppend
    <3>3. step(new, k) # {} /\ step(new, k) \subseteq plan[n]
      BY <2>1 DEF Grouped
    <3>. HIDE DEF next
    <3>. QED BY <3>2, <3>3
  <2>2. CASE n = Len(new) - Len(old) + 1
    <3>1. k = Len(new) + 1 /\ k - 1 = Len(new)
      BY <1>1, <2>2
    <3>2. SubSeq(next, 1, k) = next /\ SubSeq(next, 1, k - 1) = new
      BY <1>1, <3>1, SubSeqAppend
    <3>. HIDE DEF next
    <3>. QED BY <1>3, <2>2, <3>2
  <2>. QED BY <1>1, <1>2, <2>1, <2>2
<1>5. Grouped(old, next, plan)
  <2>. HIDE DEF next
  <2>. QED BY <1>4 DEF Grouped
<1>. QED BY <1>1, <1>5

\* The groups that are left once the first of them is done.
LEMMA LeftTail ==
  ASSUME NEW plan \in Seq(SUBSET Path), NEW n \in 0 .. Len(plan),
         SubSeq(plan, n + 1, Len(plan)) # <<>>
  PROVE  /\ n + 1 \in 1 .. Len(plan)
         /\ Head(SubSeq(plan, n + 1, Len(plan))) = plan[n + 1]
         /\ Tail(SubSeq(plan, n + 1, Len(plan))) = SubSeq(plan, n + 2, Len(plan))
<1>. DEFINE left == SubSeq(plan, n + 1, Len(plan))
            rest == SubSeq(plan, n + 2, Len(plan))
<1>1. Len(plan) \in Nat /\ n \in Nat /\ n <= Len(plan)
  OBVIOUS
<1>2. n < Len(plan)
  <2>1. CASE n = Len(plan)
    BY <1>1, <2>1
  <2>. QED BY <1>1, <2>1
<1>3. /\ left \in Seq(SUBSET Path) /\ Len(left) = Len(plan) - n
      /\ \A i \in 1 .. Len(plan) - n : left[i] = plan[n + i]
  BY <1>1, <1>2
<1>4. /\ rest \in Seq(SUBSET Path) /\ Len(rest) = Len(plan) - n - 1
      /\ \A i \in 1 .. Len(plan) - n - 1 : rest[i] = plan[n + 1 + i]
  BY <1>1, <1>2
<1>. HIDE DEF left, rest
<1>5. /\ Tail(left) \in Seq(SUBSET Path) /\ Len(Tail(left)) = Len(plan) - n - 1
      /\ \A i \in 1 .. Len(plan) - n - 1 : Tail(left)[i] = left[i + 1]
  BY <1>1, <1>2, <1>3
<1>6. Tail(left) = rest
  <2>1. \A i \in 1 .. Len(plan) - n - 1 : Tail(left)[i] = rest[i]
    BY <1>1, <1>2, <1>3, <1>4, <1>5
  <2>2. Tail(left) \in Seq(SUBSET Path) /\ rest \in Seq(SUBSET Path)
    BY <1>4, <1>5
  <2>. QED BY <1>4, <1>5, <2>1, <2>2, SameElements
<1>7. Head(left) = plan[n + 1]
  BY <1>1, <1>2, <1>3
<1>. QED BY <1>1, <1>2, <1>6, <1>7 DEF left, rest
-----------------------------------------------------------------------------
(* The type invariant. *)

LEMMA IdleIsJob == Idle \in Job
<1>1. <<>> \in Commit /\ <<>> \in Seq(SUBSET Path)
  BY DEF Commit
<1>2. BaseTree \in Tree
  BY CaptureAssumption DEF BaseTree, Tree
<1>. QED BY <1>1, <1>2 DEF Idle, Job

\* What a group is built from and what the hook leaves of it.
LEMMA RepairedTree ==
  ASSUME TypeOK, NEW p \in Proc, job[p].left # <<>>, NEW fix \in SUBSET Path
  PROVE  /\ TreeOf(job[p].new) \in Tree
         /\ Repaired(p, fix) \in Tree
         /\ [tree |-> Repaired(p, fix), at |-> second] \in Entry
         /\ Append(job[p].new, [tree |-> Repaired(p, fix), at |-> second]) \in Commit
         /\ Tail(job[p].left) \in Seq(SUBSET Path)
<1>1. /\ job[p].new \in Commit /\ job[p].index \in Tree /\ job[p].left \in Seq(SUBSET Path)
      /\ second \in Nat
  BY DEF TypeOK, Job
<1>2. TreeOf(job[p].new) \in Tree
  BY <1>1, TreeOfCommit
<1>3. Staged(p) \in Tree
  BY <1>1, <1>2 DEF Staged, Tree
<1>4. Repaired(p, fix) \in Tree
  BY <1>3, CaptureAssumption DEF Repaired, Tree
<1>5. [tree |-> Repaired(p, fix), at |-> second] \in Entry
  BY <1>1, <1>4 DEF Entry
<1>6. Append(job[p].new, [tree |-> Repaired(p, fix), at |-> second]) \in Commit
  BY <1>1, <1>5, TreeOfAppend
<1>7. Tail(job[p].left) \in Seq(SUBSET Path)
  BY <1>1, TailElements
<1>. QED BY <1>2, <1>4, <1>5, <1>6, <1>7

\* No two receipts have one identifier.
Distinct == \A i, j \in intents : i.lane = j.lane /\ i.old = j.old /\ i.new = j.new => i = j

\* A receipt is only ever marked, never changed otherwise.
LEMMA MarkedReceipts ==
  ASSUME TypeOK, NEW p \in Proc, MarkApplied(p) \/ MarkComplete(p)
  PROVE  /\ intents' \subseteq ReceiptRecord
         /\ Distinct'
         /\ \A i \in intents' : \E j \in intents :
              /\ i.lane = j.lane /\ i.old = j.old /\ i.new = j.new
              /\ i.requested = j.requested /\ i.allowed = j.allowed
              /\ i.state # j.state => j \in Receipt(p)
         /\ \A j \in intents : \E i \in intents' :
              /\ i.lane = j.lane /\ i.old = j.old /\ i.new = j.new
              /\ i.requested = j.requested /\ i.allowed = j.allowed
              /\ i.state # j.state => j \in Receipt(p)
         /\ \A i \in intents \ Receipt(p) : i \in intents'
<1>1. PICK f \in [{"prepared", "applied", "complete"} -> {"prepared", "applied", "complete"}] :
        intents' = (intents \ Receipt(p)) \cup {[i EXCEPT !.state = f[i.state]] : i \in Receipt(p)}
  <2>. DEFINE marks == {"prepared", "applied", "complete"}
              apply == [x \in marks |-> IF x = "prepared" THEN "applied" ELSE x]
              finish == [x \in marks |-> "complete"]
  <2>1. apply \in [marks -> marks] /\ finish \in [marks -> marks]
    OBVIOUS
  <2>2. \A i \in Receipt(p) : i.state \in marks
    BY DEF TypeOK, ReceiptRecord, Receipt
  <2>3. CASE MarkApplied(p)
    <3>1. intents' = (intents \ Receipt(p)) \cup {[i EXCEPT !.state = apply[i.state]] : i \in Receipt(p)}
      BY <2>2, <2>3 DEF MarkApplied
    <3>. QED BY <2>1, <3>1
  <2>4. CASE MarkComplete(p)
    <3>1. intents' = (intents \ Receipt(p)) \cup {[i EXCEPT !.state = finish[i.state]] : i \in Receipt(p)}
      BY <2>2, <2>4 DEF MarkComplete
    <3>. QED BY <2>1, <3>1
  <2>. QED BY <2>3, <2>4
<1>2. intents \subseteq ReceiptRecord /\ Receipt(p) \subseteq intents /\ Distinct
  BY DEF TypeOK, Receipt, Distinct
<1>3. \A i \in Receipt(p) :
        LET m == [i EXCEPT !.state = f[i.state]] IN
        /\ m \in ReceiptRecord
        /\ m.lane = i.lane /\ m.old = i.old /\ m.new = i.new
        /\ m.requested = i.requested /\ m.allowed = i.allowed
  BY <1>1, <1>2 DEF ReceiptRecord
<1>. DEFINE M(i) == IF i \in Receipt(p) THEN [i EXCEPT !.state = f[i.state]] ELSE i
<1>4. intents' = {M(i) : i \in intents}
  BY <1>1, <1>2
<1>5. \A i \in intents :
        /\ M(i) \in ReceiptRecord
        /\ M(i).lane = i.lane /\ M(i).old = i.old /\ M(i).new = i.new
        /\ M(i).requested = i.requested /\ M(i).allowed = i.allowed
        /\ M(i) # i => i \in Receipt(p)
  BY <1>2, <1>3
<1>. HIDE DEF M
<1>6. Distinct'
  BY <1>2, <1>4, <1>5 DEF Distinct
<1>7. intents' \subseteq ReceiptRecord
  BY <1>4, <1>5
<1>8. \A i \in intents \ Receipt(p) : i \in intents'
  BY <1>1
<1>. QED BY <1>4, <1>5, <1>6, <1>7, <1>8

LEMMA PlansAreSequences ==
  \A plan \in Plan : plan \in Seq(SUBSET Path) /\ plan # <<>>
BY CaptureAssumption

LEMMA TypeInit == Init => TypeOK
<1>. SUFFICES ASSUME Init PROVE TypeOK
  OBVIOUS
<1>1. Idle \in Job /\ <<>> \in Commit
  BY IdleIsJob DEF Commit
<1>2. held \in [Lane -> SUBSET Path]
  BY DEF Init
<1>. QED BY <1>1, <1>2 DEF Init, TypeOK, Points

\* What a change from outside leaves of the types.
OutsideTypes ==
  /\ held' \in [Lane -> SUBSET Path]
  /\ lanes' \in [Lane -> [state : {"active", "closed"}, cursor : Commit]]
  /\ ref' \in [Lane -> Commit] /\ index' \in Tree /\ atBase' \in BOOLEAN /\ hooks' \in Nat
  /\ foreign' \subseteq Lane /\ UNCHANGED <<second, intents>>

LEMMA TypeStep == TypeOK /\ Locked /\ [Next]_vars => TypeOK'
<1>. SUFFICES ASSUME TypeOK, Locked, [Next]_vars PROVE TypeOK'
  OBVIOUS
<1>. USE DEF TypeOK, Points
<1>1. CASE UNCHANGED vars
  BY <1>1 DEF vars, shared, source
<1>2. CASE Tick
  BY <1>2 DEF Tick, source
<1>3. CASE Outside
  <2>1. /\ UNCHANGED <<laneLock, pc, job, stops>> /\ edits' \in Nat
    BY <1>3 DEF Outside
  <2>2. OutsideTypes
    <3>1. ASSUME NEW l \in Lane, NEW S \in SUBSET Path, Claim(l, S) \/ Lapse(l, S),
                 UNCHANGED <<source, foreign>>
          PROVE  OutsideTypes
      BY <3>1 DEF OutsideTypes, Claim, Lapse, source
    <3>2. ASSUME NEW l \in Lane, Release(l), UNCHANGED <<source, foreign>>
          PROVE  OutsideTypes
      BY <3>2 DEF OutsideTypes, Release, source
    <3>3. ASSUME NEW x \in Path, NEW v \in Version, Stage(x, v)
          PROVE  OutsideTypes
      BY <3>3 DEF OutsideTypes, Stage, shared, Tree
    <3>4. CASE MoveHead
      <4>1. atBase' \in BOOLEAN
        BY <3>4, Zenon DEF MoveHead
      <4>. QED BY <3>4, <4>1 DEF OutsideTypes, MoveHead, shared
    <3>6. CASE EditHooks
      BY <3>6 DEF OutsideTypes, EditHooks, shared
    <3>5. ASSUME NEW l \in Lane, NEW t \in Tree, CommitOutside(l, t)
          PROVE  OutsideTypes
      <4>1. [tree |-> t, at |-> second] \in Entry
        BY DEF Entry
      <4>2. Append(ref[l], [tree |-> t, at |-> second]) \in Commit
        BY <4>1, TreeOfAppend
      <4>. QED BY <3>5, <4>2 DEF OutsideTypes, CommitOutside, source
    <3>. QED BY <1>3, <3>1, <3>2, <3>3, <3>4, <3>5, <3>6 DEF Outside
  <2>. QED BY <2>1, <2>2 DEF OutsideTypes
<1>4. ASSUME NEW p \in Proc, Starts(p) PROVE TypeOK'
  <2>1. ASSUME NEW l \in Lane, NEW plan \in Plan, StartCommit(p, l, plan) PROVE TypeOK'
    <3>1. plan \in Seq(SUBSET Path)
      BY PlansAreSequences
    <3>2. [job[p] EXCEPT !.lane = l, !.verb = "commit", !.plan = plan, !.left = plan] \in Job
      BY <3>1, ZenonT(60) DEF Job
    <3>3. job' \in [Proc -> Job]
      BY <2>1, <3>2 DEF StartCommit
    <3>. QED BY <2>1, <3>3 DEF StartCommit, Quiet, Goto, source
  <2>2. ASSUME NEW l \in Lane, NEW i \in intents, StartReconcile(p, l, i) PROVE TypeOK'
    <3>1. i.old \in Commit /\ i.new \in Commit
      BY DEF ReceiptRecord
    <3>2. [job[p] EXCEPT !.lane = l, !.verb = "reconcile", !.old = i.old, !.new = i.new] \in Job
      BY <3>1, ZenonT(60) DEF Job
    <3>3. job' \in [Proc -> Job]
      BY <2>2, <3>2 DEF StartReconcile
    <3>. QED BY <2>2, <3>3 DEF StartReconcile, Quiet, Goto, source
  <2>. QED BY <1>4, <2>1, <2>2 DEF Starts
<1>5. ASSUME NEW p \in Proc, End(p), UNCHANGED shared, stops' \in Nat PROVE TypeOK'
  <2>1. job' \in [Proc -> Job]
    BY <1>5, IdleIsJob DEF End
  <2>. QED BY <1>5, <2>1 DEF End, Goto, shared, source
<1>6. ASSUME NEW p \in Proc, Refused(p) \/ Stop(p) PROVE TypeOK'
  BY <1>5, <1>6 DEF Refused, Stop
<1>7. ASSUME NEW p \in Proc, Capturing(p) PROVE TypeOK'
  <2>. DEFINE l == job[p].lane
  <2>0. l \in Lane /\ job[p] \in Job
    BY <1>7 DEF Locked, Capturing, LockCommit, Snapshot, BuildGroup, Fence, Recheck, Prepare,
                Publish, PostHooks
  <2>. HIDE DEF l
  <2>1. CASE LockCommit(p)
    <3>1. [job[p] EXCEPT !.allowed = held[l]] \in Job
      BY <2>0 DEF Job
    <3>2. job' \in [Proc -> Job] /\ laneLock' \in [Lane -> Proc \cup {Free}]
      BY <2>0, <2>1, <3>1 DEF LockCommit, l
    <3>. QED BY <2>1, <3>2 DEF LockCommit, Goto, shared, source
  <2>2. CASE Snapshot(p)
    <3>1. [job[p] EXCEPT !.old = ref[l], !.new = ref[l], !.index = index, !.hooks = hooks] \in Job
      BY <2>0 DEF Job
    <3>2. job' \in [Proc -> Job]
      BY <2>0, <2>2, <3>1 DEF Snapshot, l
    <3>. QED BY <2>2, <3>2 DEF Snapshot, Goto, Quiet, source
  <2>3. CASE BuildGroup(p)
    <3>1. PICK fix \in SUBSET Path :
            job' = [job EXCEPT ![p].new = Append(@, [tree |-> Repaired(p, fix), at |-> second]),
                               ![p].left = Tail(@)]
      BY <2>3 DEF BuildGroup
    <3>2. job[p].left # <<>>
      BY <2>3 DEF BuildGroup
    <3>3. job' \in [Proc -> Job]
      BY <3>1, <3>2, RepairedTree, SMTT(30) DEF Job
    <3>. QED BY <2>3, <3>3 DEF BuildGroup, Quiet, source
  <2>4. CASE Fence(p) \/ Recheck(p) \/ PostHooks(p)
    BY <2>4 DEF Fence, Recheck, PostHooks, Goto, Quiet, source
  <2>5. CASE Prepare(p)
    <3>. DEFINE i == [lane |-> l, old |-> job[p].old, new |-> job[p].new,
                      requested |-> Requested(job[p].plan), allowed |-> job[p].allowed,
                      state |-> "prepared"]
    <3>1. Requested(job[p].plan) \in SUBSET Path
      <4>1. job[p].plan \in Seq(SUBSET Path)
        BY <2>0 DEF Job
      <4>. QED BY <4>1 DEF Requested, Range
    <3>2. i \in ReceiptRecord
      BY <2>0, <3>1 DEF ReceiptRecord, Job
    <3>3. intents' = intents \cup {i}
      BY <2>5 DEF Prepare, l
    <3>4. \A j \in intents : ~(j.lane = i.lane /\ j.old = i.old /\ j.new = i.new)
      BY <2>5 DEF Prepare, Receipt, l
    <3>. HIDE DEF i
    <3>5. \A j, k \in intents' : j.lane = k.lane /\ j.old = k.old /\ j.new = k.new => j = k
      BY <3>3, <3>4
    <3>. QED BY <2>5, <3>2, <3>3, <3>5 DEF Prepare, Goto, Quiet, source
  <2>6. CASE Publish(p)
    BY <2>0, <2>6 DEF Publish, Goto, Quiet, source, Job, l
  <2>. QED BY <1>7, <2>1, <2>2, <2>3, <2>4, <2>5, <2>6 DEF Capturing
<1>8. ASSUME NEW p \in Proc, Recording(p) PROVE TypeOK'
  <2>1. CASE LockReconcile(p)
    BY <2>1 DEF LockReconcile, Goto, shared, source
  <2>2. CASE Record(p)
    BY <2>2, ZenonT(60) DEF Record, Goto, Quiet, source, Job
  <2>3. CASE MarkApplied(p)
    BY <2>3, MarkedReceipts DEF MarkApplied, Goto, Quiet, source, Distinct
  <2>4. CASE MarkComplete(p)
    <3>1. job' \in [Proc -> Job]
      BY <2>4, IdleIsJob DEF MarkComplete, End
    <3>. QED BY <2>4, <3>1, MarkedReceipts DEF MarkComplete, End, Goto, source, Distinct
  <2>. QED BY <1>8, <2>1, <2>2, <2>3, <2>4 DEF Recording
<1>. QED BY <1>1, <1>2, <1>3, <1>4, <1>6, <1>7, <1>8 DEF Next
-----------------------------------------------------------------------------
(* The lane lock and the private chain. *)

\* The steps of a command that has its lane lock and keeps it.
Keeping(p) ==
  \/ Snapshot(p) \/ BuildGroup(p) \/ Fence(p) \/ Recheck(p) \/ Prepare(p) \/ Publish(p)
  \/ PostHooks(p) \/ Record(p) \/ MarkApplied(p)

\* A command that ends without having written anything.
Ending(p) == End(p) /\ UNCHANGED shared

LEMMA StepCases ==
  ASSUME [Next]_vars
  PROVE  \/ UNCHANGED vars \/ Tick \/ Outside
         \/ \E p \in Proc : Starts(p) \/ LockCommit(p) \/ LockReconcile(p) \/ Keeping(p)
                              \/ MarkComplete(p) \/ Ending(p)
BY DEF Next, Capturing, Recording, Refused, Stop, Keeping, Ending

\* What such a step leaves alone, and where it can lead.
LEMMA KeepingFrame ==
  ASSUME TypeOK, Locked, NEW p \in Proc, Keeping(p)
  PROVE  /\ job[p].lane \in Lane /\ job[p] \in Job /\ laneLock[job[p].lane] = p
         /\ pc[p] \notin {"idle", "lock"} /\ pc'[p] \notin {"idle", "lock"}
         /\ pc'[p] \in CapturePoints => job[p].verb = "commit"
         /\ job'[p].lane = job[p].lane /\ job'[p].verb = job[p].verb
         /\ job'[p].plan = job[p].plan /\ job'[p].allowed = job[p].allowed
         /\ \A q \in Proc \ {p} : job'[q] = job[q] /\ pc'[q] = pc[q]
         /\ Quiet
<1>. USE DEF Keeping, TypeOK, Points
<1>1. pc[p] \notin {"idle", "lock"} /\ job[p] \in Job /\ Quiet
  BY DEF Snapshot, BuildGroup, Fence, Recheck, Prepare, Publish, PostHooks, Record, MarkApplied
<1>2. job[p].lane \in Lane /\ laneLock[job[p].lane] = p
  BY <1>1 DEF Locked
<1>3. CASE Snapshot(p)
  <2>1. job' = [job EXCEPT ![p].old = ref[job[p].lane], ![p].new = ref[job[p].lane],
                           ![p].index = index, ![p].hooks = hooks]
    BY <1>3 DEF Snapshot
  <2>2. pc[p] = "snapshot" /\ pc' = [pc EXCEPT ![p] = "build"]
    BY <1>3 DEF Snapshot, Goto
  <2>3. job'[p].lane = job[p].lane /\ job'[p].verb = job[p].verb
        /\ job'[p].plan = job[p].plan /\ job'[p].allowed = job[p].allowed
    BY <1>1, <2>1 DEF Job
  <2>4. \A q \in Proc \ {p} : job'[q] = job[q] /\ pc'[q] = pc[q]
    BY <2>1, <2>2
  <2>. QED BY <1>1, <1>2, <2>2, <2>3, <2>4 DEF Locked, CapturePoints
<1>6. CASE BuildGroup(p)
  <2>1. PICK fix \in SUBSET Path :
          job' = [job EXCEPT ![p].new = Append(@, [tree |-> Repaired(p, fix), at |-> second]),
                             ![p].left = Tail(@)]
    BY <1>6 DEF BuildGroup
  <2>2. pc[p] = "build" /\ pc' = pc
    BY <1>6 DEF BuildGroup
  <2>3. job'[p].lane = job[p].lane /\ job'[p].verb = job[p].verb
        /\ job'[p].plan = job[p].plan /\ job'[p].allowed = job[p].allowed
    BY <1>1, <2>1 DEF Job
  <2>4. \A q \in Proc \ {p} : job'[q] = job[q] /\ pc'[q] = pc[q]
    BY <2>1, <2>2
  <2>. QED BY <1>1, <1>2, <2>2, <2>3, <2>4 DEF Locked, CapturePoints
<1>4. CASE Fence(p) \/ Recheck(p) \/ Prepare(p) \/ PostHooks(p)
  BY <1>1, <1>2, <1>4 DEF Fence, Recheck, Prepare, PostHooks, Goto, Locked, CapturePoints
<1>5. CASE Publish(p) \/ Record(p) \/ MarkApplied(p)
  BY <1>1, <1>2, <1>5 DEF Publish, Record, MarkApplied, Goto, Locked, CapturePoints
<1>. QED BY <1>3, <1>4, <1>5, <1>6

LEMMA LockedStep == TypeOK /\ Locked /\ [Next]_vars => Locked'
<1>. SUFFICES ASSUME TypeOK, Locked, [Next]_vars PROVE Locked'
  OBVIOUS
<1>. USE DEF TypeOK
<1>1. CASE UNCHANGED vars \/ Tick \/ Outside
  BY <1>1 DEF vars, Tick, Outside, Locked
<1>2. ASSUME NEW p \in Proc, Starts(p) PROVE Locked'
  <2>1. \E l \in Lane, verb \in {"commit", "reconcile"} :
          job'[p].lane = l /\ job'[p].verb = verb /\ \A q \in Proc \ {p} : job'[q] = job[q]
    <3>1. ASSUME NEW l \in Lane, NEW plan \in Plan, StartCommit(p, l, plan) PROVE  \E m \in Lane, verb \in {"commit", "reconcile"} :
                   job'[p].lane = m /\ job'[p].verb = verb /\ \A q \in Proc \ {p} : job'[q] = job[q]
      BY <3>1 DEF StartCommit, Job
    <3>2. ASSUME NEW l \in Lane, NEW i \in intents, StartReconcile(p, l, i) PROVE  \E m \in Lane, verb \in {"commit", "reconcile"} :
                   job'[p].lane = m /\ job'[p].verb = verb /\ \A q \in Proc \ {p} : job'[q] = job[q]
      BY <3>2 DEF StartReconcile, Job
    <3>. QED BY <1>2, <3>1, <3>2 DEF Starts
  <2>2. laneLock' = laneLock /\ pc' = [pc EXCEPT ![p] = "lock"]
    BY <1>2 DEF Starts, StartCommit, StartReconcile, Goto, Quiet
  <2>. QED BY <2>1, <2>2 DEF Locked, CapturePoints
<1>3. ASSUME NEW p \in Proc, LockCommit(p) \/ LockReconcile(p) PROVE Locked'
  <2>1. job[p].lane \in Lane /\ laneLock[job[p].lane] = Free /\ job[p] \in Job
    BY <1>3 DEF LockCommit, LockReconcile, Locked
  <2>2. laneLock' = [laneLock EXCEPT ![job[p].lane] = p]
    BY <1>3 DEF LockCommit, LockReconcile
  <2>3. ASSUME NEW q \in Proc \ {p}, pc[q] \notin {"idle", "lock"}
        PROVE  laneLock'[job[q].lane] = q
    BY <2>1, <2>2, <2>3, CaptureAssumption DEF Locked
  <2>4. CASE LockCommit(p)
    BY <2>1, <2>2, <2>3, <2>4 DEF LockCommit, Goto, Locked, CapturePoints, Job
  <2>5. CASE LockReconcile(p)
    BY <2>1, <2>2, <2>3, <2>5 DEF LockReconcile, Goto, Locked, CapturePoints
  <2>. QED BY <1>3, <2>4, <2>5
<1>4. ASSUME NEW p \in Proc, Keeping(p) PROVE Locked'
  BY <1>4, KeepingFrame DEF Locked, Quiet
<1>5. ASSUME NEW p \in Proc, MarkComplete(p) \/ Ending(p) PROVE Locked'
  <2>1. End(p)
    BY <1>5 DEF MarkComplete, Ending
  <2>2. ASSUME NEW q \in Proc \ {p}, pc[q] \notin {"idle", "lock"}
        PROVE  laneLock'[job[q].lane] = q
    BY <2>1, <2>2 DEF End, Locked
  <2>. QED BY <2>1, <2>2 DEF End, Goto, Locked, CapturePoints
<1>. QED BY <1>1, <1>2, <1>3, <1>4, <1>5, StepCases

\* Two commands past the lock work on two lanes.
LEMMA OwnLane ==
  ASSUME TypeOK, Locked, NEW p \in Proc, NEW q \in Proc \ {p},
         pc[p] \notin {"idle", "lock"}, pc[q] \notin {"idle", "lock"}
  PROVE  job[p].lane \in Lane /\ job[q].lane \in Lane /\ job[p].lane # job[q].lane
BY DEF Locked

\* Another command's step does not touch it.
LEMMA ChainFrame ==
  ASSUME NEW p \in Proc, Chain(p), job'[p] = job[p], pc'[p] = pc[p]
  PROVE  Chain(p)'
BY DEF Chain

\* A later point needs nothing more once the chain is complete.
LEMMA ChainFollows ==
  ASSUME TypeOK, NEW p \in Proc, Chain(p), job'[p] = job[p],
         pc[p] \notin {"lock", "snapshot"},
         pc[p] = "build" => job[p].left = <<>>,
         pc'[p] \notin {"lock", "snapshot", "build"}
  PROVE  Chain(p)'
BY DEF Chain

LEMMA ChainBuildGroup ==
  ASSUME TypeOK, NEW p \in Proc, Chain(p), BuildGroup(p)
  PROVE  Chain(p)'
<1>. SUFFICES ASSUME job'[p].verb = "commit"
              PROVE  Chain(p)'
  BY DEF Chain
<1>1. PICK fix \in SUBSET Path :
        /\ GroupOK(p, fix)
        /\ job' = [job EXCEPT ![p].new = Append(@, [tree |-> Repaired(p, fix), at |-> second]),
                              ![p].left = Tail(@)]
  BY DEF BuildGroup
<1>2. pc[p] = "build" /\ pc'[p] = "build" /\ job[p].left # <<>> /\ job[p] \in Job
  BY DEF BuildGroup, TypeOK
<1>. DEFINE e == [tree |-> Repaired(p, fix), at |-> second]
<1>3. /\ job'[p].verb = job[p].verb /\ job'[p].plan = job[p].plan
      /\ job'[p].allowed = job[p].allowed /\ job'[p].old = job[p].old
      /\ job'[p].left = Tail(job[p].left) /\ job'[p].new = Append(job[p].new, e)
  BY <1>1, <1>2 DEF Job, TypeOK
<1>4. e \in Entry /\ e.tree = Repaired(p, fix)
  BY <1>2, RepairedTree
<1>. HIDE DEF e
<1>5. job[p].left \in Seq(SUBSET Path) /\ job[p].old \in Commit /\ job[p].new \in Commit
  BY <1>2 DEF Job
<1>. DEFINE plan == job[p].plan
            done == Len(job[p].new) - Len(job[p].old)
<1>6. /\ plan \in Plan /\ plan \in Seq(SUBSET Path)
      /\ job[p].left = SubSeq(plan, done + 1, Len(plan)) /\ done \in 0 .. Len(plan)
      /\ Built(job[p].old, job[p].new, Requested(plan), job[p].allowed)
      /\ Grouped(job[p].old, job[p].new, plan)
  BY <1>2, <1>3, PlansAreSequences DEF Chain
<1>7. /\ done + 1 \in 1 .. Len(plan) /\ Head(job[p].left) = plan[done + 1]
      /\ Tail(job[p].left) = SubSeq(plan, done + 2, Len(plan))
  BY <1>2, <1>6, LeftTail
<1>8. plan[done + 1] \subseteq Requested(plan)
  <2>. HIDE DEF plan, done
  <2>1. done + 1 \in DOMAIN plan
    BY <1>6, <1>7
  <2>. QED BY <2>1 DEF Requested, Range
<1>9. /\ Changed(TreeOf(job[p].new), e.tree) # {}
      /\ Changed(TreeOf(job[p].new), e.tree) \subseteq plan[done + 1]
      /\ Changed(TreeOf(job[p].new), e.tree) \subseteq Requested(plan) \cap job[p].allowed
  BY <1>1, <1>4, <1>7, <1>8 DEF GroupOK
<1>10. Built(job[p].old, Append(job[p].new, e), Requested(plan), job[p].allowed)
  BY <1>4, <1>5, <1>6, <1>9, BuiltAppend
<1>11. /\ Grouped(job[p].old, Append(job[p].new, e), plan)
       /\ Len(Append(job[p].new, e)) - Len(job[p].old) = done + 1
  BY <1>4, <1>5, <1>6, <1>9, GroupedAppend DEF Built
<1>12. Len(plan) \in Nat /\ done + 1 \in 0 .. Len(plan) /\ done + 1 + 1 = done + 2
  <2>. HIDE DEF plan, done
  <2>1. Len(plan) \in Nat
    BY <1>6
  <2>. QED BY <1>6, <1>7, <2>1
<1>. QED BY <1>2, <1>3, <1>6, <1>7, <1>10, <1>11, <1>12 DEF Chain

\* Once every group is built the chain has a commit for each of them.
LEMMA ChainDone ==
  ASSUME TypeOK, NEW p \in Proc, Chain(p), job[p].verb = "commit",
         pc[p] \notin {"lock", "snapshot", "build"}
  PROVE  /\ job[p].plan \in Plan
         /\ Len(job[p].new) = Len(job[p].old) + Len(job[p].plan)
         /\ job[p].old # job[p].new
         /\ Built(job[p].old, job[p].new, Requested(job[p].plan), job[p].allowed)
         /\ Grouped(job[p].old, job[p].new, job[p].plan)
<1>. DEFINE plan == job[p].plan
            done == Len(job[p].new) - Len(job[p].old)
<1>1. /\ plan \in Plan /\ plan \in Seq(SUBSET Path) /\ plan # <<>>
      /\ SubSeq(plan, done + 1, Len(plan)) = <<>> /\ done \in 0 .. Len(plan)
      /\ Built(job[p].old, job[p].new, Requested(plan), job[p].allowed)
      /\ Grouped(job[p].old, job[p].new, plan)
  BY PlansAreSequences DEF Chain
<1>2. Len(plan) \in Nat \ {0} /\ Len(job[p].new) \in Nat /\ Len(job[p].old) \in Nat
  BY <1>1 DEF TypeOK, Job, Commit
<1>3. done = Len(plan)
  <2>. HIDE DEF plan, done
  <2>. SUFFICES ASSUME done < Len(plan) PROVE FALSE
    BY <1>1, <1>2
  <2>1. Len(SubSeq(plan, done + 1, Len(plan))) = Len(plan) - done
    BY <1>1, <1>2
  <2>2. Len(plan) - done = 0
    BY <1>1, <2>1
  <2>. QED BY <1>1, <1>2, <2>2
<1>4. Len(job[p].new) = Len(job[p].old) + Len(plan)
  <2>1. Len(job[p].new) - Len(job[p].old) = Len(plan)
    BY <1>3
  <2>. HIDE DEF plan
  <2>. QED BY <1>2, <2>1
<1>5. job[p].old # job[p].new
  <2>. HIDE DEF plan
  <2>. QED BY <1>2, <1>4
<1>. QED BY <1>1, <1>4, <1>5

LEMMA ChainStep == TypeOK /\ Locked /\ ChainBuilt /\ [Next]_vars => ChainBuilt'
<1>. SUFFICES ASSUME TypeOK, Locked, [Next]_vars, \A p \in Proc : Chain(p), NEW q \in Proc
              PROVE  Chain(q)'
  BY DEF ChainBuilt
<1>1. CASE UNCHANGED vars \/ Tick \/ Outside
  BY <1>1, ChainFrame DEF vars, Tick, Outside
<1>2. ASSUME NEW p \in Proc, p # q,
             Starts(p) \/ LockCommit(p) \/ LockReconcile(p) \/ Keeping(p) \/ MarkComplete(p) \/ Ending(p)
      PROVE  Chain(q)'
  <2>1. CASE Starts(p)
    BY <1>2, <2>1, ChainFrame DEF Starts, StartCommit, StartReconcile, Goto, TypeOK
  <2>2. CASE LockCommit(p) \/ LockReconcile(p)
    BY <1>2, <2>2, ChainFrame DEF LockCommit, LockReconcile, Goto, TypeOK
  <2>3. CASE Keeping(p)
    BY <1>2, <2>3, ChainFrame, KeepingFrame
  <2>4. CASE MarkComplete(p) \/ Ending(p)
    BY <1>2, <2>4, ChainFrame DEF MarkComplete, Ending, End, Goto, TypeOK
  <2>. QED BY <1>2, <2>1, <2>2, <2>3, <2>4
<1>. job[q] \in Job /\ pc[q] \in Points
  BY DEF TypeOK
<1>3. ASSUME NEW l \in Lane, NEW plan \in Plan, StartCommit(q, l, plan) PROVE Chain(q)'
  <2>1. job'[q].plan = plan /\ job'[q].left = plan /\ pc'[q] = "lock"
    BY <1>3 DEF StartCommit, Goto, Job, TypeOK
  <2>. QED BY <2>1 DEF Chain
<1>4. ASSUME NEW l \in Lane, NEW i \in intents, StartReconcile(q, l, i) PROVE Chain(q)'
  <2>1. job'[q].verb = "reconcile"
    BY <1>4 DEF StartReconcile, Job, TypeOK
  <2>. QED BY <2>1 DEF Chain
<1>5. CASE LockCommit(q)
  <2>1. /\ job'[q].left = job[q].left /\ job'[q].plan = job[q].plan /\ job'[q].verb = job[q].verb
        /\ pc'[q] = "snapshot" /\ pc[q] = "lock"
    BY <1>5 DEF LockCommit, Goto, Job, TypeOK
  <2>. QED BY <2>1 DEF Chain
<1>6. CASE LockReconcile(q)
  BY <1>6 DEF LockReconcile, Chain
<1>7. CASE Snapshot(q)
  <2>1. /\ job'[q].left = job[q].left /\ job'[q].plan = job[q].plan /\ job'[q].verb = job[q].verb
        /\ job'[q].new = ref[job[q].lane] /\ job'[q].old = ref[job[q].lane]
        /\ pc'[q] = "build" /\ pc[q] = "snapshot"
    BY <1>7 DEF Snapshot, Goto, Job, TypeOK
  <2>. DEFINE c == ref[job[q].lane]
              plan == job[q].plan
  <2>2. c \in Commit
    BY <2>1 DEF Locked, TypeOK
  <2>3. Built(c, c, Requested(plan), job'[q].allowed) /\ Grouped(c, c, plan) /\ Len(c) - Len(c) = 0
    BY <2>2, BuiltNothing, GroupedNothing
  <2>4. ASSUME job[q].verb = "commit"
        PROVE  plan \in Plan /\ job[q].left = SubSeq(plan, 0 + 1, Len(plan)) /\ 0 \in 0 .. Len(plan)
    <3>1. plan \in Plan /\ job[q].left = plan
      BY <2>1, <2>4 DEF Chain
    <3>2. plan \in Seq(SUBSET Path)
      BY <3>1, PlansAreSequences
    <3>. QED BY <3>1, <3>2
  <2>. HIDE DEF c, plan
  <2>5. job'[q].new = c /\ job'[q].old = c /\ job'[q].plan = plan
    BY <2>1 DEF c, plan
  <2>. QED BY <2>1, <2>3, <2>4, <2>5 DEF Chain
<1>8. CASE BuildGroup(q)
  BY <1>8, ChainBuildGroup
<1>9. CASE Fence(q) \/ Recheck(q) \/ Prepare(q) \/ Publish(q) \/ PostHooks(q) \/ Record(q) \/ MarkApplied(q)
  <2>1. /\ job'[q] = job[q] /\ pc[q] \notin {"lock", "snapshot"}
        /\ pc[q] = "build" => job[q].left = <<>>
        /\ pc'[q] \notin {"lock", "snapshot", "build"}
    BY <1>9 DEF Fence, Recheck, Prepare, Publish, PostHooks, Record, MarkApplied, Goto, TypeOK
  <2>. QED BY <2>1, ChainFollows
<1>10. CASE MarkComplete(q) \/ Ending(q)
  <2>1. job'[q].verb = "none"
    BY <1>10 DEF MarkComplete, Ending, End, Idle, TypeOK
  <2>. QED BY <2>1 DEF Chain
<1>. QED BY <1>1, <1>2, <1>3, <1>4, <1>5, <1>6, <1>7, <1>8, <1>9, <1>10, StepCases DEF Keeping, Starts
-----------------------------------------------------------------------------
(* Receipts. *)

LEMMA ReceiptsStep == TypeOK /\ Locked /\ ChainBuilt /\ ReceiptsBuilt /\ [Next]_vars => ReceiptsBuilt'
<1>. SUFFICES ASSUME TypeOK, Locked, ChainBuilt, ReceiptsBuilt, [Next]_vars PROVE ReceiptsBuilt'
  OBVIOUS
<1>1. CASE intents' = intents
  BY <1>1 DEF ReceiptsBuilt
<1>2. ASSUME NEW p \in Proc, Prepare(p) PROVE ReceiptsBuilt'
  <2>. DEFINE i == [lane |-> job[p].lane, old |-> job[p].old, new |-> job[p].new,
                    requested |-> Requested(job[p].plan), allowed |-> job[p].allowed,
                    state |-> "prepared"]
  <2>1. intents' = intents \cup {i} /\ pc[p] = "prepare"
    BY <1>2 DEF Prepare
  <2>2. job[p].verb = "commit"
    BY <2>1 DEF Locked, CapturePoints
  <2>3. i.old # i.new /\ Built(i.old, i.new, i.requested, i.allowed)
    BY <2>1, <2>2, ChainDone DEF ChainBuilt
  <2>. HIDE DEF i
  <2>. QED BY <2>1, <2>3 DEF ReceiptsBuilt
<1>3. ASSUME NEW p \in Proc, MarkApplied(p) \/ MarkComplete(p) PROVE ReceiptsBuilt'
  BY <1>3, MarkedReceipts DEF ReceiptsBuilt
<1>. QED
  <2>1. CASE UNCHANGED vars \/ Tick
    BY <1>1, <2>1 DEF vars, shared, Tick
  <2>2. CASE Outside
    BY <1>1, <2>2 DEF Outside, Claim, Lapse, Release, Stage, MoveHead, EditHooks, CommitOutside, shared
  <2>3. ASSUME NEW p \in Proc,
               Starts(p) \/ LockCommit(p) \/ LockReconcile(p) \/ Keeping(p) \/ MarkComplete(p) \/ Ending(p)
        PROVE  ReceiptsBuilt'
    BY <1>1, <1>2, <1>3, <2>3 DEF Starts, StartCommit, StartReconcile, LockCommit, LockReconcile,
       Keeping, Snapshot, BuildGroup, Fence, Recheck, Publish, PostHooks, Record, Ending, shared
  <2>. QED BY <2>1, <2>2, <2>3, StepCases
-----------------------------------------------------------------------------
(* How far the ref, the cursor and the receipts are. *)

\* A lane cursor only moves when a command records its commit; lanes a command
\* has not locked keep their cursor and receipts.
LEMMA CursorFrame ==
  ASSUME TypeOK, Locked, [Next]_vars, NEW l \in Lane
  PROVE  \/ lanes'[l].cursor = lanes[l].cursor
         \/ \E p \in Proc : Record(p) /\ job[p].lane = l
<1>1. CASE lanes' = lanes
  BY <1>1
<1>2. ASSUME NEW m \in Lane, Release(m) PROVE lanes'[l].cursor = lanes[l].cursor
  BY <1>2 DEF Release, TypeOK
<1>3. ASSUME NEW p \in Proc, Record(p)
      PROVE  lanes'[l].cursor = lanes[l].cursor \/ job[p].lane = l
  BY <1>3 DEF Record, TypeOK
<1>4. CASE UNCHANGED vars \/ Tick
  BY <1>1, <1>4 DEF vars, shared, Tick
<1>5. CASE Outside
  BY <1>1, <1>2, <1>5 DEF Outside, Claim, Lapse, Stage, MoveHead, EditHooks, CommitOutside, shared
<1>6. ASSUME NEW p \in Proc,
             Starts(p) \/ LockCommit(p) \/ LockReconcile(p) \/ Keeping(p) \/ MarkComplete(p) \/ Ending(p)
      PROVE  lanes' = lanes \/ Record(p)
  BY <1>6 DEF Starts, StartCommit, StartReconcile, LockCommit, LockReconcile,
     Keeping, Snapshot, BuildGroup, Fence, Recheck, Prepare, Publish, PostHooks, MarkApplied,
     MarkComplete, Ending, shared
<1>. QED BY <1>1, <1>3, <1>4, <1>5, <1>6, StepCases

\* A lane ref only moves when a capture of the lane publishes, or from outside.
LEMMA RefFrame ==
  ASSUME TypeOK, Locked, [Next]_vars, NEW l \in Lane
  PROVE  /\ foreign \subseteq foreign'
         /\ \/ ref'[l] = ref[l]
            \/ l \in foreign' /\ \E e \in Entry : ref'[l] = Append(ref[l], e)
            \/ \E p \in Proc : Publish(p) /\ job[p].lane = l /\ ref'[l] = job[p].new
<1>1. CASE ref' = ref /\ foreign' = foreign
  BY <1>1
<1>2. ASSUME NEW m \in Lane, NEW t \in Tree, CommitOutside(m, t)
      PROVE  /\ foreign \subseteq foreign'
             /\ \/ ref'[l] = ref[l]
                \/ l \in foreign' /\ \E e \in Entry : ref'[l] = Append(ref[l], e)
  <2>1. [tree |-> t, at |-> second] \in Entry
    BY DEF Entry, TypeOK
  <2>2. ref' = [ref EXCEPT ![m] = Append(@, [tree |-> t, at |-> second])]
        /\ foreign' = foreign \cup {m} /\ ref \in [Lane -> Commit]
    BY <1>2 DEF CommitOutside, TypeOK
  <2>3. CASE l = m
    <3>1. ref'[l] = Append(ref[l], [tree |-> t, at |-> second]) /\ l \in foreign'
      BY <2>2, <2>3
    <3>. QED BY <2>1, <2>2, <3>1
  <2>4. CASE l # m
    BY <2>2, <2>4
  <2>. QED BY <2>3, <2>4
<1>3. ASSUME NEW p \in Proc, Publish(p)
      PROVE  foreign' = foreign /\ (ref'[l] # ref[l] => job[p].lane = l /\ ref'[l] = job[p].new)
  <2>1. foreign' = foreign
    BY <1>3 DEF Publish, Quiet
  <2>2. ref' = [ref EXCEPT ![job[p].lane] = job[p].new] /\ ref \in [Lane -> Commit]
    BY <1>3 DEF Publish, TypeOK
  <2>. QED BY <2>1, <2>2
<1>4. CASE UNCHANGED vars \/ Tick
  BY <1>1, <1>4 DEF vars, shared, Tick
<1>5. CASE Outside
  BY <1>1, <1>2, <1>5 DEF Outside, Claim, Lapse, Release, Stage, MoveHead, EditHooks, shared
<1>6. ASSUME NEW p \in Proc,
             Starts(p) \/ LockCommit(p) \/ LockReconcile(p) \/ Keeping(p) \/ MarkComplete(p) \/ Ending(p)
      PROVE  (ref' = ref /\ foreign' = foreign) \/ Publish(p)
  BY <1>6 DEF Starts, StartCommit, StartReconcile, LockCommit, LockReconcile, Quiet, End,
     Keeping, Snapshot, BuildGroup, Fence, Recheck, Prepare, Record, PostHooks, MarkApplied,
     MarkComplete, Ending, shared
<1>. QED BY <1>1, <1>3, <1>4, <1>5, <1>6, StepCases

\* A lane is only closed while nobody holds its lock, and never opened.
LEMMA StateFrame ==
  ASSUME TypeOK, Locked, [Next]_vars, NEW l \in Lane
  PROVE  \/ lanes'[l].state = lanes[l].state
         \/ laneLock[l] = Free /\ lanes'[l].state = "closed"
<1>1. CASE lanes' = lanes
  BY <1>1
<1>2. ASSUME NEW m \in Lane, Release(m)
      PROVE  lanes'[l].state = lanes[l].state \/ (laneLock[l] = Free /\ lanes'[l].state = "closed")
  BY <1>2 DEF Release, TypeOK
<1>3. ASSUME NEW p \in Proc, Record(p) PROVE lanes'[l].state = lanes[l].state
  BY <1>3 DEF Record, TypeOK
<1>4. CASE UNCHANGED vars \/ Tick
  BY <1>1, <1>4 DEF vars, shared, Tick
<1>5. CASE Outside
  BY <1>1, <1>2, <1>5 DEF Outside, Claim, Lapse, Stage, MoveHead, EditHooks, CommitOutside, shared
<1>6. ASSUME NEW p \in Proc,
             Starts(p) \/ LockCommit(p) \/ LockReconcile(p) \/ Keeping(p) \/ MarkComplete(p) \/ Ending(p)
      PROVE  lanes' = lanes \/ Record(p)
  BY <1>6 DEF Starts, StartCommit, StartReconcile, LockCommit, LockReconcile,
     Keeping, Snapshot, BuildGroup, Fence, Recheck, Prepare, Publish, PostHooks, MarkApplied,
     MarkComplete, Ending, shared
<1>. QED BY <1>1, <1>3, <1>4, <1>5, <1>6, StepCases

\* A receipt is only touched by a command on its lane that marks it.
LEMMA ReceiptFrame ==
  ASSUME TypeOK, Locked, [Next]_vars, NEW i \in intents
  PROVE  \/ i \in intents'
         \/ \E p \in Proc : (MarkApplied(p) \/ MarkComplete(p)) /\ i \in Receipt(p)
<1>1. CASE intents \subseteq intents'
  BY <1>1
<1>2. ASSUME NEW p \in Proc, MarkApplied(p) \/ MarkComplete(p)
      PROVE  i \in intents' \/ i \in Receipt(p)
  BY <1>2, MarkedReceipts
<1>3. CASE UNCHANGED vars \/ Tick
  BY <1>1, <1>3 DEF vars, shared, Tick
<1>4. CASE Outside
  BY <1>1, <1>4 DEF Outside, Claim, Lapse, Release, Stage, MoveHead, EditHooks, CommitOutside, shared
<1>5. ASSUME NEW p \in Proc,
             Starts(p) \/ LockCommit(p) \/ LockReconcile(p) \/ Keeping(p) \/ MarkComplete(p) \/ Ending(p)
      PROVE  intents \subseteq intents' \/ MarkApplied(p) \/ MarkComplete(p)
  BY <1>5 DEF Starts, StartCommit, StartReconcile, LockCommit, LockReconcile,
     Keeping, Snapshot, BuildGroup, Fence, Recheck, Prepare, Publish, PostHooks, Record,
     Ending, shared
<1>. QED BY <1>1, <1>2, <1>3, <1>4, <1>5, StepCases

\* What is on a lane ref stays there while no capture of the lane publishes.
LEMMA RefGrows ==
  ASSUME TypeOK, Locked, [Next]_vars, NEW l \in Lane, NEW c \in Commit, IsPrefix(c, ref[l]),
         \A p \in Proc : Publish(p) => job[p].lane # l
  PROVE  IsPrefix(c, ref'[l])
<1>1. c \in Seq(Entry) /\ ref[l] \in Seq(Entry)
  BY DEF TypeOK, Commit, Entry
<1>2. CASE ref'[l] = ref[l]
  BY <1>2
<1>3. ASSUME NEW e \in Entry, ref'[l] = Append(ref[l], e) PROVE IsPrefix(c, ref'[l])
  BY <1>1, <1>3, PrefixAppend
<1>. QED BY <1>2, <1>3, RefFrame

\* The steps of other commands leave Reached(q).
LEMMA ReachedFrame ==
  ASSUME TypeOK, Locked, [Next]_vars, NEW q \in Proc, Reached(q),
         job'[q] = job[q], pc'[q] = pc[q],
         \A p \in Proc : (Record(p) \/ Publish(p) \/ MarkApplied(p) \/ MarkComplete(p)) => p # q
  PROVE  Reached(q)'
<1>. DEFINE l == job[q].lane
<1>1. CASE pc[q] \in {"idle", "lock"}
  <2>1. pc[q] = "idle" => job[q].verb = "none"
    BY DEF Locked, Idle
  <2>. QED BY <1>1, <2>1 DEF Reached
<1>2. CASE pc[q] \notin {"idle", "lock"}
  <2>1. l \in Lane /\ \A p \in Proc : p # q /\ pc[p] \notin {"idle", "lock"} => job[p].lane # l
    BY <1>2, OwnLane DEF Locked
  <2>2. \A p \in Proc : (Record(p) \/ Publish(p) \/ MarkApplied(p) \/ MarkComplete(p)) =>
                           job[p].lane # l
    BY <2>1 DEF Record, Publish, MarkApplied, MarkComplete
  <2>. HIDE DEF l
  <2>3. lanes'[l].cursor = lanes[l].cursor
    BY <2>1, <2>2, CursorFrame
  <2>4. l \in foreign \/ ref[l] = job[q].new => l \in foreign' \/ ref'[l] = job[q].new
    BY <2>1, <2>2, RefFrame
  <2>6. IsPrefix(job[q].new, ref[l]) => IsPrefix(job[q].new, ref'[l])
    BY <2>1, <2>2, RefGrows DEF TypeOK, Job
  <2>7. lanes[l].state = "active" => lanes'[l].state = "active"
    <3>1. laneLock[l] = q
      BY <1>2 DEF Locked, l
    <3>. QED BY <2>1, <3>1, StateFrame, CaptureAssumption
  <2>5. \A i \in Receipt(q) : i \in Receipt(q)'
    <3>1. \A i \in Receipt(q) : i \in intents /\ i.lane = l
      BY DEF Receipt, l
    <3>2. \A i \in Receipt(q) : i \in intents'
      <4>. SUFFICES ASSUME NEW i \in Receipt(q) PROVE i \in intents'
        OBVIOUS
      <4>1. \A p \in Proc : i \in Receipt(p) => job[p].lane = l
        BY <3>1 DEF Receipt
      <4>. QED BY <2>2, <3>1, <4>1, ReceiptFrame
    <3>. QED BY <3>2 DEF Receipt
  <2>. QED BY <2>3, <2>4, <2>5, <2>6, <2>7 DEF Reached, l
<1>. QED BY <1>1, <1>2

\* A capture's own step before its ref update.
LEMMA ReachedBuilding ==
  ASSUME TypeOK, Locked, NEW p \in Proc, Reached(p),
         Snapshot(p) \/ BuildGroup(p) \/ Fence(p) \/ Recheck(p) \/ PostHooks(p)
  PROVE  Reached(p)'
<1>1. lanes' = lanes /\ ref' = ref /\ foreign' = foreign /\ job[p] \in Job
  BY DEF Snapshot, BuildGroup, Fence, Recheck, PostHooks, Quiet, TypeOK
<1>2. CASE Snapshot(p)
  <2>1. /\ job'[p].lane = job[p].lane /\ job'[p].old = ref[job[p].lane]
        /\ lanes[job[p].lane].cursor = ref[job[p].lane] /\ pc'[p] = "build"
        /\ lanes[job[p].lane].state = "active"
    BY <1>1, <1>2 DEF Snapshot, SnapshotOK, FenceOK, Goto, Job, TypeOK
  <2>. QED BY <1>1, <2>1 DEF Reached
<1>3. CASE BuildGroup(p)
  <2>1. /\ job'[p].lane = job[p].lane /\ job'[p].old = job[p].old /\ job'[p].verb = job[p].verb
        /\ pc'[p] = "build" /\ pc[p] = "build"
    BY <1>1, <1>3, ZenonT(60) DEF BuildGroup, Job, TypeOK
  <2>. QED BY <1>1, <2>1 DEF Reached
<1>4. CASE Fence(p) \/ Recheck(p)
  <2>1. job' = job /\ pc[p] \in {"build", "recheck"} /\ pc'[p] \in {"recheck", "prepare"}
    BY <1>4 DEF Fence, Recheck, Goto, TypeOK
  <2>. QED BY <1>1, <2>1 DEF Reached
<1>5. CASE PostHooks(p)
  <2>1. job' = job /\ pc[p] = "hooks" /\ pc'[p] = "record"
    BY <1>5 DEF PostHooks, Goto, TypeOK
  <2>2. job[p].verb = "commit"
    BY <2>1 DEF Locked, CapturePoints
  <2>. QED BY <1>1, <2>1, <2>2 DEF Reached
<1>. QED BY <1>2, <1>3, <1>4, <1>5

\* A command's own step that writes.
LEMMA ReachedWriting ==
  ASSUME TypeOK, Locked, NEW p \in Proc, Reached(p),
         Prepare(p) \/ Publish(p) \/ Record(p) \/ MarkApplied(p)
  PROVE  Reached(p)'
<1>1. foreign' = foreign /\ job' = job /\ job[p] \in Job /\ job[p].lane \in Lane
  BY DEF Prepare, Publish, Record, MarkApplied, Quiet, TypeOK, Locked
<1>2. CASE Prepare(p)
  <2>. DEFINE i == [lane |-> job[p].lane, old |-> job[p].old, new |-> job[p].new,
                    requested |-> Requested(job[p].plan), allowed |-> job[p].allowed,
                    state |-> "prepared"]
  <2>1. lanes' = lanes /\ intents' = intents \cup {i} /\ pc[p] = "prepare" /\ pc'[p] = "publish"
    BY <1>2 DEF Prepare, Goto, TypeOK
  <2>2. i \in Receipt(p)' /\ i.state # "complete"
    BY <1>1, <2>1 DEF Receipt
  <2>. HIDE DEF i
  <2>. QED BY <1>1, <2>1, <2>2 DEF Reached
<1>3. CASE Publish(p)
  <2>1. lanes' = lanes /\ ref'[job[p].lane] = job[p].new /\ pc[p] = "publish" /\ pc'[p] = "applied"
    BY <1>1, <1>3 DEF Publish, Goto, TypeOK
  <2>2. job[p].verb = "commit"
    BY <2>1 DEF Locked, CapturePoints
  <2>3. IsPrefix(job[p].new, job[p].new)
    BY <1>1, PrefixReflexive DEF Job, Commit
  <2>. QED BY <1>1, <2>1, <2>2, <2>3 DEF Reached
<1>4. CASE Record(p)
  <2>1. /\ lanes'[job[p].lane].cursor = job[p].new /\ pc[p] = "record" /\ ref' = ref
        /\ lanes'[job[p].lane].state = lanes[job[p].lane].state
        /\ pc'[p] = IF job[p].verb = "commit" THEN "complete" ELSE "applied"
    BY <1>1, <1>4 DEF Record, Goto, TypeOK
  <2>. QED BY <1>1, <2>1 DEF Reached
<1>5. CASE MarkApplied(p)
  <2>1. /\ lanes' = lanes /\ ref' = ref /\ pc[p] = "applied"
        /\ pc'[p] = IF job[p].verb = "commit" THEN "hooks" ELSE "complete"
    BY <1>1, <1>5 DEF MarkApplied, Goto, TypeOK
  <2>2. job[p].verb \in {"commit", "reconcile"}
    BY <1>1, <2>1 DEF Locked, Job
  <2>. QED BY <1>1, <2>1, <2>2 DEF Reached
<1>. QED BY <1>2, <1>3, <1>4, <1>5

LEMMA ProgressStep == TypeOK /\ Locked /\ Progress /\ [Next]_vars => Progress'
<1>. SUFFICES ASSUME TypeOK, Locked, Progress, [Next]_vars, NEW q \in Proc
              PROVE  Reached(q)'
  BY DEF Progress
<1>0. Reached(q) /\ job[q] \in Job /\ pc[q] \in Points
  BY DEF Progress, TypeOK
<1>1. CASE UNCHANGED vars \/ Tick \/ Outside
  <2>1. job' = job /\ pc' = pc
    BY <1>1 DEF vars, Tick, Outside
  <2>2. ~(Record(q) \/ Publish(q) \/ MarkApplied(q) \/ MarkComplete(q))
    BY <2>1, <1>0 DEF Record, Publish, MarkApplied, MarkComplete, End, Goto, TypeOK
  <2>. QED BY <1>0, <2>1, <2>2, ReachedFrame
<1>3. ASSUME NEW p \in Proc, p # q,
             Starts(p) \/ LockCommit(p) \/ LockReconcile(p) \/ Keeping(p) \/ MarkComplete(p) \/ Ending(p)
      PROVE  Reached(q)'
  <2>1. job'[q] = job[q] /\ pc'[q] = pc[q]
    <3>1. CASE Starts(p)
      BY <1>3, <3>1 DEF Starts, StartCommit, StartReconcile, Goto, TypeOK
    <3>2. CASE LockCommit(p) \/ LockReconcile(p)
      BY <1>3, <3>2 DEF LockCommit, LockReconcile, Goto, TypeOK
    <3>3. CASE Keeping(p)
      BY <1>3, <3>3, KeepingFrame
    <3>4. CASE MarkComplete(p) \/ Ending(p)
      BY <1>3, <3>4 DEF MarkComplete, Ending, End, Goto, TypeOK
    <3>. QED BY <1>3, <3>1, <3>2, <3>3, <3>4
  <2>2. ~(Record(q) \/ Publish(q) \/ MarkApplied(q) \/ MarkComplete(q))
    BY <2>1, <1>0 DEF Record, Publish, MarkApplied, MarkComplete, End, Goto, TypeOK
  <2>. QED BY <1>0, <2>1, <2>2, ReachedFrame
<1>4. CASE Starts(q)
  <2>1. pc'[q] = "lock"
    BY <1>4 DEF Starts, StartCommit, StartReconcile, Goto, TypeOK
  <2>. QED BY <2>1 DEF Reached
<1>5. CASE LockCommit(q)
  <2>1. pc'[q] = "snapshot"
    BY <1>5 DEF LockCommit, Goto, TypeOK
  <2>. QED BY <2>1 DEF Reached
<1>6. CASE LockReconcile(q)
  <2>1. /\ pc[q] = "lock" /\ pc'[q] = "record" /\ job[q].verb = "reconcile"
        /\ job' = job /\ lanes' = lanes /\ ref' = ref
    BY <1>6 DEF LockReconcile, Goto, TypeOK, shared
  <2>2. /\ lanes[job[q].lane].cursor \in {job[q].old, job[q].new} /\ ref[job[q].lane] = job[q].new
        /\ IsPrefix(job[q].old, job[q].new)
    BY <1>6 DEF LockReconcile, Receipt, ReconcileOK, IsStrictPrefix
  <2>3. IsPrefix(job[q].new, job[q].new)
    BY <1>0, PrefixReflexive DEF Job, Commit
  <2>. QED BY <2>1, <2>2, <2>3 DEF Reached
<1>7. CASE Keeping(q)
  BY <1>0, <1>7, ReachedBuilding, ReachedWriting DEF Keeping
<1>8. CASE MarkComplete(q) \/ Ending(q)
  <2>1. pc'[q] = "idle" /\ job'[q].verb = "none"
    BY <1>8 DEF MarkComplete, Ending, End, Goto, Idle, TypeOK
  <2>. QED BY <2>1 DEF Reached
<1>. QED BY <1>1, <1>3, <1>4, <1>5, <1>6, <1>7, <1>8, StepCases
-----------------------------------------------------------------------------
(* The promises. *)

\* A receipt from the cursor to the ref is one that reconcile accepts.
LEMMA Reconcilable ==
  ASSUME TypeOK, ReceiptsBuilt, NEW l \in Lane, NEW i \in intents,
         i.lane = l, i.old = lanes[l].cursor, i.new = ref[l]
  PROVE  ReconcileOK(l, i)
BY DEF ReceiptsBuilt, Built, ReconcileOK, IsStrictPrefix

\* What Recoverable asks of one lane, without the check of reconcile.
Led(l) ==
  ref[l] # lanes[l].cursor =>
    \E i \in intents : /\ i.lane = l /\ i.old = lanes[l].cursor /\ i.new = ref[l]
                       /\ i.state # "complete"

\* Marking receipts never takes away the one that leads on from the cursor.
LEMMA MarkKeepsLead ==
  ASSUME TypeOK, Locked, Progress, ReceiptsBuilt, NEW p \in Proc, MarkApplied(p) \/ MarkComplete(p),
         NEW l \in Lane, NEW j \in intents,
         j.lane = l, j.old = lanes[l].cursor, j.state # "complete"
  PROVE  \E i \in intents' : i.lane = l /\ i.old = j.old /\ i.new = j.new /\ i.state # "complete"
<1>1. CASE MarkApplied(p) /\ j \in Receipt(p)
  <2>. DEFINE i == [j EXCEPT !.state = IF @ = "prepared" THEN "applied" ELSE @]
  <2>1. i \in intents'
    BY <1>1 DEF MarkApplied
  <2>2. i.lane = l /\ i.old = j.old /\ i.new = j.new /\ i.state # "complete"
    BY DEF TypeOK, ReceiptRecord
  <2>. QED BY <2>1, <2>2
<1>2. CASE MarkComplete(p)
  <2>1. j.new # lanes[l].cursor
    BY DEF ReceiptsBuilt
  <2>2. pc[p] = "complete"
    BY <1>2 DEF MarkComplete
  <2>3. lanes[job[p].lane].cursor = job[p].new
    BY <2>2 DEF Progress, Reached
  <2>4. j \notin Receipt(p)
    BY <2>1, <2>3 DEF Receipt
  <2>. QED BY <1>2, <2>4, MarkedReceipts
<1>3. CASE j \notin Receipt(p)
  BY <1>3, MarkedReceipts
<1>. QED BY <1>1, <1>2, <1>3

LEMMA RecoverableStep ==
  ASSUME TypeOK, Locked, ChainBuilt, Progress, ReceiptsBuilt, Recoverable, [Next]_vars,
         TypeOK', ReceiptsBuilt'
  PROVE  Recoverable'
<1>. SUFFICES ASSUME NEW l \in Lane, l \notin foreign' PROVE Led(l)'
  <2>1. \A l \in Lane \ foreign' : Led(l)'
    OBVIOUS
  <2>2. \A l \in Lane, i \in intents' :
          (i.lane = l /\ i.old = lanes'[l].cursor /\ i.new = ref'[l]) => ReconcileOK(l, i)'
    <3>1. \A m \in Lane, i \in intents' :
            (i.lane = m /\ i.old = lanes'[m].cursor /\ i.new = ref'[m]) =>
              /\ IsStrictPrefix(i.old, i.new)
              /\ Changed(TreeOf(i.old), TreeOf(i.new)) \subseteq i.requested \cap i.allowed
      BY DEF ReceiptsBuilt, Built, IsStrictPrefix
    <3>. QED BY <3>1 DEF ReconcileOK
  <2>. QED BY <2>1, <2>2 DEF Recoverable, Led
<1>1. l \notin foreign /\ Led(l)
  BY RefFrame DEF Recoverable, Led
<1>2. ASSUME NEW p \in Proc, Publish(p), job[p].lane = l PROVE Led(l)'
  <2>1. /\ pc[p] = "publish" /\ lanes' = lanes /\ intents' = intents
        /\ ref'[l] = job[p].new
    BY <1>2 DEF Publish, TypeOK
  <2>2. job[p].verb = "commit"
    BY <2>1 DEF Locked, CapturePoints
  <2>3. lanes[l].cursor = job[p].old /\ \E i \in Receipt(p) : i.state # "complete"
    BY <1>2, <2>1, <2>2 DEF Progress, Reached
  <2>. QED BY <1>2, <2>1, <2>3 DEF Led, Receipt
<1>3. ASSUME NEW p \in Proc, Record(p), job[p].lane = l PROVE Led(l)'
  <2>1. /\ lanes'[l].cursor = job[p].new /\ ref' = ref /\ intents' = intents
    BY <1>3 DEF Record, TypeOK
  <2>2. lanes[l].cursor = job[p].new \/ ref[l] = job[p].new
    BY <1>3 DEF Record, RecordOK
  <2>. QED BY <1>1, <2>1, <2>2 DEF Led
<1>4. CASE lanes'[l].cursor = lanes[l].cursor /\ ref'[l] = ref[l]
  <2>. SUFFICES ASSUME ref[l] # lanes[l].cursor
                PROVE  \E i \in intents' : /\ i.lane = l /\ i.old = lanes[l].cursor /\ i.new = ref[l]
                                           /\ i.state # "complete"
    BY <1>4 DEF Led
  <2>1. PICK j \in intents : /\ j.lane = l /\ j.old = lanes[l].cursor /\ j.new = ref[l]
                             /\ j.state # "complete"
    BY <1>1 DEF Led
  <2>2. CASE j \in intents'
    BY <2>1, <2>2
  <2>3. ASSUME NEW p \in Proc, MarkApplied(p) \/ MarkComplete(p)
        PROVE  \E i \in intents' : /\ i.lane = l /\ i.old = j.old /\ i.new = j.new
                                   /\ i.state # "complete"
    BY <2>1, <2>3, MarkKeepsLead
  <2>. QED BY <2>1, <2>2, <2>3, ReceiptFrame
<1>5. lanes'[l].cursor = lanes[l].cursor \/ \E p \in Proc : Record(p) /\ job[p].lane = l
  BY CursorFrame
<1>6. ref'[l] = ref[l] \/ \E p \in Proc : Publish(p) /\ job[p].lane = l
  BY RefFrame
<1>. QED BY <1>2, <1>3, <1>4, <1>5, <1>6

\* The cursor only tells of what is on the ref.
LEMMA CursorBehindStep ==
  ASSUME TypeOK, Locked, ChainBuilt, CursorBehind, [Next]_vars, TypeOK'
  PROVE  CursorBehind'
<1>. SUFFICES ASSUME NEW l \in Lane PROVE IsPrefix(lanes'[l].cursor, ref'[l])
  BY DEF CursorBehind
<1>0. /\ lanes[l].cursor \in Commit /\ ref[l] \in Commit /\ ref'[l] \in Commit
      /\ IsPrefix(lanes[l].cursor, ref[l])
  BY DEF TypeOK, CursorBehind
<1>1. ASSUME NEW p \in Proc, Publish(p), job[p].lane = l PROVE IsPrefix(lanes'[l].cursor, ref'[l])
  <2>1. lanes' = lanes /\ ref'[l] = job[p].new /\ ref[l] = job[p].old /\ pc[p] = "publish"
    BY <1>1 DEF Publish, TypeOK
  <2>2. IsPrefix(ref[l], ref'[l])
    BY <2>1, ChainDone DEF ChainBuilt, Locked, CapturePoints, Built
  <2>. QED BY <1>0, <2>1, <2>2, PrefixTransitive DEF Commit
<1>2. ASSUME NEW p \in Proc, Record(p), job[p].lane = l PROVE IsPrefix(lanes'[l].cursor, ref'[l])
  <2>1. ref' = ref /\ lanes'[l].cursor = job[p].new
    BY <1>2 DEF Record, TypeOK
  <2>2. lanes[l].cursor = job[p].new \/ ref[l] = job[p].new
    BY <1>2 DEF Record, RecordOK
  <2>. QED BY <1>0, <2>1, <2>2, PrefixReflexive DEF Commit
<1>3. CASE lanes'[l].cursor = lanes[l].cursor /\ \A p \in Proc : Publish(p) => job[p].lane # l
  BY <1>0, <1>3, RefGrows
<1>. QED BY <1>1, <1>2, <1>3, CursorFrame

\* What the cursor has reached it never leaves.
LEMMA CursorGrows ==
  ASSUME TypeOK, Locked, [Next]_vars, TypeOK', NEW l \in Lane, NEW c \in Commit,
         IsPrefix(c, lanes[l].cursor)
  PROVE  IsPrefix(c, lanes'[l].cursor)
<1>1. ASSUME NEW p \in Proc, Record(p), job[p].lane = l PROVE IsPrefix(c, lanes'[l].cursor)
  <2>1. lanes'[l].cursor = job[p].new
    BY <1>1 DEF Record, TypeOK
  <2>2. lanes[l].cursor \in Commit /\ job[p].new \in Commit
    BY DEF TypeOK, Job
  <2>3. lanes[l].cursor = job[p].new \/ IsPrefix(lanes[l].cursor, job[p].new)
    BY <1>1 DEF Record, RecordOK
  <2>. QED BY <2>1, <2>2, <2>3, PrefixTransitive DEF Commit
<1>. QED BY <1>1, CursorFrame

\* What an applied receipt says, without the check of reconcile.
Landed(l, old, new) ==
  /\ IsPrefix(new, ref[l])
  /\ \/ IsPrefix(new, lanes[l].cursor)
     \/ lanes[l].cursor = old /\ (l \in foreign \/ ref[l] = new)

LEMMA LandedStep ==
  ASSUME TypeOK, Locked, ChainBuilt, Progress, [Next]_vars, TypeOK',
         NEW l \in Lane, NEW old \in Commit, NEW new \in Commit, Landed(l, old, new)
  PROVE  Landed(l, old, new)'
<1>0. lanes[l].cursor \in Commit /\ ref[l] \in Commit /\ ref'[l] \in Commit
  BY DEF TypeOK
<1>1. ASSUME NEW p \in Proc, Publish(p), job[p].lane = l PROVE Landed(l, old, new)'
  <2>1. lanes' = lanes /\ ref'[l] = job[p].new /\ ref[l] = job[p].old /\ pc[p] = "publish"
    BY <1>1 DEF Publish, TypeOK
  <2>2. job[p].verb = "commit"
    BY <2>1 DEF Locked, CapturePoints
  <2>3. IsPrefix(ref[l], ref'[l])
    BY <2>1, <2>2, ChainDone DEF ChainBuilt, Built
  <2>4. lanes[l].cursor = ref[l]
    BY <1>1, <2>1, <2>2 DEF Progress, Reached
  <2>5. IsPrefix(new, ref'[l]) /\ IsPrefix(new, lanes'[l].cursor)
    BY <1>0, <2>1, <2>3, <2>4, PrefixTransitive DEF Commit, Landed
  <2>. QED BY <2>5 DEF Landed
<1>2. ASSUME NEW p \in Proc, Record(p), job[p].lane = l PROVE Landed(l, old, new)'
  <2>1. ref' = ref /\ lanes'[l].cursor = job[p].new /\ foreign' = foreign
    BY <1>2 DEF Record, Quiet, TypeOK
  <2>2. lanes[l].cursor = job[p].new \/ ref[l] = job[p].new
    BY <1>2 DEF Record, RecordOK
  <2>. QED BY <2>1, <2>2 DEF Landed
<1>3. CASE lanes'[l].cursor = lanes[l].cursor /\ \A p \in Proc : Publish(p) => job[p].lane # l
  <2>1. IsPrefix(new, ref'[l])
    BY <1>3, RefGrows DEF Landed
  <2>2. l \in foreign \/ ref[l] = new => l \in foreign' \/ ref'[l] = new
    BY <1>3, RefFrame
  <2>. QED BY <1>3, <2>1, <2>2 DEF Landed
<1>. QED BY <1>1, <1>2, <1>3, CursorFrame

\* Where the state of a receipt comes from.
LEMMA ReceiptOrigin ==
  ASSUME TypeOK, Locked, [Next]_vars, NEW i \in intents'
  PROVE  \/ \E p \in Proc : Prepare(p) /\ i.state = "prepared"
         \/ \E j \in intents : j.lane = i.lane /\ j.old = i.old /\ j.new = i.new /\ j.state = i.state
         \/ \E p \in Proc : MarkApplied(p) /\ i.state = "applied"
              /\ i.lane = job[p].lane /\ i.old = job[p].old /\ i.new = job[p].new
         \/ \E p \in Proc : MarkComplete(p) /\ i.state = "complete"
              /\ i.lane = job[p].lane /\ i.old = job[p].old /\ i.new = job[p].new
<1>1. CASE intents' = intents
  BY <1>1
<1>2. ASSUME NEW p \in Proc, Prepare(p) PROVE i \in intents \/ i.state = "prepared"
  BY <1>2 DEF Prepare
<1>3. ASSUME NEW p \in Proc, MarkApplied(p)
      PROVE  \/ i \in intents
             \/ \E j \in intents : j.lane = i.lane /\ j.old = i.old /\ j.new = i.new /\ j.state = i.state
             \/ /\ i.state = "applied"
                /\ i.lane = job[p].lane /\ i.old = job[p].old /\ i.new = job[p].new
  <2>. SUFFICES ASSUME i \notin intents
                PROVE  \/ \E j \in intents : j.lane = i.lane /\ j.old = i.old /\ j.new = i.new
                                               /\ j.state = i.state
                       \/ /\ i.state = "applied"
                          /\ i.lane = job[p].lane /\ i.old = job[p].old /\ i.new = job[p].new
    OBVIOUS
  <2>1. PICK j \in Receipt(p) : i = [j EXCEPT !.state = IF @ = "prepared" THEN "applied" ELSE @]
    BY <1>3 DEF MarkApplied
  <2>2. /\ j \in ReceiptRecord /\ j \in intents
        /\ j.lane = job[p].lane /\ j.old = job[p].old /\ j.new = job[p].new
    BY DEF TypeOK, Receipt
  <2>3. /\ i.lane = j.lane /\ i.old = j.old /\ i.new = j.new
        /\ i.state = IF j.state = "prepared" THEN "applied" ELSE j.state
    BY <2>1, <2>2 DEF ReceiptRecord
  <2>. QED BY <2>2, <2>3
<1>4. ASSUME NEW p \in Proc, MarkComplete(p)
      PROVE  \/ i \in intents
             \/ /\ i.state = "complete"
                /\ i.lane = job[p].lane /\ i.old = job[p].old /\ i.new = job[p].new
  <2>. SUFFICES ASSUME i \notin intents
                PROVE  /\ i.state = "complete"
                       /\ i.lane = job[p].lane /\ i.old = job[p].old /\ i.new = job[p].new
    OBVIOUS
  <2>1. PICK j \in Receipt(p) : i = [j EXCEPT !.state = "complete"]
    BY <1>4 DEF MarkComplete
  <2>2. /\ j \in ReceiptRecord
        /\ j.lane = job[p].lane /\ j.old = job[p].old /\ j.new = job[p].new
    BY DEF TypeOK, Receipt
  <2>. QED BY <2>1, <2>2 DEF ReceiptRecord
<1>5. CASE UNCHANGED vars \/ Tick
  BY <1>1, <1>5 DEF vars, shared, Tick
<1>6. CASE Outside
  BY <1>1, <1>6 DEF Outside, Claim, Lapse, Release, Stage, MoveHead, EditHooks, CommitOutside, shared
<1>7. ASSUME NEW p \in Proc,
             Starts(p) \/ LockCommit(p) \/ LockReconcile(p) \/ Keeping(p) \/ MarkComplete(p) \/ Ending(p)
      PROVE  intents' = intents \/ Prepare(p) \/ MarkApplied(p) \/ MarkComplete(p)
  BY <1>7 DEF Starts, StartCommit, StartReconcile, LockCommit, LockReconcile,
     Keeping, Snapshot, BuildGroup, Fence, Recheck, Publish, PostHooks, Record, Ending, shared
<1>. QED BY <1>1, <1>2, <1>3, <1>4, <1>5, <1>6, <1>7, StepCases

LEMMA TellTrueStep ==
  ASSUME TypeOK, Locked, ChainBuilt, Progress, ReceiptsTellTrue, [Next]_vars,
         TypeOK', ReceiptsBuilt'
  PROVE  ReceiptsTellTrue'
<1>. SUFFICES ASSUME NEW i \in intents'
              PROVE  /\ i.state = "complete" => IsPrefix(i.new, lanes'[i.lane].cursor)
                     /\ i.state = "applied" =>
                          /\ IsPrefix(i.new, ref'[i.lane])
                          /\ \/ IsPrefix(i.new, lanes'[i.lane].cursor)
                             \/ /\ lanes'[i.lane].cursor = i.old
                                /\ i.lane \in foreign' \/ ReconcileOK(i.lane, i)'
  BY DEF ReceiptsTellTrue
<1>0. i \in ReceiptRecord /\ i.lane \in Lane /\ i.old \in Commit /\ i.new \in Commit
  BY DEF TypeOK, ReceiptRecord
<1>1. ASSUME i.state = "complete" PROVE IsPrefix(i.new, lanes'[i.lane].cursor)
  <2>1. ASSUME NEW j \in intents, j.lane = i.lane, j.new = i.new, j.state = i.state
        PROVE  IsPrefix(i.new, lanes[i.lane].cursor)
    BY <1>1, <2>1 DEF ReceiptsTellTrue
  <2>2. ASSUME NEW p \in Proc, MarkComplete(p), i.lane = job[p].lane, i.new = job[p].new
        PROVE  IsPrefix(i.new, lanes[i.lane].cursor)
    <3>1. pc[p] = "complete"
      BY <2>2 DEF MarkComplete
    <3>2. lanes[i.lane].cursor = i.new
      BY <2>2, <3>1 DEF Progress, Reached
    <3>. QED BY <1>0, <3>2, PrefixReflexive DEF Commit
  <2>3. IsPrefix(i.new, lanes[i.lane].cursor)
    BY <1>1, <2>1, <2>2, ReceiptOrigin
  <2>. QED BY <1>0, <2>3, CursorGrows
<1>2. ASSUME i.state = "applied" PROVE Landed(i.lane, i.old, i.new)'
  <2>1. ASSUME NEW j \in intents, j.lane = i.lane, j.old = i.old, j.new = i.new, j.state = i.state
        PROVE  Landed(i.lane, i.old, i.new)
    BY <1>2, <2>1 DEF ReceiptsTellTrue, ReconcileOK, Landed
  <2>2. ASSUME NEW p \in Proc, MarkApplied(p),
               i.lane = job[p].lane, i.old = job[p].old, i.new = job[p].new
        PROVE  Landed(i.lane, i.old, i.new)
    <3>1. pc[p] = "applied"
      BY <2>2 DEF MarkApplied
    <3>2. IsPrefix(i.new, ref[i.lane]) /\ (i.lane \in foreign \/ ref[i.lane] = i.new)
      BY <2>2, <3>1 DEF Progress, Reached
    <3>3. job[p].verb \in {"commit", "reconcile"}
      BY <3>1 DEF Locked, TypeOK, Job
    <3>4. lanes[i.lane].cursor \in {i.old, i.new}
      BY <2>2, <3>1, <3>3 DEF Progress, Reached
    <3>5. IsPrefix(i.new, i.new)
      BY <1>0, PrefixReflexive DEF Commit
    <3>. QED BY <3>2, <3>4, <3>5 DEF Landed
  <2>3. Landed(i.lane, i.old, i.new)
    BY <1>2, <2>1, <2>2, ReceiptOrigin
  <2>. QED BY <1>0, <2>3, LandedStep
<1>3. ASSUME lanes'[i.lane].cursor = i.old, ref'[i.lane] = i.new PROVE ReconcileOK(i.lane, i)'
  <2>1. /\ IsStrictPrefix(i.old, i.new)
        /\ Changed(TreeOf(i.old), TreeOf(i.new)) \subseteq i.requested \cap i.allowed
    BY DEF ReceiptsBuilt, Built, IsStrictPrefix
  <2>. QED BY <1>3, <2>1 DEF ReconcileOK
<1>4. ASSUME i.state = "applied"
      PROVE  /\ IsPrefix(i.new, ref'[i.lane])
             /\ \/ IsPrefix(i.new, lanes'[i.lane].cursor)
                \/ lanes'[i.lane].cursor = i.old /\ (i.lane \in foreign' \/ ref'[i.lane] = i.new)
  BY <1>2, <1>4 DEF Landed
<1>. QED BY <1>1, <1>3, <1>4
-----------------------------------------------------------------------------
(* The refinement of LaneHistory. *)

\* What a commit changes, as LaneHistory sees it.
LEMMA TouchedIsChanged ==
  ASSUME NEW c \in Commit, NEW k \in 1 .. Len(c)
  PROVE  History!Touched(c, k) = Changed(TreeOf(SubSeq(c, 1, k - 1)), TreeOf(SubSeq(c, 1, k)))
<1>1. c \in Seq(Entry) /\ Len(c) \in Nat
  BY DEF Commit, Entry
<1>2. ASSUME NEW n \in 1 .. Len(c) PROVE TreeOf(SubSeq(c, 1, n)) = c[n].tree
  <2>1. /\ SubSeq(c, 1, n) \in Seq(Entry) /\ Len(SubSeq(c, 1, n)) = n
        /\ SubSeq(c, 1, n)[n] = c[n]
    BY <1>1
  <2>2. SubSeq(c, 1, n) # <<>>
    BY <2>1
  <2>. QED BY <2>1, <2>2 DEF TreeOf, Last
<1>3. CASE k = 1
  <2>1. SubSeq(c, 1, k - 1) = <<>>
    BY <1>1, <1>3
  <2>2. TreeOf(SubSeq(c, 1, k - 1)) = [x \in Path |-> Base] /\ TreeOf(SubSeq(c, 1, k)) = c[k].tree
    BY <1>2, <2>1 DEF TreeOf, BaseTree
  <2>. QED BY <1>3, <2>2 DEF History!Touched, Changed
<1>4. CASE k # 1
  <2>1. k - 1 \in 1 .. Len(c)
    BY <1>1, <1>4
  <2>2. TreeOf(SubSeq(c, 1, k - 1)) = c[k - 1].tree /\ TreeOf(SubSeq(c, 1, k)) = c[k].tree
    BY <1>2, <2>1
  <2>. QED BY <1>4, <2>2 DEF History!Touched, Changed
<1>. QED BY <1>3, <1>4

\* The state of LaneHistory: the lane refs, the cursors and which lanes are active.
recorded == [l \in Lane |-> lanes[l].cursor]
open == [l \in Lane |-> lanes[l].state = "active"]

\* The ref update is a whole capture.
LEMMA PublishAdvances ==
  ASSUME CaptureInv, NEW p \in Proc, Publish(p), TypeOK'
  PROVE  History!Advance(job[p].lane, job[p].plan) /\ job[p].plan \in Plan /\ job[p].lane \in Lane
<1>. DEFINE l == job[p].lane
            plan == job[p].plan
<1>. USE DEF CaptureInv
<1>1. /\ pc[p] = "publish" /\ ref[l] = job[p].old /\ lanes' = lanes
      /\ ref' = [ref EXCEPT ![l] = job[p].new]
  BY DEF Publish
<1>2. job[p].verb = "commit" /\ l \in Lane
  BY <1>1 DEF Locked, CapturePoints
<1>3. /\ plan \in Plan /\ Len(job[p].new) = Len(job[p].old) + Len(plan)
      /\ Built(job[p].old, job[p].new, Requested(plan), job[p].allowed)
      /\ Grouped(job[p].old, job[p].new, plan)
  BY <1>1, <1>2, ChainDone DEF ChainBuilt
<1>4. lanes[l].cursor = job[p].old /\ lanes[l].state = "active"
  BY <1>1, <1>2 DEF Progress, Reached
<1>. HIDE DEF l, plan
<1>5. ref \in [Lane -> Commit] /\ job[p].new \in Commit /\ job[p].old \in Commit
      /\ plan \in Seq(SUBSET Path)
  BY <1>3, PlansAreSequences DEF TypeOK, Job
<1>6. ref'[l] = job[p].new /\ \A m \in Lane \ {l} : ref'[m] = ref[m]
  BY <1>1, <1>2, <1>5
<1>7. History!Grows(l, Len(plan))
  <2>1. recorded' = recorded /\ open' = open
    BY <1>1 DEF recorded, open
  <2>2. IsPrefix(ref[l], ref'[l]) /\ Len(ref'[l]) = Len(ref[l]) + Len(plan)
    BY <1>1, <1>3, <1>6 DEF Built
  <2>. QED BY <1>6, <2>1, <2>2 DEF History!Grows, History!IsPrefix, IsPrefix, recorded, open
<1>8. ASSUME NEW n \in 1 .. Len(plan)
      PROVE  /\ History!Touched(ref'[l], Len(ref[l]) + n) # {}
             /\ History!Touched(ref'[l], Len(ref[l]) + n) \subseteq plan[n]
  <2>1. Len(plan) \in Nat /\ Len(job[p].old) \in Nat /\ Len(job[p].new) \in Nat
    BY <1>5 DEF Commit
  <2>2. n \in 1 .. Len(job[p].new) - Len(job[p].old) /\ Len(job[p].old) + n \in 1 .. Len(job[p].new)
    BY <1>3, <2>1
  <2>. DEFINE k == Len(job[p].old) + n
  <2>3. /\ Changed(TreeOf(SubSeq(job[p].new, 1, k - 1)), TreeOf(SubSeq(job[p].new, 1, k))) # {}
        /\ Changed(TreeOf(SubSeq(job[p].new, 1, k - 1)), TreeOf(SubSeq(job[p].new, 1, k))) \subseteq plan[n]
    BY <1>3, <2>2 DEF Grouped
  <2>4. History!Touched(job[p].new, k) =
          Changed(TreeOf(SubSeq(job[p].new, 1, k - 1)), TreeOf(SubSeq(job[p].new, 1, k)))
    BY <1>5, <2>2, TouchedIsChanged
  <2>. QED BY <1>1, <1>6, <2>3, <2>4
<1>9. open[l] /\ recorded[l] = ref[l]
  BY <1>1, <1>2, <1>4 DEF open, recorded
<1>. QED BY <1>2, <1>3, <1>7, <1>8, <1>9 DEF History!Advance, open, recorded, l, plan

\* Every step of the transaction is one of LaneHistory or leaves it alone.
LEMMA HistoryStep ==
  ASSUME CaptureInv, TypeOK', [Next]_vars
  PROVE  [History!Next]_<<ref, recorded, open>>
<1>. USE DEF CaptureInv
<1>1. CASE lanes' = lanes /\ ref' = ref
  BY <1>1 DEF recorded, open
<1>2. ASSUME NEW l \in Lane, Release(l) PROVE History!Close(l)
  <2>1. /\ lanes' = [lanes EXCEPT ![l].state = "closed"] /\ ref' = ref
        /\ lanes \in [Lane -> [state : {"active", "closed"}, cursor : Commit]]
    BY <1>2 DEF Release, TypeOK
  <2>2. \A m \in Lane : lanes'[m].cursor = lanes[m].cursor
    BY <2>1
  <2>3. recorded' = recorded
    BY <2>2 DEF recorded
  <2>4. \A m \in Lane : (lanes'[m].state = "active") = IF m = l THEN FALSE ELSE lanes[m].state = "active"
    BY <2>1
  <2>5. open' = [open EXCEPT ![l] = FALSE]
    BY <2>4 DEF open
  <2>. QED BY <2>1, <2>3, <2>5 DEF History!Close, recorded, open
<1>3. ASSUME NEW l \in Lane, NEW t \in Tree, CommitOutside(l, t) PROVE History!Foreign(l)
  <2>1. /\ ref' = [ref EXCEPT ![l] = Append(@, [tree |-> t, at |-> second])] /\ lanes' = lanes
        /\ ref \in [Lane -> Commit] /\ [tree |-> t, at |-> second] \in Entry
    BY <1>3 DEF CommitOutside, TypeOK, Entry
  <2>. DEFINE e == [tree |-> t, at |-> second]
  <2>2. ref'[l] = Append(ref[l], e) /\ \A m \in Lane \ {l} : ref'[m] = ref[m]
    BY <2>1
  <2>. HIDE DEF e
  <2>3. ref[l] \in Seq(Entry) /\ e \in Entry
    BY <2>1 DEF Commit, Entry, e
  <2>4. IsPrefix(ref[l], Append(ref[l], e)) /\ Len(Append(ref[l], e)) = Len(ref[l]) + 1
    BY <2>3, PrefixReflexive, PrefixAppend
  <2>5. recorded' = recorded /\ open' = open
    BY <2>1 DEF recorded, open
  <2>. QED BY <2>2, <2>4, <2>5 DEF History!Foreign, History!Grows, History!IsPrefix, IsPrefix, recorded, open
<1>4. ASSUME NEW p \in Proc, Record(p) PROVE (\E l \in Lane : History!Record(l)) \/ (lanes' = lanes /\ ref' = ref)
  <2>. DEFINE l == job[p].lane
  <2>1. /\ lanes' = [lanes EXCEPT ![l].cursor = job[p].new] /\ ref' = ref /\ l \in Lane
        /\ lanes \in [Lane -> [state : {"active", "closed"}, cursor : Commit]]
    BY <1>4 DEF Record, Locked, TypeOK
  <2>. HIDE DEF l
  <2>2. CASE lanes[l].cursor = job[p].new
    <3>1. lanes' = lanes
      BY <2>1, <2>2
    <3>. QED BY <2>1, <3>1
  <2>3. CASE lanes[l].cursor # job[p].new
    <3>1. job[p].new = ref[l]
      BY <1>4, <2>3 DEF Record, RecordOK, l
    <3>2. \A m \in Lane : lanes'[m].state = lanes[m].state
      BY <2>1
    <3>3. open' = open
      BY <3>2 DEF open
    <3>4. \A m \in Lane : lanes'[m].cursor = IF m = l THEN ref[l] ELSE lanes[m].cursor
      BY <2>1, <3>1
    <3>5. recorded' = [recorded EXCEPT ![l] = ref[l]]
      BY <3>4 DEF recorded
    <3>6. PICK m \in Lane : m = l
      BY <2>1
    <3>7. History!Record(m)
      BY <2>1, <3>3, <3>5, <3>6 DEF History!Record, recorded, open
    <3>. QED BY <3>7
  <2>. QED BY <2>2, <2>3
<1>5. CASE UNCHANGED vars \/ Tick
  BY <1>1, <1>5 DEF vars, shared, Tick
<1>6. CASE Outside
  <2>1. \/ lanes' = lanes /\ ref' = ref
        \/ \E l \in Lane : Release(l)
        \/ \E l \in Lane, t \in Tree : CommitOutside(l, t)
    BY <1>6 DEF Outside, Claim, Lapse, Stage, MoveHead, EditHooks, shared
  <2>. QED BY <1>1, <1>2, <1>3, <2>1 DEF History!Next
<1>7. ASSUME NEW p \in Proc, Publish(p) PROVE History!Next
  BY <1>7, PublishAdvances DEF History!Next
<1>8. ASSUME NEW p \in Proc, Record(p) PROVE [History!Next]_<<ref, recorded, open>>
  BY <1>1, <1>4, <1>8 DEF History!Next
<1>9. ASSUME NEW p \in Proc,
             Starts(p) \/ LockCommit(p) \/ LockReconcile(p) \/ Keeping(p) \/ MarkComplete(p) \/ Ending(p)
      PROVE  (lanes' = lanes /\ ref' = ref) \/ Publish(p) \/ Record(p)
  BY <1>9 DEF Starts, StartCommit, StartReconcile, LockCommit, LockReconcile,
     Keeping, Snapshot, BuildGroup, Fence, Recheck, Prepare, PostHooks, MarkApplied,
     MarkComplete, Ending, shared
<1>. QED BY <1>1, <1>5, <1>6, <1>7, <1>8, <1>9, StepCases
-----------------------------------------------------------------------------
LEMMA CaptureInvInit == Init => CaptureInv
<1>. SUFFICES ASSUME Init PROVE CaptureInv
  OBVIOUS
<1>1. TypeOK
  BY TypeInit
<1>2. Locked
  BY DEF Init, Locked, CapturePoints
<1>3. ChainBuilt /\ Progress
  BY DEF Init, ChainBuilt, Chain, Progress, Reached, Idle
<1>4. ReceiptsBuilt /\ ReceiptsTellTrue /\ Recoverable
  BY DEF Init, ReceiptsBuilt, ReceiptsTellTrue, Recoverable
<1>5. CursorBehind
  <2>1. <<>> \in Commit
    BY DEF Commit
  <2>2. IsPrefix(<<>>, <<>>)
    BY <2>1, PrefixReflexive DEF Commit
  <2>. QED BY <2>2 DEF Init, CursorBehind
<1>. QED BY <1>1, <1>2, <1>3, <1>4, <1>5 DEF CaptureInv

\* CaptureInv is an invariant of every instance.
THEOREM CaptureInvariant == Spec => []CaptureInv
<1>1. Init => CaptureInv
  BY CaptureInvInit
<1>2. CaptureInv /\ [Next]_vars => CaptureInv'
  <2>. SUFFICES ASSUME CaptureInv, [Next]_vars PROVE CaptureInv'
    OBVIOUS
  <2>. USE DEF CaptureInv
  <2>1. TypeOK'
    BY TypeStep
  <2>2. Locked' /\ ChainBuilt' /\ Progress' /\ ReceiptsBuilt'
    BY LockedStep, ChainStep, ProgressStep, ReceiptsStep
  <2>3. Recoverable' /\ ReceiptsTellTrue' /\ CursorBehind'
    BY <2>1, <2>2, RecoverableStep, TellTrueStep, CursorBehindStep
  <2>. QED BY <2>1, <2>2, <2>3
<1>. QED BY <1>1, <1>2, PTL DEF Spec

\* Type correctness of the capture model, and that receipts have distinct
\* identifiers (createIntent never replaces one).
THEOREM TypeCorrect == Spec => []TypeOK
<1>1. CaptureInv => TypeOK
  BY DEF CaptureInv
<1>. QED BY <1>1, CaptureInvariant, PTL

\* The crash table of ARCHITECTURE.md for any number of commands, lanes and
\* plans: a ref that wip moved past its cursor has a receipt reconcile accepts.
THEOREM StoppedIsRecoverable == Spec => []Recoverable
<1>1. CaptureInv => Recoverable
  BY DEF CaptureInv
<1>. QED BY <1>1, CaptureInvariant, PTL

\* MarkIntent says complete only of what RecordCommit has recorded, and applied
\* only of what is on the ref and recorded or ready for `wip reconcile`; no later
\* capture or reconciliation makes it untrue.
THEOREM ReceiptsAreTrue == Spec => []ReceiptsTellTrue
<1>1. CaptureInv => ReceiptsTellTrue
  BY DEF CaptureInv
<1>. QED BY <1>1, CaptureInvariant, PTL

\* RecordCommit accepts what an admitted capture or reconciliation brings to it:
\* under the lane lock only a commit from outside can come between.
THEOREM RecordingSucceeds == Spec => []RecordingGoesOn
<1>1. CaptureInv => RecordingGoesOn
  <2>. SUFFICES ASSUME CaptureInv, NEW p \in Proc, pc[p] = "record", job[p].lane \notin foreign
                PROVE  RecordOK(p)
    BY DEF RecordingGoesOn
  <2>. USE DEF CaptureInv
  <2>1. ref[job[p].lane] = job[p].new /\ job[p].verb \in {"commit", "reconcile"}
    BY DEF Progress, Reached, Locked, TypeOK, Job
  <2>2. CASE job[p].verb = "commit"
    <3>1. lanes[job[p].lane].cursor = job[p].old
      BY <2>2 DEF Progress, Reached
    <3>2. IsPrefix(job[p].old, job[p].new)
      BY <2>2, ChainDone DEF ChainBuilt, Built
    <3>. QED BY <2>1, <3>1, <3>2 DEF RecordOK
  <2>3. CASE job[p].verb = "reconcile"
    BY <2>1, <2>3 DEF Progress, Reached, RecordOK
  <2>. QED BY <2>1, <2>2, <2>3
<1>. QED BY <1>1, CaptureInvariant, PTL

\* Captured commits, whatever the hook rewrote, stay within the leased paths.
THEOREM ScopeIsKept == Spec => []CapturedInScope
<1>1. CaptureInv => CapturedInScope
  BY DEF CaptureInv, ReceiptsBuilt, Built, CapturedInScope
<1>. QED BY <1>1, CaptureInvariant, PTL

\* The compare-and-swap of the lane ref loses no commit, of whatever origin.
THEOREM CommitsAreKept == Spec => NoCommitLost
<1>1. CaptureInv /\ [Next]_vars => [\A l \in Lane : IsPrefix(ref[l], ref'[l])]_vars
  <2>. SUFFICES ASSUME CaptureInv, [Next]_vars, NEW l \in Lane
                PROVE  IsPrefix(ref[l], ref'[l])
    OBVIOUS
  <2>. USE DEF CaptureInv
  <2>0. ref[l] \in Commit /\ ref[l] \in Seq(Entry)
    BY DEF TypeOK, Commit, Entry
  <2>1. CASE ref'[l] = ref[l]
    BY <2>0, <2>1, PrefixReflexive
  <2>2. ASSUME NEW e \in Entry, ref'[l] = Append(ref[l], e)
        PROVE  IsPrefix(ref[l], ref'[l])
    BY <2>0, <2>2, PrefixReflexive, PrefixAppend
  <2>3. ASSUME NEW p \in Proc, Publish(p), job[p].lane = l, ref'[l] = job[p].new
        PROVE  IsPrefix(ref[l], ref'[l])
    <3>1. pc[p] = "publish" /\ ref[l] = job[p].old
      BY <2>3 DEF Publish
    <3>2. job[p].verb = "commit"
      BY <3>1 DEF Locked, CapturePoints
    <3>. QED BY <2>3, <3>1, <3>2, ChainDone DEF ChainBuilt, Built
  <2>. QED BY <2>1, <2>2, <2>3, RefFrame
<1>. QED BY <1>1, CaptureInvariant, PTL DEF Spec, NoCommitLost

\* Whatever is interleaved and wherever a command stops, `wip commit` is atomic:
\* the transaction of runCommit implements LaneHistory.
THEOREM ImplementsHistory == Spec => HistorySpec
<1>1. Init => History!Init
  <2>. SUFFICES ASSUME Init PROVE History!Init
    OBVIOUS
  <2>1. /\ lanes = [l \in Lane |-> [state |-> "active", cursor |-> <<>>]]
        /\ ref = [l \in Lane |-> <<>>]
    BY DEF Init
  <2>2. \A l \in Lane : lanes[l].cursor = <<>> /\ (lanes[l].state = "active") = TRUE
    BY <2>1
  <2>. QED BY <2>1, <2>2 DEF History!Init
<1>2. CaptureInv /\ CaptureInv' /\ [Next]_vars =>
        [History!Next]_<<ref, [l \in Lane |-> lanes[l].cursor], [l \in Lane |-> lanes[l].state = "active"]>>
  BY HistoryStep DEF CaptureInv, recorded, open
<1>. QED BY <1>1, <1>2, CaptureInvariant, PTL DEF Spec, HistorySpec, History!Spec
=============================================================================
