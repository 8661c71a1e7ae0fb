------------------------- MODULE LeaseRegistryProofs -------------------------
(***************************************************************************)
(* Theorems about LeaseRegistry, for every set of commands, lanes, leases, *)
(* paths and claims, every lease lifetime and every clock bound.           *)
(***************************************************************************)
EXTENDS LeaseRegistry, FiniteSetTheorems, TLAPS

(* Portable paths, for every set of components and any idempotent folding of *)
(* their spellings.                                                          *)

\* Overlap of two scope sets does not depend on their order: a claim may
\* test the wanted paths against the held ones or the other way round.
THEOREM ScopesOverlapSymmetric ==
  ASSUME NEW S, NEW T
  PROVE  ScopesOverlap(S, T) <=> ScopesOverlap(T, S)
BY DEF ScopesOverlap, Overlap

\* Two scope sets that do not overlap have no path in common below them: lanes
\* with disjoint leases can never capture the same file.
THEOREM DisjointScopesShareNoPath ==
  ASSUME NEW S \in SUBSET Path, NEW T \in SUBSET Path, ~ScopesOverlap(S, T), NEW f \in Path
  PROVE  ~(Covered(f, S) /\ Covered(f, T))
<1>. SUFFICES ASSUME NEW s \in S, NEW t \in T, AtOrBelow(f, s), AtOrBelow(f, t)
              PROVE  Overlap(s, t)
  BY DEF Covered, ScopesOverlap
<1>1. Len(s) \in Nat /\ Len(t) \in Nat /\ Len(f) \in Nat
  BY PathAssumption
<1>2. \A n \in 1..Len(s) : Key(f)[n] = Key(s)[n]
  BY DEF AtOrBelow
<1>3. \A n \in 1..Len(t) : Key(f)[n] = Key(t)[n]
  BY DEF AtOrBelow
<1>4. CASE Len(s) <= Len(t)
  <2>. 1..Len(s) \subseteq 1..Len(t)
    BY <1>1, <1>4
  <2>. QED BY <1>2, <1>3, <1>4 DEF Overlap, AtOrBelow
<1>5. CASE Len(t) <= Len(s)
  <2>. 1..Len(t) \subseteq 1..Len(s)
    BY <1>1, <1>5
  <2>. QED BY <1>2, <1>3, <1>5 DEF Overlap, AtOrBelow
<1>. QED BY <1>1, <1>4, <1>5

\* A path at or below a scope overlaps every scope that is at or below it: a
\* lease on a directory conflicts with a lease on any file of it.
THEOREM ScopeOverlapsWhatItCovers ==
  ASSUME NEW S, NEW f, Covered(f, S)
  PROVE  ScopesOverlap(S, {f})
BY DEF Covered, ScopesOverlap, Overlap

\* Keys are canonical: the key of a path is its own key.
THEOREM KeyIdempotent ==
  ASSUME NEW p \in Path
  PROVE  Key(Key(p)) = Key(p)
<1>1. p \in Seq(Component) /\ Len(p) \in Nat
  BY PathAssumption
<1>2. \A n \in 1..Len(p) : p[n] \in Component /\ Fold[Fold[p[n]]] = Fold[p[n]]
  BY <1>1, PathAssumption
<1>3. Key(p) \in Seq(Component) /\ Len(Key(p)) = Len(p)
  BY <1>1, <1>2, PathAssumption DEF Key
<1>. QED BY <1>1, <1>2, <1>3 DEF Key
-----------------------------------------------------------------------------
(* Type correctness. *)

LEMMA PathCountType ==
  ASSUME NEW l, NEW t
  PROVE  PathCount(l, t) \in [Path -> Nat]
<1>1. ASSUME NEW S \in SUBSET LeaseId
      PROVE  Cardinality(S) \in Nat
  BY FS_Subset, FS_CardinalityType, RegistryAssumption
<1>2. ASSUME NEW x \in Path
      PROVE  {i \in Own(l) : ActiveAt(i, t) /\ x \in leases[i].paths} \in SUBSET LeaseId
  BY DEF Own
<1>. QED BY <1>1, <1>2 DEF PathCount

(* What a record write does to the typed record functions. *)

LEMMA LaneWrite ==
  ASSUME TypeOK, NEW l \in Lane,
         NEW st \in {"active", "released", "aborted"}, NEW ids \in SUBSET LeaseId
  PROVE  /\ [lanes EXCEPT ![l].state = st] \in [Lane -> LaneRecord]
         /\ [lanes EXCEPT ![l].leaseIds = @ \cup ids] \in [Lane -> LaneRecord]
<1>1. lanes[l] \in LaneRecord
  BY DEF TypeOK
<1>2. [lanes[l] EXCEPT !.state = st] \in LaneRecord
  BY <1>1 DEF LaneRecord
<1>3. [lanes[l] EXCEPT !.leaseIds = @ \cup ids] \in LaneRecord
  BY <1>1 DEF LaneRecord
<1>. QED BY <1>2, <1>3 DEF TypeOK

LEMMA LeaseWrite ==
  ASSUME TypeOK, NEW i \in LeaseId, NEW e \in Nat
  PROVE  /\ [leases EXCEPT ![i].expires = e] \in [LeaseId -> LeaseRecord]
         /\ [leases EXCEPT ![i].state = "released"] \in [LeaseId -> LeaseRecord]
<1>1. leases[i] \in LeaseRecord
  BY DEF TypeOK
<1>2. [leases[i] EXCEPT !.expires = e] \in LeaseRecord
  BY <1>1 DEF LeaseRecord
<1>3. [leases[i] EXCEPT !.state = "released"] \in LeaseRecord
  BY <1>1 DEF LeaseRecord
<1>. QED BY <1>2, <1>3 DEF TypeOK

LEMMA ExpiryType ==
  ASSUME TypeOK, NEW p \in Proc
  PROVE  now[p] + TTL \in Nat
<1>1. now[p] \in Nat \cup {-1} /\ TTL \in Nat /\ TTL # 0
  BY RegistryAssumption DEF TypeOK, Never
<1>. QED BY <1>1

LEMMA EndType ==
  ASSUME TypeOK, NEW p \in Proc, End(p),
         lanes' \in [Lane -> LaneRecord],
         UNCHANGED leases
  PROVE  TypeOK'
<1>1. NoPaths \in [Path -> Nat]
  BY DEF NoPaths
<1>2. laneLock' \in [Lane -> Proc \cup {Free}] /\ registry' \in Proc \cup {Free}
  BY DEF TypeOK, End
<1>3. \A q \in Proc : pc'[q] # "idle" => target'[q] \in Lane /\ op'[q] \in Ops
  BY DEF TypeOK, End
<1>. QED BY <1>1, <1>2, <1>3 DEF TypeOK, End, Points, Never

LEMMA RefuseType ==
  ASSUME TypeOK, NEW p \in Proc, Refuse(p)
  PROVE  TypeOK'
BY EndType DEF Refuse, TypeOK

LEMMA EnterRegistryType ==
  ASSUME TypeOK, NEW p \in Proc, pc[p] # "idle",
         NEW point \in Points, NEW work \in SUBSET LeaseId,
         EnterRegistry(p, point, work)
  PROVE  TypeOK'
BY DEF TypeOK, EnterRegistry, locals

LEMMA TypeInit == Init => TypeOK
BY DEF Init, TypeOK, Points, NoPaths, AbsentLease, Never, LaneRecord, LeaseRecord

LEMMA TypeStep == TypeOK /\ [Next]_vars => TypeOK'
<1> SUFFICES ASSUME TypeOK, [Next]_vars PROVE TypeOK'
  OBVIOUS
<1>1. CASE UNCHANGED vars
  BY <1>1 DEF TypeOK, vars
<1>2. CASE Tick
  BY <1>2 DEF Tick, TypeOK, locals
<1>3. ASSUME NEW p \in Proc, NEW o \in Ops, NEW l \in Lane, NEW S \in Request \cup {{}},
             Start(p, o, l, S)
      PROVE  TypeOK'
  BY <1>3, RegistryAssumption DEF Start, TypeOK, Points
<1>4. ASSUME NEW p \in Proc, Refuse(p)
      PROVE  TypeOK'
  BY <1>4, RefuseType
<1>5. ASSUME NEW p \in Proc, LockLane(p)
      PROVE  TypeOK'
  <2>1. target[p] \in Lane
    BY <1>5 DEF LockLane, TypeOK
  <2>2. allowed' \in [Proc -> [Path -> Nat]]
    BY <1>5, PathCountType DEF LockLane, TypeOK, NoPaths
  <2>. QED BY <1>5, <2>1, <2>2 DEF LockLane, TypeOK, Points
<1>6. ASSUME NEW p \in Proc, ClaimBegin(p)
      PROVE  TypeOK'
  BY <1>6, EnterRegistryType DEF ClaimBegin, AtRegistry, Unlisted, Own, Points
<1>7. ASSUME NEW p \in Proc, RepairLink(p)
      PROVE  TypeOK'
  <2>1. target[p] \in Lane
    BY <1>7 DEF RepairLink, TypeOK
  <2>2. PICK i \in todo[p] :
          /\ lanes' = [lanes EXCEPT ![target[p]].leaseIds = @ \cup {i}]
          /\ todo' = [todo EXCEPT ![p] = @ \ {i}]
    BY <1>7 DEF RepairLink
  <2>3. {i} \in SUBSET LeaseId
    BY DEF TypeOK
  <2>4. lanes' \in [Lane -> LaneRecord]
    BY <2>1, <2>2, <2>3, LaneWrite
  <2>5. todo' \in [Proc -> SUBSET LeaseId]
    BY <2>2 DEF TypeOK
  <2>. QED BY <1>7, <2>4, <2>5 DEF RepairLink, TypeOK, locals
<1>8. ASSUME NEW p \in Proc, CreateLease(p)
      PROVE  TypeOK'
  <2>1. PICK i \in LeaseId :
          /\ leases' = [leases EXCEPT ![i] =
               [state |-> "active", lane |-> target[p], paths |-> want[p],
                expires |-> now[p] + TTL]]
          /\ todo' = [todo EXCEPT ![p] = {i}]
    BY <1>8 DEF CreateLease
  <2>2. target[p] \in Lane /\ want[p] \in SUBSET Path /\ now[p] + TTL \in Nat
    BY <1>8, ExpiryType DEF CreateLease, TypeOK
  <2>3. leases' \in [LeaseId -> LeaseRecord]
    BY <2>1, <2>2 DEF TypeOK, LeaseRecord
  <2>4. todo' \in [Proc -> SUBSET LeaseId] /\ pc' \in [Proc -> Points]
    BY <1>8, <2>1 DEF CreateLease, TypeOK, Points
  <2>5. \A q \in Proc : pc'[q] # "idle" => target[q] \in Lane /\ op[q] \in Ops
    BY <1>8 DEF CreateLease, TypeOK
  <2>. QED BY <1>8, <2>3, <2>4, <2>5 DEF CreateLease, TypeOK, locals
<1>9. ASSUME NEW p \in Proc, ListLease(p)
      PROVE  TypeOK'
  <2>1. target[p] \in Lane
    BY <1>9 DEF ListLease, TypeOK
  <2>2. lanes' \in [Lane -> LaneRecord]
    BY <1>9, <2>1, LaneWrite DEF ListLease, TypeOK
  <2>. QED BY <1>9, <2>2, EndType DEF ListLease
<1>10. ASSUME NEW p \in Proc, RenewBegin(p)
       PROVE  TypeOK'
  BY <1>10, EnterRegistryType DEF RenewBegin, AtRegistry, OwnActive, Own, Points
<1>11. ASSUME NEW p \in Proc, FenceBegin(p)
       PROVE  TypeOK'
  BY <1>11, EnterRegistryType DEF FenceBegin, AtRegistry, OwnActive, Own, Points
<1>12. ASSUME NEW p \in Proc, Extend(p)
       PROVE  TypeOK'
  <2>1. PICK i \in todo[p] :
          /\ leases' = [leases EXCEPT ![i].expires = now[p] + TTL]
          /\ todo' = [todo EXCEPT ![p] = @ \ {i}]
    BY <1>12 DEF Extend
  <2>2. i \in LeaseId /\ now[p] + TTL \in Nat
    BY ExpiryType DEF TypeOK
  <2>3. leases' \in [LeaseId -> LeaseRecord]
    BY <2>1, <2>2, LeaseWrite
  <2>4. todo' \in [Proc -> SUBSET LeaseId]
    BY <2>1 DEF TypeOK
  <2>. QED BY <1>12, <2>3, <2>4 DEF Extend, TypeOK, locals
<1>13. ASSUME NEW p \in Proc, FenceDone(p)
       PROVE  TypeOK'
  BY <1>13 DEF FenceDone, TypeOK, locals, Points
<1>14. ASSUME NEW p \in Proc, Beat(p)
       PROVE  TypeOK'
  BY <1>14 DEF Beat, TypeOK, locals, Points
<1>15. ASSUME NEW p \in Proc, ReleaseBegin(p)
       PROVE  TypeOK'
  BY <1>15, EnterRegistryType DEF ReleaseBegin, AtRegistry, Own, Points
<1>16. ASSUME NEW p \in Proc, Retire(p)
       PROVE  TypeOK'
  <2>1. PICK i \in todo[p] :
          /\ leases' = [leases EXCEPT ![i].state = "released"]
          /\ todo' = [todo EXCEPT ![p] = @ \ {i}]
    BY <1>16 DEF Retire
  <2>2. i \in LeaseId
    BY DEF TypeOK
  <2>3. leases' \in [LeaseId -> LeaseRecord]
    BY <2>1, <2>2, LeaseWrite
  <2>4. todo' \in [Proc -> SUBSET LeaseId]
    BY <2>1 DEF TypeOK
  <2>. QED BY <1>16, <2>3, <2>4 DEF Retire, TypeOK, locals
<1>17. ASSUME NEW p \in Proc, CloseLane(p)
       PROVE  TypeOK'
  <2>1. target[p] \in Lane
    BY <1>17 DEF CloseLane, TypeOK
  <2>2. lanes' \in [Lane -> LaneRecord]
    BY <1>17, <2>1, LaneWrite DEF CloseLane
  <2>. QED BY <1>17, <2>2, EndType DEF CloseLane
<1>. QED
  BY <1>1, <1>2, <1>3, <1>4, <1>5, <1>6, <1>7, <1>8, <1>9, <1>10, <1>11, <1>12, <1>13,
     <1>14, <1>15, <1>16, <1>17
  DEF Next, Starts, Step, Stop, LaneRefused, ClaimRefused, ClaimSettled, RenewRefused,
      RenewDone, FenceRefused, CaptureDone, ReleaseRefused

\* Every variable of the registry keeps its type, whatever the commands do and
\* wherever they stop.
THEOREM TypeCorrect == Spec => []TypeOK
BY TypeInit, TypeStep, PTL DEF Spec
-----------------------------------------------------------------------------
(* Locks. *)

\* A step of one command leaves the local state of every other one alone.
LEMMA OthersUnmoved ==
  ASSUME TypeOK, NEW p \in Proc, Starts(p) \/ Step(p) \/ Stop(p), NEW q \in Proc \ {p}
  PROVE  /\ pc'[q] = pc[q] /\ op'[q] = op[q] /\ target'[q] = target[q]
         /\ now'[q] = now[q] /\ todo'[q] = todo[q] /\ want'[q] = want[q]
         /\ allowed'[q] = allowed[q] /\ fence'[q] = fence[q]
<1>. USE DEF TypeOK
<1>1. CASE Starts(p)
  BY <1>1 DEF Starts, Start
<1>2. CASE End(p)
  BY <1>2 DEF End
<1>3. CASE LockLane(p)
  BY <1>3 DEF LockLane
<1>4. CASE \E point, work : EnterRegistry(p, point, work)
  BY <1>4 DEF EnterRegistry, locals
<1>5. CASE RepairLink(p)
  BY <1>5 DEF RepairLink, locals
<1>6. CASE CreateLease(p)
  BY <1>6 DEF CreateLease, locals
<1>7. CASE Extend(p)
  BY <1>7 DEF Extend, locals
<1>8. CASE FenceDone(p)
  BY <1>8 DEF FenceDone, locals
<1>9. CASE Beat(p)
  BY <1>9 DEF Beat, locals
<1>10. CASE Retire(p)
  BY <1>10 DEF Retire, locals
<1>. QED
  BY <1>1, <1>2, <1>3, <1>4, <1>5, <1>6, <1>7, <1>8, <1>9, <1>10
  DEF Step, Stop, Refuse, LaneRefused, ClaimBegin, ClaimRefused, ClaimSettled, ListLease,
      RenewBegin, RenewRefused, RenewDone, FenceBegin, FenceRefused, CaptureDone,
      ReleaseBegin, ReleaseRefused, CloseLane

LEMMA LocksInit == Init => LocksInv
BY DEF Init, LocksInv, HoldsLocks, Points

\* The end of a command takes no lock from the others.
LEMMA EndKeepsLocks ==
  ASSUME TypeOK, LocksInv, NEW p \in Proc, End(p),
         \A l \in Lane : lanes'[l].state # lanes[l].state => laneLock[l] = p
  PROVE  LocksInv'
<1>. SUFFICES ASSUME NEW q \in Proc PROVE HoldsLocks(q)'
  BY DEF LocksInv
<1>1. CASE q = p
  BY <1>1 DEF End, HoldsLocks, TypeOK
<1>2. CASE q # p
  <2>1. /\ pc'[q] = pc[q] /\ op'[q] = op[q] /\ target'[q] = target[q] /\ now'[q] = now[q]
    BY <1>2 DEF End, TypeOK
  <2>2. pc[q] \in Points /\ (pc[q] # "idle" => target[q] \in Lane)
    BY DEF TypeOK
  <2>3. HoldsLocks(q)
    BY DEF LocksInv
  <2>4. ASSUME pc[q] \in Points \ {"idle", "lane"}
        PROVE  laneLock'[target[q]] = q /\ lanes'[target[q]].state = lanes[target[q]].state
    BY <1>2, <2>2, <2>3, <2>4 DEF End, HoldsLocks
  <2>5. registry = q => registry' = q
    BY <1>2 DEF End
  <2>. QED BY <2>1, <2>2, <2>3, <2>4, <2>5 DEF End, HoldsLocks, Points
<1>. QED BY <1>1, <1>2

LEMMA RefuseKeepsLocks ==
  ASSUME TypeOK, LocksInv, NEW p \in Proc, Refuse(p)
  PROVE  LocksInv'
BY EndKeepsLocks DEF Refuse

\* Taking the free registry lock under the lane lock.
LEMMA EnterRegistryKeepsLocks ==
  ASSUME TypeOK, LocksInv, NEW p \in Proc, NEW point, NEW work,
         pc[p] = "registry", registry = Free, EnterRegistry(p, point, work),
         \/ point = "claim" /\ op[p] = "claim"
         \/ point = "extend" /\ op[p] \in {"renew", "capture"}
         \/ point = "retire" /\ op[p] \in {"release", "abort"}
  PROVE  LocksInv'
<1>. SUFFICES ASSUME NEW q \in Proc PROVE HoldsLocks(q)'
  BY DEF LocksInv
<1>1. registry # q
  BY RegistryAssumption
<1>2. clock \in 0..clock
  BY DEF TypeOK
<1>3. HoldsLocks(p) /\ HoldsLocks(q)
  BY DEF LocksInv
<1>4. CASE q = p
  BY <1>2, <1>3, <1>4 DEF HoldsLocks, EnterRegistry, TypeOK, locals, Points
<1>5. CASE q # p
  BY <1>1, <1>3, <1>5 DEF HoldsLocks, EnterRegistry, TypeOK, locals, Points
<1>. QED BY <1>4, <1>5

LEMMA LocksStep == TypeOK /\ LocksInv /\ [Next]_vars => LocksInv'
<1>. SUFFICES ASSUME TypeOK, LocksInv, [Next]_vars PROVE LocksInv'
  OBVIOUS
<1>1. CASE UNCHANGED vars
  BY <1>1 DEF LocksInv, HoldsLocks, vars
<1>2. CASE Tick
  <2>1. 0..clock \subseteq 0..clock'
    BY <1>2 DEF Tick, TypeOK
  <2>. QED BY <1>2, <2>1 DEF Tick, LocksInv, HoldsLocks, locals
<1>. SUFFICES ASSUME NEW p \in Proc, Starts(p) \/ Step(p) \/ Stop(p) PROVE LocksInv'
  BY <1>1, <1>2 DEF Next
<1>. DEFINE Others == \A q \in Proc \ {p} : HoldsLocks(q)'
<1>3. ASSUME HoldsLocks(p)', Others PROVE LocksInv'
  BY <1>3 DEF LocksInv
<1>4. \A q \in Proc : HoldsLocks(q)
  BY DEF LocksInv
<1>5. ASSUME NEW q \in Proc \ {p},
             laneLock[target[q]] = q => laneLock'[target[q]] = q,
             registry = q => registry' = q, clock' = clock,
             laneLock[target[q]] = q => lanes'[target[q]].state = lanes[target[q]].state
      PROVE  HoldsLocks(q)'
  <2>1. /\ pc'[q] = pc[q] /\ op'[q] = op[q] /\ target'[q] = target[q] /\ now'[q] = now[q]
    BY OthersUnmoved
  <2>. QED BY <1>4, <1>5, <2>1 DEF HoldsLocks, Points
<1>6. CASE Starts(p)
  <2>1. HoldsLocks(p)'
    BY <1>6 DEF Starts, Start, HoldsLocks, TypeOK
  <2>2. Others
    BY <1>5, <1>6 DEF Starts, Start
  <2>. QED BY <1>3, <2>1, <2>2
<1>7. CASE LockLane(p)
  <2>1. HoldsLocks(p)'
    BY <1>7 DEF LockLane, HoldsLocks, TypeOK
  <2>2. Others
    BY <1>5, <1>7, RegistryAssumption DEF LockLane, TypeOK
  <2>. QED BY <1>3, <2>1, <2>2
<1>8. CASE Refuse(p)
  BY <1>8, RefuseKeepsLocks
<1>9. CASE ClaimBegin(p) \/ RenewBegin(p) \/ FenceBegin(p) \/ ReleaseBegin(p)
  BY <1>9, EnterRegistryKeepsLocks
  DEF ClaimBegin, RenewBegin, FenceBegin, ReleaseBegin, AtRegistry
<1>10. CASE RepairLink(p)
  <2>1. \A l \in Lane : lanes'[l].state = lanes[l].state
    BY <1>10 DEF RepairLink, TypeOK, LaneRecord
  <2>2. target[p] \in Lane
    BY <1>10 DEF RepairLink, TypeOK
  <2>3. HoldsLocks(p)'
    BY <1>4, <1>10, <2>1, <2>2 DEF RepairLink, HoldsLocks, locals, Points
  <2>4. \A q \in Proc \ {p} : HoldsLocks(q)'
    <3>. SUFFICES ASSUME NEW q \in Proc \ {p} PROVE HoldsLocks(q)'
      OBVIOUS
    <3>1. /\ pc'[q] = pc[q] /\ op'[q] = op[q] /\ target'[q] = target[q] /\ now'[q] = now[q]
      BY OthersUnmoved
    <3>2. pc[q] # "idle" => target[q] \in Lane
      BY DEF TypeOK
    <3>. QED BY <1>4, <1>10, <2>1, <3>1, <3>2 DEF RepairLink, HoldsLocks, locals, Points
  <2>. QED BY <1>3, <2>3, <2>4
<1>11. CASE CreateLease(p)
  <2>1. HoldsLocks(p)'
    BY <1>4, <1>11 DEF CreateLease, HoldsLocks, TypeOK, locals, Points
  <2>2. Others
    BY <1>5, <1>11 DEF CreateLease
  <2>. QED BY <1>3, <2>1, <2>2
<1>12. CASE ListLease(p)
  <2>1. \A l \in Lane : lanes'[l].state = lanes[l].state
    BY <1>12 DEF ListLease, TypeOK, LaneRecord
  <2>. QED BY <1>12, <2>1, EndKeepsLocks DEF ListLease
<1>13. CASE Extend(p) \/ Retire(p)
  <2>1. HoldsLocks(p)'
    BY <1>4, <1>13 DEF Extend, Retire, HoldsLocks, TypeOK, locals, Points
  <2>2. Others
    BY <1>5, <1>13 DEF Extend, Retire
  <2>. QED BY <1>3, <2>1, <2>2
<1>14. CASE FenceDone(p)
  <2>1. HoldsLocks(p)'
    BY <1>4, <1>14 DEF FenceDone, HoldsLocks, TypeOK, locals, Points
  <2>2. Others
    <3>. SUFFICES ASSUME NEW q \in Proc \ {p} PROVE HoldsLocks(q)'
      OBVIOUS
    <3>1. registry = p
      BY <1>4, <1>14 DEF FenceDone, HoldsLocks
    <3>. QED BY <1>5, <1>14, <3>1 DEF FenceDone
  <2>. QED BY <1>3, <2>1, <2>2
<1>15. CASE Beat(p)
  <2>1. HoldsLocks(p)'
    BY <1>4, <1>15 DEF Beat, HoldsLocks, TypeOK, locals, Points
  <2>2. Others
    BY <1>5, <1>15 DEF Beat
  <2>. QED BY <1>3, <2>1, <2>2
<1>16. CASE CloseLane(p)
  <2>1. laneLock[target[p]] = p /\ target[p] \in Lane
    BY <1>4, <1>16 DEF CloseLane, HoldsLocks, Points, TypeOK
  <2>2. \A l \in Lane : lanes'[l].state # lanes[l].state => laneLock[l] = p
    BY <1>16, <2>1 DEF CloseLane, TypeOK, LaneRecord
  <2>. QED BY <1>16, <2>2, EndKeepsLocks DEF CloseLane
<1>. QED
  BY <1>6, <1>7, <1>8, <1>9, <1>10, <1>11, <1>12, <1>13, <1>14, <1>15, <1>16
  DEF Step, Stop, LaneRefused, ClaimRefused, ClaimSettled, RenewRefused, RenewDone,
      FenceRefused, CaptureDone, ReleaseRefused
-----------------------------------------------------------------------------
(* No two lanes hold overlapping active leases. *)

\* The lease records change only under the registry lock, in one of three ways.
LEMMA LeaseEffects ==
  ASSUME TypeOK, LocksInv, NEW p \in Proc, Starts(p) \/ Step(p) \/ Stop(p)
  PROVE  /\ clock' = clock
         /\ \/ leases' = leases
            \/ registry = p /\ (CreateLease(p) \/ Extend(p) \/ Retire(p))
<1>1. \A q \in Proc : HoldsLocks(q)
  BY DEF LocksInv
<1>2. CASE Starts(p)
  BY <1>2 DEF Starts, Start
<1>3. CASE Refuse(p)
  BY <1>3 DEF Refuse, End
<1>4. CASE ListLease(p) \/ CloseLane(p)
  BY <1>4 DEF ListLease, CloseLane, End
<1>5. CASE LockLane(p) \/ RepairLink(p) \/ FenceDone(p) \/ Beat(p)
  BY <1>5 DEF LockLane, RepairLink, FenceDone, Beat
<1>6. CASE ClaimBegin(p) \/ RenewBegin(p) \/ FenceBegin(p) \/ ReleaseBegin(p)
  BY <1>6 DEF ClaimBegin, RenewBegin, FenceBegin, ReleaseBegin, EnterRegistry
<1>7. CASE CreateLease(p) \/ Extend(p) \/ Retire(p)
  BY <1>1, <1>7 DEF CreateLease, Extend, Retire, HoldsLocks
<1>. QED
  BY <1>2, <1>3, <1>4, <1>5, <1>6, <1>7
  DEF Step, Stop, LaneRefused, ClaimRefused, ClaimSettled, RenewRefused, RenewDone,
      FenceRefused, CaptureDone, ReleaseRefused

LEMMA ClashSymmetric ==
  ASSUME NEW i, NEW j
  PROVE  Clash(i, j) <=> Clash(j, i)
BY ScopesOverlapSymmetric DEF Clash

LEMMA OverlapInit == Init => ExtendInv /\ NoCrossLaneOverlap
<1>. SUFFICES ASSUME Init PROVE ExtendInv /\ NoCrossLaneOverlap
  OBVIOUS
<1>1. ExtendInv
  BY DEF Init, ExtendInv, ExtendsSafely
<1>2. \A i \in LeaseId : leases[i].state = "absent"
  BY DEF Init, AbsentLease
<1>3. NoCrossLaneOverlap
  BY <1>2 DEF NoCrossLaneOverlap, ConflictAt, ActiveAt
<1>. QED BY <1>1, <1>3

LEMMA ExtendStep ==
  TypeOK /\ LocksInv /\ ExtendInv /\ NoCrossLaneOverlap /\ [Next]_vars => ExtendInv'
<1>. SUFFICES ASSUME TypeOK, LocksInv, ExtendInv, NoCrossLaneOverlap, [Next]_vars,
                     NEW q \in Proc
              PROVE  ExtendsSafely(q)'
  BY DEF ExtendInv
<1>1. ExtendsSafely(q) /\ HoldsLocks(q)
  BY DEF ExtendInv, LocksInv
<1>2. CASE UNCHANGED vars
  BY <1>1, <1>2 DEF ExtendsSafely, Clash, vars
<1>3. CASE Tick
  BY <1>1, <1>3 DEF Tick, ExtendsSafely, Clash, locals
<1>. SUFFICES ASSUME NEW p \in Proc, Starts(p) \/ Step(p) \/ Stop(p)
              PROVE  ExtendsSafely(q)'
  BY <1>2, <1>3 DEF Next
<1>4. CASE q # p
  <2>1. pc'[q] = pc[q] /\ target'[q] = target[q] /\ now'[q] = now[q] /\ todo'[q] = todo[q]
    BY <1>4, OthersUnmoved
  <2>2. CASE leases' = leases
    BY <1>1, <2>1, <2>2 DEF ExtendsSafely, Clash
  <2>3. CASE registry = p
    BY <1>1, <1>4, <2>1, <2>3 DEF ExtendsSafely, HoldsLocks
  <2>. QED BY <2>2, <2>3, LeaseEffects
<1>5. CASE q = p
  <2>1. CASE RenewBegin(p) \/ FenceBegin(p)
    <3>1. /\ leases' = leases /\ target' = target
          /\ now'[p] = clock /\ todo'[p] = OwnActive(p)
      BY <2>1 DEF RenewBegin, FenceBegin, EnterRegistry, locals, TypeOK
    <3>2. ASSUME NEW i \in OwnActive(p), NEW j \in LeaseId, leases[j].state = "active", Clash(i, j)
          PROVE  leases[j].expires <= clock
      <4>1. ~ActiveAt(j, clock)
        BY <3>2 DEF NoCrossLaneOverlap, ConflictAt, OwnActive, Own
      <4>2. leases[j].expires \in Nat /\ clock \in Nat
        BY DEF TypeOK, LeaseRecord
      <4>. QED BY <3>2, <4>1, <4>2 DEF ActiveAt
    <3>. QED BY <1>5, <3>1, <3>2 DEF ExtendsSafely, Clash, OwnActive, Own, ActiveAt
  <2>2. CASE Extend(p)
    <3>1. PICK k \in todo[p] :
            /\ leases' = [leases EXCEPT ![k].expires = now[p] + TTL]
            /\ todo' = [todo EXCEPT ![p] = @ \ {k}]
      BY <2>2 DEF Extend
    <3>2. /\ todo'[p] \subseteq todo[p] /\ todo[p] \subseteq LeaseId
          /\ now'[p] = now[p] /\ target'[p] = target[p] /\ pc[p] = "extend"
      BY <2>2, <3>1 DEF Extend, TypeOK, locals
    <3>3. \A i \in LeaseId : /\ leases'[i].state = leases[i].state
                             /\ leases'[i].lane = leases[i].lane
                             /\ leases'[i].paths = leases[i].paths
                             /\ i # k => leases'[i].expires = leases[i].expires
      BY <3>1, <3>2 DEF TypeOK, LeaseRecord
    <3>4. leases[k].lane = target[p]
      BY <1>1, <1>5, <3>2 DEF ExtendsSafely
    <3>. QED BY <1>1, <1>5, <3>2, <3>3, <3>4 DEF ExtendsSafely, Clash
  <2>3. CASE pc'[p] # "extend"
    BY <1>5, <2>3 DEF ExtendsSafely
  <2>4. CASE Starts(p)
    BY <2>3, <2>4 DEF Starts, Start, TypeOK
  <2>5. CASE Refuse(p) \/ ListLease(p) \/ CloseLane(p)
    BY <2>3, <2>5 DEF Refuse, ListLease, CloseLane, End, TypeOK
  <2>6. CASE LockLane(p) \/ FenceDone(p) \/ Beat(p) \/ CreateLease(p) \/ RepairLink(p) \/ Retire(p)
    BY <2>3, <2>6 DEF LockLane, FenceDone, Beat, CreateLease, RepairLink, Retire, TypeOK
  <2>7. CASE ClaimBegin(p) \/ ReleaseBegin(p)
    BY <2>3, <2>7 DEF ClaimBegin, ReleaseBegin, EnterRegistry, TypeOK
  <2>. QED
    BY <2>1, <2>2, <2>4, <2>5, <2>6, <2>7
    DEF Step, Stop, LaneRefused, ClaimRefused, ClaimSettled, RenewRefused, RenewDone,
        FenceRefused, CaptureDone, ReleaseRefused
<1>. QED BY <1>4, <1>5

LEMMA OverlapStep ==
  TypeOK /\ LocksInv /\ ExtendInv /\ NoCrossLaneOverlap /\ [Next]_vars => NoCrossLaneOverlap'
<1>. SUFFICES ASSUME TypeOK, LocksInv, ExtendInv, NoCrossLaneOverlap, [Next]_vars,
                     NEW i \in LeaseId, NEW j \in LeaseId,
                     ActiveAt(i, clock)', ActiveAt(j, clock)', Clash(i, j)'
              PROVE  FALSE
  BY DEF NoCrossLaneOverlap, ConflictAt
<1>. USE DEF ActiveAt
<1>1. \A k \in LeaseId : leases[k].expires \in Nat
  BY DEF TypeOK, LeaseRecord
<1>2. clock \in Nat
  BY DEF TypeOK
<1>3. CASE UNCHANGED vars
  BY <1>3 DEF NoCrossLaneOverlap, ConflictAt, Clash, vars
<1>4. CASE Tick
  BY <1>1, <1>2, <1>4 DEF Tick, NoCrossLaneOverlap, ConflictAt, Clash
<1>. SUFFICES ASSUME NEW p \in Proc, Starts(p) \/ Step(p) \/ Stop(p) PROVE FALSE
  BY <1>3, <1>4 DEF Next
<1>5. clock' = clock
  BY LeaseEffects
<1>6. CASE leases' = leases
  BY <1>5, <1>6 DEF NoCrossLaneOverlap, ConflictAt, Clash
<1>7. HoldsLocks(p) /\ ExtendsSafely(p)
  BY DEF LocksInv, ExtendInv
<1>8. CASE CreateLease(p)
  <2>1. PICK k \in LeaseId :
          leases' = [leases EXCEPT ![k] =
            [state |-> "active", lane |-> target[p], paths |-> want[p],
             expires |-> now[p] + TTL]]
    BY <1>8 DEF CreateLease
  <2>2. \A m \in LeaseId \ {k} : leases'[m] = leases[m]
    BY <2>1 DEF TypeOK
  <2>3. leases'[k].lane = target[p] /\ leases'[k].paths = want[p]
    BY <2>1 DEF TypeOK
  <2>4. now[p] \in Nat /\ now[p] <= clock
    BY <1>2, <1>7, <1>8 DEF CreateLease, HoldsLocks
  <2>5. ASSUME NEW m \in LeaseId \ {k}, leases[m].state = "active", clock < leases[m].expires,
               leases[m].lane # target[p]
        PROVE  ~ScopesOverlap(want[p], leases[m].paths)
    BY <1>1, <1>2, <1>8, <2>4, <2>5 DEF CreateLease, Blocking
  <2>6. i # k => j = k
    BY <1>5, <2>2 DEF NoCrossLaneOverlap, ConflictAt, Clash
  <2>7. i = k => j # k
    BY DEF Clash
  <2>8. CASE i = k
    BY <1>5, <2>2, <2>3, <2>5, <2>7, <2>8 DEF Clash
  <2>9. CASE j = k
    BY <1>5, <2>2, <2>3, <2>5, <2>7, <2>9, ScopesOverlapSymmetric DEF Clash
  <2>. QED BY <2>6, <2>8, <2>9
<1>9. CASE Extend(p)
  <2>1. PICK k \in todo[p] : leases' = [leases EXCEPT ![k].expires = now[p] + TTL]
    BY <1>9 DEF Extend
  <2>2. k \in LeaseId
    BY DEF TypeOK
  <2>3. \A m \in LeaseId : /\ leases'[m].state = leases[m].state
                           /\ leases'[m].lane = leases[m].lane
                           /\ leases'[m].paths = leases[m].paths
                           /\ m # k => leases'[m].expires = leases[m].expires
    BY <2>1, <2>2 DEF TypeOK, LeaseRecord
  <2>4. Clash(i, j)
    <3>1. leases'[i].lane = leases[i].lane /\ leases'[i].paths = leases[i].paths
      BY <2>3
    <3>2. leases'[j].lane = leases[j].lane /\ leases'[j].paths = leases[j].paths
      BY <2>3
    <3>. QED BY <3>1, <3>2 DEF Clash
  <2>5. now[p] \in Nat /\ now[p] <= clock /\ pc[p] = "extend"
    BY <1>2, <1>7, <1>9 DEF Extend, HoldsLocks
  <2>6. ASSUME NEW m \in LeaseId, leases[m].state = "active", Clash(k, m)
        PROVE  ~(clock < leases[m].expires)
    BY <1>1, <1>2, <1>7, <2>5, <2>6 DEF ExtendsSafely
  <2>7. i # k => j = k
    BY <1>5, <2>3, <2>4 DEF NoCrossLaneOverlap, ConflictAt
  <2>8. i # j
    BY <2>4 DEF Clash
  <2>9. CASE i = k
    BY <1>5, <2>3, <2>4, <2>6, <2>8, <2>9
  <2>10. CASE j = k
    BY <1>5, <2>3, <2>4, <2>6, <2>8, <2>10, ClashSymmetric
  <2>. QED BY <2>7, <2>9, <2>10
<1>10. CASE Retire(p)
  <2>1. PICK k \in todo[p] : leases' = [leases EXCEPT ![k].state = "released"]
    BY <1>10 DEF Retire
  <2>2. k \in LeaseId
    BY DEF TypeOK
  <2>3. \A m \in LeaseId : /\ leases'[m].state = "active" => leases[m].state = "active"
                           /\ leases'[m].lane = leases[m].lane
                           /\ leases'[m].paths = leases[m].paths
                           /\ leases'[m].expires = leases[m].expires
    BY <2>1, <2>2 DEF TypeOK, LeaseRecord
  <2>. QED BY <1>5, <2>3 DEF NoCrossLaneOverlap, ConflictAt, Clash
<1>. QED BY <1>6, <1>8, <1>9, <1>10, LeaseEffects

\* At no time do two lanes hold active leases with overlapping paths.
THEOREM NoOverlap == Spec => []NoCrossLaneOverlap
BY TypeInit, TypeStep, LocksInit, LocksStep, OverlapInit, ExtendStep, OverlapStep, PTL DEF Spec
-----------------------------------------------------------------------------
(* Lane back-references, interrupted claims and interrupted releases. *)

\* Lane manifests, too, change only under the registry and the lane lock.
LEMMA LaneEffects ==
  ASSUME TypeOK, LocksInv, NEW p \in Proc, Starts(p) \/ Step(p) \/ Stop(p)
  PROVE  \/ lanes' = lanes
         \/ /\ registry = p /\ target[p] \in Lane /\ leases' = leases
            /\ RepairLink(p) \/ ListLease(p) \/ CloseLane(p)
<1>1. \A q \in Proc : HoldsLocks(q)
  BY DEF LocksInv
<1>2. CASE Starts(p)
  BY <1>2 DEF Starts, Start
<1>3. CASE Refuse(p)
  BY <1>3 DEF Refuse, End
<1>4. CASE RepairLink(p) \/ ListLease(p) \/ CloseLane(p)
  BY <1>1, <1>4 DEF RepairLink, ListLease, CloseLane, HoldsLocks, TypeOK
<1>5. CASE LockLane(p) \/ FenceDone(p) \/ Beat(p) \/ CreateLease(p) \/ Extend(p) \/ Retire(p)
  BY <1>5 DEF LockLane, FenceDone, Beat, CreateLease, Extend, Retire
<1>6. CASE ClaimBegin(p) \/ RenewBegin(p) \/ FenceBegin(p) \/ ReleaseBegin(p)
  BY <1>6 DEF ClaimBegin, RenewBegin, FenceBegin, ReleaseBegin, EnterRegistry
<1>. QED
  BY <1>2, <1>3, <1>4, <1>5, <1>6
  DEF Step, Stop, LaneRefused, ClaimRefused, ClaimSettled, RenewRefused, RenewDone,
      FenceRefused, CaptureDone, ReleaseRefused

\* What CreateLease, Extend and Retire do to the lease records.
LEMMA CreateEffect ==
  ASSUME TypeOK, NEW p \in Proc, CreateLease(p)
  PROVE  \E k \in LeaseId :
           /\ leases[k].state = "absent"
           /\ leases'[k].state = "active" /\ leases'[k].lane = target[p]
           /\ leases'[k].paths = want[p] /\ leases'[k].expires = now[p] + TTL
           /\ \A m \in LeaseId \ {k} : leases'[m] = leases[m]
           /\ todo'[p] = {k}
<1>1. PICK k \in LeaseId :
        /\ First(k, {j \in LeaseId : leases[j].state = "absent"})
        /\ leases' = [leases EXCEPT ![k] =
             [state |-> "active", lane |-> target[p], paths |-> want[p],
              expires |-> now[p] + TTL]]
        /\ todo' = [todo EXCEPT ![p] = {k}]
  BY DEF CreateLease
<1>2. leases[k].state = "absent"
  BY <1>1 DEF First
<1>. QED BY <1>1, <1>2 DEF TypeOK

LEMMA ExtendEffect ==
  ASSUME TypeOK, NEW p \in Proc, Extend(p)
  PROVE  \E k \in todo[p] :
           /\ k \in LeaseId
           /\ leases'[k].expires = now[p] + TTL
           /\ todo'[p] = todo[p] \ {k}
           /\ \A m \in LeaseId :
                /\ leases'[m].state = leases[m].state
                /\ leases'[m].lane = leases[m].lane
                /\ leases'[m].paths = leases[m].paths
                /\ m # k => leases'[m].expires = leases[m].expires
<1>1. PICK k \in todo[p] :
        /\ leases' = [leases EXCEPT ![k].expires = now[p] + TTL]
        /\ todo' = [todo EXCEPT ![p] = @ \ {k}]
  BY DEF Extend
<1>2. k \in LeaseId
  BY DEF TypeOK
<1>3. leases'[k].expires = now[p] + TTL /\ todo'[p] = todo[p] \ {k}
  BY <1>1, <1>2 DEF TypeOK, LeaseRecord
<1>4. \A m \in LeaseId :
        /\ leases'[m].state = leases[m].state
        /\ leases'[m].lane = leases[m].lane
        /\ leases'[m].paths = leases[m].paths
        /\ m # k => leases'[m].expires = leases[m].expires
  BY <1>1, <1>2 DEF TypeOK, LeaseRecord
<1>. QED BY <1>2, <1>3, <1>4

LEMMA RetireEffect ==
  ASSUME TypeOK, NEW p \in Proc, Retire(p)
  PROVE  \E k \in todo[p] :
           /\ k \in LeaseId
           /\ leases'[k].state = "released"
           /\ todo'[p] = todo[p] \ {k}
           /\ \A m \in LeaseId :
                /\ m # k => leases'[m].state = leases[m].state
                /\ leases'[m].lane = leases[m].lane
                /\ leases'[m].paths = leases[m].paths
                /\ leases'[m].expires = leases[m].expires
<1>1. PICK k \in todo[p] :
        /\ leases' = [leases EXCEPT ![k].state = "released"]
        /\ todo' = [todo EXCEPT ![p] = @ \ {k}]
  BY DEF Retire
<1>2. k \in LeaseId
  BY DEF TypeOK
<1>3. leases'[k].state = "released" /\ todo'[p] = todo[p] \ {k}
  BY <1>1, <1>2 DEF TypeOK, LeaseRecord
<1>4. \A m \in LeaseId :
        /\ m # k => leases'[m].state = leases[m].state
        /\ leases'[m].lane = leases[m].lane
        /\ leases'[m].paths = leases[m].paths
        /\ leases'[m].expires = leases[m].expires
  BY <1>1, <1>2 DEF TypeOK, LeaseRecord
<1>. QED BY <1>2, <1>3, <1>4

LEMMA OwnActiveOrReleased ==
  ASSUME TypeOK, NEW l, NEW i \in Own(l), leases[i].state # "active"
  PROVE  leases[i].state = "released"
BY DEF TypeOK, LeaseRecord, Own

LEMMA LinksInit == Init => LinksInv /\ WorkInv
<1>. SUFFICES ASSUME Init PROVE LinksInv /\ WorkInv
  OBVIOUS
<1>1. \A l \in Lane : Own(l) = {} /\ lanes[l].leaseIds = {} /\ lanes[l].state = "active"
  BY DEF Init, Own, AbsentLease
<1>2. LinksInv
  BY <1>1 DEF LinksInv, LinksOf, Unlisted
<1>3. WorkInv
  BY DEF Init, WorkInv, WorksOn
<1>. QED BY <1>2, <1>3

LEMMA LinksStep ==
  TypeOK /\ LocksInv /\ ExtendInv /\ LinksInv /\ WorkInv /\ [Next]_vars => LinksInv'
<1>. SUFFICES ASSUME TypeOK, LocksInv, ExtendInv, LinksInv, WorkInv, [Next]_vars,
                     NEW l \in Lane
              PROVE  LinksOf(l)'
  BY DEF LinksInv
<1>1. LinksOf(l)
  BY DEF LinksInv
<1>2. CASE lanes' = lanes /\ leases' = leases
  BY <1>1, <1>2 DEF LinksOf, Unlisted, Own
<1>3. CASE UNCHANGED vars \/ Tick
  BY <1>2, <1>3 DEF vars, Tick
<1>. SUFFICES ASSUME NEW p \in Proc, Starts(p) \/ Step(p) \/ Stop(p) PROVE LinksOf(l)'
  BY <1>3 DEF Next
<1>4. HoldsLocks(p) /\ WorksOn(p) /\ ExtendsSafely(p)
  BY DEF LocksInv, WorkInv, ExtendInv
<1>5. CASE CreateLease(p)
  <2>1. PICK k \in LeaseId :
           /\ leases[k].state = "absent"
           /\ leases'[k].state = "active" /\ leases'[k].lane = target[p]
           /\ \A m \in LeaseId \ {k} : leases'[m] = leases[m]
    BY <1>5, CreateEffect
  <2>2. lanes' = lanes /\ pc[p] = "claim" /\ todo[p] = {} /\ Reusable(p) = {} /\ Blocking(p) = {}
    BY <1>5 DEF CreateLease
  <2>3. CASE l = target[p]
    <3>1. Own(l)' = Own(l) \cup {k} /\ k \notin Own(l)
      BY <2>1, <2>3 DEF Own
    <3>2. Unlisted(l) = {} /\ lanes[l].state = "active"
      BY <1>4, <2>2, <2>3 DEF WorksOn, HoldsLocks
    <3>3. Unlisted(l)' = {k}
      BY <1>1, <2>2, <3>1, <3>2 DEF Unlisted, LinksOf
    <3>4. \A i \in Own(l)' : leases'[i].state = "active"
      BY <1>4, <2>1, <2>2, <2>3, <3>1 DEF WorksOn, Own
    <3>. QED BY <1>1, <2>2, <3>1, <3>2, <3>3, <3>4 DEF LinksOf
  <2>4. CASE l # target[p]
    <3>1. Own(l)' = Own(l)
      BY <2>1, <2>4 DEF Own
    <3>2. \A i \in Own(l) : leases'[i] = leases[i]
      BY <2>1 DEF Own
    <3>. QED BY <1>1, <2>2, <3>1, <3>2 DEF LinksOf, Unlisted
  <2>. QED BY <2>3, <2>4
<1>6. CASE Extend(p)
  <2>1. \A m \in LeaseId : leases'[m].state = leases[m].state /\ leases'[m].lane = leases[m].lane
    BY <1>6, ExtendEffect
  <2>2. Own(l)' = Own(l) /\ lanes' = lanes
    BY <1>6, <2>1 DEF Own, Extend
  <2>3. \A i \in Own(l) : leases'[i].state = leases[i].state
    BY <2>1 DEF Own
  <2>. QED BY <1>1, <2>2, <2>3 DEF LinksOf, Unlisted
<1>7. CASE Retire(p)
  <2>1. PICK k \in todo[p] :
           /\ k \in LeaseId /\ leases'[k].state = "released"
           /\ \A m \in LeaseId :
                /\ m # k => leases'[m].state = leases[m].state
                /\ leases'[m].lane = leases[m].lane
    BY <1>7, RetireEffect
  <2>2. lanes' = lanes /\ k \in Own(target[p]) /\ Unlisted(target[p]) = {}
    BY <1>4, <1>7 DEF Retire, WorksOn
  <2>3. Own(l)' = Own(l)
    BY <2>1, <2>2 DEF Own
  <2>4. Unlisted(l)' = Unlisted(l)
    BY <2>2, <2>3 DEF Unlisted
  <2>5. \A i \in Own(l) : leases'[i].state # leases[i].state =>
          leases'[i].state = "released" /\ l = target[p]
    BY <2>1, <2>2 DEF Own
  <2>. QED BY <1>1, <2>2, <2>3, <2>4, <2>5 DEF LinksOf
<1>8. CASE RepairLink(p) \/ ListLease(p)
  <2>1. PICK ids \in SUBSET todo[p] :
          lanes' = [lanes EXCEPT ![target[p]].leaseIds = @ \cup ids]
    BY <1>8 DEF RepairLink, ListLease
  <2>2. leases' = leases /\ todo[p] \subseteq Own(target[p]) /\ target[p] \in Lane
    BY <1>4, <1>8 DEF RepairLink, ListLease, WorksOn, Unlisted, TypeOK
  <2>3. lanes[l] \in LaneRecord
    BY DEF TypeOK
  <2>4. lanes'[l].state = lanes[l].state /\ lanes[l].leaseIds \subseteq lanes'[l].leaseIds
    BY <2>1, <2>2, <2>3 DEF TypeOK, LaneRecord
  <2>5. lanes'[l].leaseIds \subseteq Own(l)
    BY <1>1, <2>1, <2>2, <2>3 DEF TypeOK, LaneRecord, LinksOf
  <2>6. Own(l)' = Own(l)
    BY <2>2 DEF Own
  <2>7. Unlisted(l)' \subseteq Unlisted(l)
    BY <2>4, <2>6 DEF Unlisted
  <2>. QED BY <1>1, <2>2, <2>4, <2>5, <2>6, <2>7 DEF LinksOf
<1>9. CASE CloseLane(p)
  <2>1. leases' = leases /\ target[p] \in Lane /\ todo[p] = {} /\ pc[p] = "retire"
    BY <1>9 DEF CloseLane, TypeOK
  <2>2. \A m \in Lane : lanes'[m].leaseIds = lanes[m].leaseIds
    BY <1>9 DEF CloseLane, TypeOK, LaneRecord
  <2>3. l # target[p] => lanes'[l] = lanes[l]
    BY <1>9 DEF CloseLane, TypeOK
  <2>4. l = target[p] => \A i \in Own(l) : leases[i].state = "released"
    BY <1>4, <2>1, OwnActiveOrReleased DEF WorksOn
  <2>5. Own(l)' = Own(l) /\ Unlisted(l)' = Unlisted(l)
    BY <2>1, <2>2 DEF Own, Unlisted
  <2>. QED BY <1>1, <2>1, <2>2, <2>3, <2>4, <2>5 DEF LinksOf
<1>. QED BY <1>2, <1>5, <1>6, <1>7, <1>8, <1>9, LeaseEffects, LaneEffects

LEMMA WorkStep ==
  TypeOK /\ LocksInv /\ ExtendInv /\ LinksInv /\ WorkInv /\ [Next]_vars => WorkInv'
<1>. SUFFICES ASSUME TypeOK, LocksInv, ExtendInv, LinksInv, WorkInv, [Next]_vars,
                     NEW q \in Proc
              PROVE  WorksOn(q)'
  BY DEF WorkInv
<1>1. WorksOn(q) /\ HoldsLocks(q)
  BY DEF WorkInv, LocksInv
<1>2. ASSUME lanes' = lanes, leases' = leases, pc'[q] = pc[q], target'[q] = target[q],
             todo'[q] = todo[q], now'[q] = now[q], want'[q] = want[q]
      PROVE  WorksOn(q)'
  BY <1>1, <1>2 DEF WorksOn, Unlisted, Own, Reusable, Blocking, ActiveAt
<1>3. CASE UNCHANGED vars \/ Tick
  BY <1>2, <1>3 DEF vars, Tick, locals
<1>. SUFFICES ASSUME NEW p \in Proc, Starts(p) \/ Step(p) \/ Stop(p) PROVE WorksOn(q)'
  BY <1>3 DEF Next
<1>4. CASE q # p
  <2>1. /\ pc'[q] = pc[q] /\ target'[q] = target[q] /\ todo'[q] = todo[q]
        /\ now'[q] = now[q] /\ want'[q] = want[q]
    BY <1>4, OthersUnmoved
  <2>2. CASE lanes' = lanes /\ leases' = leases
    BY <1>2, <2>1, <2>2
  <2>3. CASE registry = p
    BY <1>1, <1>4, <2>1, <2>3 DEF WorksOn, HoldsLocks
  <2>. QED BY <2>2, <2>3, LeaseEffects, LaneEffects
<1>5. CASE q = p
  <2>1. CASE pc'[p] \notin {"claim", "list", "extend", "retire"}
    BY <1>5, <2>1 DEF WorksOn
  <2>2. CASE Starts(p)
    BY <2>1, <2>2 DEF Starts, Start, TypeOK
  <2>3. CASE Refuse(p) \/ ListLease(p) \/ CloseLane(p)
    BY <2>1, <2>3 DEF Refuse, ListLease, CloseLane, End, TypeOK
  <2>4. CASE LockLane(p) \/ FenceDone(p) \/ Beat(p)
    BY <2>1, <2>4 DEF LockLane, FenceDone, Beat, TypeOK
  <2>5. CASE ClaimBegin(p)
    <3>. DEFINE l == target[p]
    <3>1. /\ lanes' = lanes /\ leases' = leases /\ target'[p] = l /\ want'[p] = want[p]
          /\ pc'[p] = "claim" /\ now'[p] = clock
      BY <2>5 DEF ClaimBegin, EnterRegistry, locals, TypeOK
    <3>2. /\ \A i \in Own(l) : leases[i].state # "released"
          /\ \A i \in Unlisted(l) : leases[i].paths = want[p]
      BY <2>5 DEF ClaimBegin, ClaimLinksOK
    <3>3. \A i \in Own(l) : leases[i].state = "active"
      BY <3>2, OwnActiveOrReleased
    <3>4. todo'[p] \subseteq Unlisted(l)
      BY <2>5 DEF ClaimBegin, EnterRegistry, TypeOK
    <3>5. ASSUME NEW i \in Unlisted(l), i \notin todo'[p]
          PROVE  \E e \in LeaseId : /\ ActiveAt(e, clock)
                                    /\ IF leases[e].lane = l
                                         THEN leases[e].paths = want[p]
                                         ELSE ScopesOverlap(want[p], leases[e].paths)
      BY <2>5, <3>2, <3>5 DEF ClaimBegin, EnterRegistry, TypeOK
    <3>6. \/ Unlisted(l) \subseteq todo'[p]
          \/ \E e \in LeaseId : e \in Reusable(p)' \/ e \in Blocking(p)'
      BY <3>1, <3>5 DEF Reusable, Blocking, Own, ActiveAt
    <3>7. Own(l)' = Own(l) /\ Unlisted(l)' = Unlisted(l)
      BY <3>1 DEF Own, Unlisted
    <3>8. WorksOn(p)'
      BY <3>1, <3>3, <3>4, <3>6, <3>7 DEF WorksOn, Own, Unlisted
    <3>. QED BY <1>5, <3>8
  <2>6. CASE RepairLink(p)
    <3>1. PICK i \in todo[p] :
            /\ lanes' = [lanes EXCEPT ![target[p]].leaseIds = @ \cup {i}]
            /\ todo' = [todo EXCEPT ![p] = @ \ {i}]
      BY <2>6 DEF RepairLink
    <3>2. /\ leases' = leases /\ target'[p] = target[p] /\ want'[p] = want[p] /\ now'[p] = now[p]
          /\ pc'[p] = "claim" /\ pc[p] = "claim" /\ target[p] \in Lane
      BY <2>6 DEF RepairLink, locals, TypeOK
    <3>3. todo'[p] = todo[p] \ {i}
      BY <3>1 DEF TypeOK
    <3>4. lanes'[target[p]].leaseIds = lanes[target[p]].leaseIds \cup {i}
      BY <3>1, <3>2 DEF TypeOK, LaneRecord
    <3>5. Own(target[p])' = Own(target[p])
      BY <3>2 DEF Own
    <3>6. Unlisted(target[p])' = Unlisted(target[p]) \ {i}
      BY <3>2, <3>4, <3>5 DEF Unlisted
    <3>7. Reusable(p)' = Reusable(p) /\ Blocking(p)' = Blocking(p)
      BY <3>2, <3>5 DEF Reusable, Blocking, ActiveAt
    <3>. QED BY <1>1, <1>5, <3>2, <3>3, <3>5, <3>6, <3>7 DEF WorksOn
  <2>7. CASE CreateLease(p)
    <3>1. PICK k \in LeaseId :
             /\ leases[k].state = "absent"
             /\ leases'[k].state = "active" /\ leases'[k].lane = target[p]
             /\ \A m \in LeaseId \ {k} : leases'[m] = leases[m]
             /\ todo'[p] = {k}
      BY <2>7, CreateEffect
    <3>2. /\ lanes' = lanes /\ pc[p] = "claim" /\ pc'[p] = "list" /\ todo[p] = {}
          /\ target'[p] = target[p] /\ Reusable(p) = {} /\ Blocking(p) = {}
      BY <2>7 DEF CreateLease, locals, TypeOK
    <3>3. Own(target[p])' = Own(target[p]) \cup {k}
      BY <3>1, <3>2 DEF Own
    <3>4. Unlisted(target[p]) = {}
      BY <1>1, <1>5, <3>2 DEF WorksOn
    <3>5. Unlisted(target[p])' \subseteq {k}
      BY <3>2, <3>3, <3>4 DEF Unlisted
    <3>6. \A i \in Own(target[p])' : leases'[i].state = "active"
      BY <1>1, <1>5, <3>1, <3>2, <3>3 DEF WorksOn, Own
    <3>. QED BY <1>5, <3>1, <3>2, <3>3, <3>5, <3>6 DEF WorksOn
  <2>8. CASE RenewBegin(p) \/ FenceBegin(p)
    <3>1. /\ lanes' = lanes /\ leases' = leases /\ target'[p] = target[p] /\ pc'[p] = "extend"
          /\ LaneLinksOK(target[p]) /\ op[p] \in {"renew", "capture"} /\ pc[p] = "registry"
      BY <2>8 DEF RenewBegin, FenceBegin, FenceOK, AtRegistry, EnterRegistry, locals, TypeOK
    <3>2. \A i \in Own(target[p]) : leases[i].state = "active"
      BY <1>1, <1>5, <3>1 DEF LaneLinksOK, HoldsLocks
    <3>. QED BY <1>5, <3>1, <3>2 DEF WorksOn, Own
  <2>9. CASE Extend(p)
    <3>1. \A m \in LeaseId : leases'[m].state = leases[m].state /\ leases'[m].lane = leases[m].lane
      BY <2>9, ExtendEffect
    <3>2. pc[p] = "extend" /\ pc'[p] = "extend" /\ target'[p] = target[p]
      BY <2>9 DEF Extend, locals
    <3>. QED BY <1>1, <1>5, <3>1, <3>2 DEF WorksOn, Own
  <2>10. CASE ReleaseBegin(p)
    <3>1. /\ lanes' = lanes /\ leases' = leases /\ target'[p] = target[p] /\ pc'[p] = "retire"
          /\ ReleaseLinksOK(target[p])
          /\ todo'[p] = {i \in Own(target[p]) : leases[i].state = "active"}
      BY <2>10 DEF ReleaseBegin, EnterRegistry, locals, TypeOK
    <3>2. Own(target[p])' = Own(target[p]) /\ Unlisted(target[p])' = {}
      BY <3>1 DEF Own, Unlisted, ReleaseLinksOK
    <3>. QED BY <1>5, <3>1, <3>2 DEF WorksOn
  <2>11. CASE Retire(p)
    <3>1. PICK k \in todo[p] :
             /\ k \in LeaseId /\ leases'[k].state = "released" /\ todo'[p] = todo[p] \ {k}
             /\ \A m \in LeaseId :
                  /\ m # k => leases'[m].state = leases[m].state
                  /\ leases'[m].lane = leases[m].lane
      BY <2>11, RetireEffect
    <3>2. pc[p] = "retire" /\ pc'[p] = "retire" /\ target'[p] = target[p] /\ lanes' = lanes
      BY <2>11 DEF Retire, locals
    <3>3. todo[p] \subseteq Own(target[p])
      BY <1>1, <1>5, <3>2 DEF WorksOn
    <3>4. Own(target[p])' = Own(target[p])
      BY <3>1, <3>2, <3>3 DEF Own
    <3>5. Unlisted(target[p])' = {}
      BY <1>1, <1>5, <3>2, <3>4 DEF WorksOn, Unlisted
    <3>6. \A i \in Own(target[p]) : leases'[i].state = "active" => i \in todo'[p]
      BY <1>1, <1>5, <3>1, <3>2 DEF WorksOn, Own
    <3>. QED BY <1>5, <3>1, <3>2, <3>3, <3>4, <3>5, <3>6 DEF WorksOn
  <2>. QED
    BY <2>2, <2>3, <2>4, <2>5, <2>6, <2>7, <2>8, <2>9, <2>10, <2>11
    DEF Step, Stop, LaneRefused, ClaimRefused, ClaimSettled, RenewRefused, RenewDone,
        FenceRefused, CaptureDone, ReleaseRefused
<1>. QED BY <1>4, <1>5

LEMMA RegistryInv ==
  Spec => [](TypeOK /\ LocksInv /\ ExtendInv /\ NoCrossLaneOverlap /\ LinksInv /\ WorkInv)
BY TypeInit, TypeStep, LocksInit, LocksStep, OverlapInit, ExtendStep, OverlapStep,
   LinksInit, LinksStep, WorkStep, PTL DEF Spec

\* An interrupted claim leaves at most one unlisted lease, and the exact retry of
\* that claim passes the link check.
THEOREM RetryAdmitted == Spec => []ExactRetryAdmitted
<1>1. LinksInv => ExactRetryAdmitted
  <2>. SUFFICES ASSUME LinksInv, NEW l \in Lane
                PROVE  /\ Cardinality(Unlisted(l)) <= 1
                       /\ \A i \in Unlisted(l) : ClaimLinksOK(l, leases[i].paths)
    BY DEF ExactRetryAdmitted
  <2>1. LinksOf(l)
    BY DEF LinksInv
  <2>2. Cardinality(Unlisted(l)) <= 1
    <3>1. CASE Unlisted(l) = {}
      BY <3>1, FS_EmptySet
    <3>2. CASE Unlisted(l) # {}
      <4>1. PICK i \in Unlisted(l) : TRUE
        BY <3>2
      <4>2. Unlisted(l) = {i}
        BY <2>1, <4>1 DEF LinksOf
      <4>3. Cardinality({i}) = 1
        BY FS_Singleton
      <4>. QED BY <4>2, <4>3
    <3>. QED BY <3>1, <3>2
  <2>3. ASSUME NEW i \in Unlisted(l)
        PROVE  ClaimLinksOK(l, leases[i].paths)
    BY <2>1, <2>3 DEF LinksOf, ClaimLinksOK
  <2>. QED BY <2>2, <2>3
<1>. QED BY <1>1, RegistryInv, PTL

\* A release interrupted between two lease records can be run again.
THEOREM ReleaseCanResume == Spec => []ReleaseResumable
<1>1. TypeOK /\ LinksInv => ReleaseResumable
  <2>. SUFFICES ASSUME TypeOK, LinksInv, NEW l \in Lane,
                       NEW i \in Own(l), leases[i].state = "released"
                PROVE  lanes[l].leaseIds = Own(l)
    BY DEF ReleaseResumable, ReleaseLinksOK
  <2>1. LinksOf(l)
    BY DEF LinksInv
  <2>2. Unlisted(l) = {}
    BY <2>1 DEF LinksOf
  <2>. QED BY <2>1, <2>2 DEF LinksOf, Unlisted
<1>. QED BY <1>1, RegistryInv, PTL

\* A released or aborted lane has no active stored lease.
THEOREM ClosedHoldsNothing == Spec => []ClosedLaneHoldsNothing
<1>1. LinksInv => ClosedLaneHoldsNothing
  BY DEF LinksInv, LinksOf, ClosedLaneHoldsNothing
<1>. QED BY <1>1, RegistryInv, PTL

\* Once a release has written one lease record, no lease of the lane is created,
\* extended or revived.
THEOREM ReleaseFreezes == Spec => ReleaseStartedFreezes
<1>. DEFINE Frozen(l) ==
       (\E i \in Own(l) : leases[i].state = "released") =>
         \A i \in LeaseId : leases'[i].lane = l =>
           /\ leases[i].lane = l
           /\ leases'[i].expires = leases[i].expires
           /\ leases[i].state = "released" => leases'[i].state = "released"
<1>1. ASSUME TypeOK, LocksInv, ExtendInv, WorkInv, [Next]_vars, NEW l \in Lane
      PROVE  Frozen(l)
  <2>1. CASE leases' = leases
    BY <2>1
  <2>2. CASE UNCHANGED vars \/ Tick
    BY <2>1, <2>2 DEF vars, Tick
  <2>. SUFFICES ASSUME NEW p \in Proc, Starts(p) \/ Step(p) \/ Stop(p) PROVE Frozen(l)
    BY <1>1, <2>2 DEF Next
  <2>3. WorksOn(p) /\ ExtendsSafely(p)
    BY <1>1 DEF WorkInv, ExtendInv
  <2>4. CASE CreateLease(p)
    <3>1. PICK k \in LeaseId : /\ leases'[k].lane = target[p]
                               /\ \A m \in LeaseId \ {k} : leases'[m] = leases[m]
      BY <1>1, <2>4, CreateEffect
    <3>2. \A i \in Own(target[p]) : leases[i].state = "active"
      BY <2>3, <2>4 DEF CreateLease, WorksOn
    <3>. QED BY <3>1, <3>2
  <2>5. CASE Extend(p)
    <3>1. PICK k \in todo[p] :
             /\ k \in LeaseId
             /\ \A m \in LeaseId :
                  /\ leases'[m].state = leases[m].state
                  /\ leases'[m].lane = leases[m].lane
                  /\ m # k => leases'[m].expires = leases[m].expires
      BY <1>1, <2>5, ExtendEffect
    <3>2. /\ leases[k].lane = target[p]
          /\ \A i \in Own(target[p]) : leases[i].state = "active"
      BY <2>3, <2>5 DEF Extend, WorksOn, ExtendsSafely
    <3>. QED BY <3>1, <3>2
  <2>6. CASE Retire(p)
    BY <1>1, <2>6, RetireEffect
  <2>. QED BY <1>1, <2>1, <2>4, <2>5, <2>6, LeaseEffects
<1>2. TypeOK /\ LocksInv /\ ExtendInv /\ WorkInv /\ [Next]_vars => [\A l \in Lane : Frozen(l)]_vars
  BY <1>1
<1>. QED BY <1>2, RegistryInv, PTL DEF Spec, ReleaseStartedFreezes
-----------------------------------------------------------------------------
(* The fence of a running capture. *)

LEMMA FenceInit == Init => FenceInv
BY DEF Init, FenceInv, Fenced

LEMMA FenceStep ==
  TypeOK /\ LocksInv /\ ExtendInv /\ WorkInv /\ FenceInv /\ [Next]_vars => FenceInv'
<1>. SUFFICES ASSUME TypeOK, LocksInv, ExtendInv, WorkInv, FenceInv, [Next]_vars, NEW q \in Proc
              PROVE  Fenced(q)'
  BY DEF FenceInv
<1>1. Fenced(q) /\ HoldsLocks(q)
  BY DEF FenceInv, LocksInv
<1>2. clock \in Nat /\ clock' \in Nat /\ clock <= clock'
  <2>1. UNCHANGED vars \/ Tick => clock' \in Nat /\ clock <= clock'
    BY DEF vars, Tick, TypeOK
  <2>. QED BY <2>1, LeaseEffects DEF TypeOK, Next
<1>3. ASSUME leases' = leases, pc'[q] = pc[q], op'[q] = op[q], target'[q] = target[q],
             todo'[q] = todo[q], now'[q] = now[q], allowed'[q] = allowed[q], fence'[q] = fence[q]
      PROVE  Fenced(q)'
  <2>1. \A x, t : HeldUntil(q, x, t) => HeldUntil(q, x, t)'
    BY <1>3 DEF HeldUntil, Own
  <2>2. \A x : BeingRefreshed(q, x) => BeingRefreshed(q, x)'
    BY <1>3 DEF BeingRefreshed, Own
  <2>3. fence[q] \in 0..clock => fence[q] \in 0..clock'
    BY <1>2
  <2>. QED BY <1>1, <1>3, <2>1, <2>2, <2>3 DEF Fenced
<1>4. CASE UNCHANGED vars \/ Tick
  BY <1>3, <1>4 DEF vars, Tick, locals
<1>. SUFFICES ASSUME NEW p \in Proc, Starts(p) \/ Step(p) \/ Stop(p) PROVE Fenced(q)'
  BY <1>4 DEF Next
<1>5. clock' = clock
  BY LeaseEffects
<1>6. CASE q # p
  <2>1. /\ pc'[q] = pc[q] /\ op'[q] = op[q] /\ target'[q] = target[q]
        /\ now'[q] = now[q] /\ todo'[q] = todo[q]
        /\ allowed'[q] = allowed[q] /\ fence'[q] = fence[q]
    BY <1>6, OthersUnmoved
  <2>2. CASE leases' = leases
    BY <1>3, <2>1, <2>2
  <2>3. CASE registry = p /\ (CreateLease(p) \/ Extend(p) \/ Retire(p))
    <3>1. pc[q] # "extend"
      BY <1>1, <1>6, <2>3 DEF HoldsLocks
    <3>2. CASE fence[q] = Never
      BY <1>1, <2>1, <3>1, <3>2 DEF Fenced
    <3>3. CASE fence[q] # Never
      <4>1. laneLock[target[q]] = q
        BY <1>1, <3>3 DEF Fenced, HoldsLocks, Points
      <4>2. laneLock[target[p]] = p /\ HoldsLocks(p)
        BY <2>3 DEF CreateLease, Extend, Retire, LocksInv, HoldsLocks, Points
      <4>3. target[p] # target[q]
        BY <1>6, <4>1, <4>2
      <4>4. ASSUME NEW m \in Own(target[q]), leases[m].state = "active"
            PROVE  /\ m \in Own(target[q])' /\ leases'[m].state = "active"
                   /\ leases'[m].paths = leases[m].paths
                   /\ leases'[m].expires = leases[m].expires
        <5>1. CASE CreateLease(p)
          BY <2>1, <4>4, <5>1, CreateEffect DEF Own
        <5>2. CASE Extend(p)
          <6>1. \A k \in todo[p] : leases[k].lane = target[p]
            BY <5>2 DEF ExtendInv, ExtendsSafely, Extend
          <6>2. m \notin todo[p]
            BY <4>3, <6>1 DEF Own
          <6>. QED BY <2>1, <4>4, <5>2, <6>2, ExtendEffect DEF Own
        <5>3. CASE Retire(p)
          <6>1. todo[p] \subseteq Own(target[p])
            BY <5>3 DEF WorkInv, WorksOn, Retire
          <6>2. m \notin todo[p]
            BY <4>3, <6>1 DEF Own
          <6>. QED BY <2>1, <4>4, <5>3, <6>2, RetireEffect DEF Own
        <5>. QED BY <2>3, <5>1, <5>2, <5>3
      <4>5. \A x, t : HeldUntil(q, x, t) => HeldUntil(q, x, t)'
        BY <2>1, <4>4 DEF HeldUntil
      <4>. QED BY <1>1, <1>5, <2>1, <3>1, <4>5 DEF Fenced
    <3>. QED BY <3>2, <3>3
  <2>. QED BY <2>2, <2>3, LeaseEffects
<1>7. CASE q = p
  <2>1. CASE fence[p] = Never /\ fence'[p] = fence[p] /\ pc'[p] \notin {"extend", "hold"}
    BY <1>7, <2>1 DEF Fenced
  <2>2. CASE Starts(p)
    BY <1>1, <1>7, <2>1, <2>2 DEF Starts, Start, Fenced, TypeOK
  <2>3. CASE End(p)
    BY <1>7, <2>3 DEF End, Fenced, TypeOK
  <2>4. CASE LockLane(p) \/ RepairLink(p) \/ CreateLease(p) \/ Retire(p)
    BY <1>1, <1>7, <2>1, <2>4 DEF LockLane, RepairLink, CreateLease, Retire, Fenced, TypeOK, locals
  <2>5. CASE ClaimBegin(p) \/ ReleaseBegin(p)
    BY <1>1, <1>7, <2>1, <2>5
    DEF ClaimBegin, ReleaseBegin, AtRegistry, EnterRegistry, Fenced, TypeOK, locals
  <2>6. CASE RenewBegin(p)
    BY <1>1, <1>7, <2>6 DEF RenewBegin, AtRegistry, EnterRegistry, Fenced, TypeOK, locals
  <2>7. CASE FenceBegin(p)
    <3>1. /\ leases' = leases /\ target'[p] = target[p] /\ allowed'[p] = allowed[p]
          /\ fence'[p] = fence[p] /\ op'[p] = op[p] /\ op[p] = "capture" /\ pc'[p] = "extend"
          /\ now'[p] = clock /\ todo'[p] = OwnActive(p)
      BY <2>7 DEF FenceBegin, AtRegistry, EnterRegistry, TypeOK, locals
    <3>2. ASSUME NEW x \in Path, allowed[p][x] > 0
          PROVE  BeingRefreshed(p, x)'
      <4>. DEFINE S == {i \in Own(target[p]) : ActiveAt(i, clock) /\ x \in leases[i].paths}
      <4>1. Cardinality(S) > 0
        BY <2>7, <3>2 DEF FenceBegin, FenceOK, PathCount
      <4>2. S # {}
        BY <4>1, FS_EmptySet
      <4>3. PICK i \in Own(target[p]) : ActiveAt(i, clock) /\ x \in leases[i].paths
        BY <4>2
      <4>4. i \in OwnActive(p)
        BY <4>3 DEF OwnActive
      <4>. QED BY <3>1, <4>3, <4>4 DEF BeingRefreshed, Own, ActiveAt
    <3>3. \A x, t : HeldUntil(p, x, t) => HeldUntil(p, x, t)'
      BY <3>1 DEF HeldUntil, Own
    <3>4. fence[p] # Never => fence[p] \in 0..clock /\ fence[p] <= clock
      BY <1>1, <1>2, <1>7 DEF Fenced
    <3>. QED BY <1>1, <1>5, <1>7, <3>1, <3>2, <3>3, <3>4 DEF Fenced
  <2>8. CASE Extend(p)
    <3>1. PICK k \in todo[p] :
             /\ k \in LeaseId
             /\ leases'[k].expires = now[p] + TTL
             /\ todo'[p] = todo[p] \ {k}
             /\ \A m \in LeaseId :
                  /\ leases'[m].state = leases[m].state
                  /\ leases'[m].lane = leases[m].lane
                  /\ leases'[m].paths = leases[m].paths
                  /\ m # k => leases'[m].expires = leases[m].expires
      BY <2>8, ExtendEffect
    <3>2. /\ pc[p] = "extend" /\ pc'[p] = "extend" /\ op'[p] = op[p]
          /\ target'[p] = target[p] /\ now'[p] = now[p]
          /\ allowed'[p] = allowed[p] /\ fence'[p] = fence[p]
      BY <2>8 DEF Extend, TypeOK, locals
    <3>3. Own(target[p])' = Own(target[p])
      BY <3>1, <3>2 DEF Own
    <3>4. ASSUME NEW x, BeingRefreshed(p, x)
          PROVE  BeingRefreshed(p, x)'
      BY <3>1, <3>2, <3>3, <3>4 DEF BeingRefreshed, Own
    <3>5. ASSUME fence[p] # Never, NEW x, HeldUntil(p, x, fence[p] + TTL)
          PROVE  HeldUntil(p, x, fence[p] + TTL)'
      <4>1. now[p] + TTL >= fence[p] + TTL
        <5>1. fence[p] <= now[p] /\ fence[p] \in 0..clock
          BY <1>1, <1>7, <3>2, <3>5 DEF Fenced
        <5>2. now[p] \in 0..clock /\ TTL \in Nat
          BY <1>1, <1>7, <3>2, RegistryAssumption DEF HoldsLocks
        <5>. QED BY <1>2, <5>1, <5>2
      <4>. QED BY <3>1, <3>2, <3>3, <3>5, <4>1 DEF HeldUntil, Own
    <3>. QED BY <1>1, <1>5, <1>7, <3>2, <3>4, <3>5 DEF Fenced
  <2>9. CASE FenceDone(p)
    <3>1. /\ pc[p] = "extend" /\ op[p] = "capture" /\ todo[p] = {} /\ leases' = leases
          /\ pc'[p] = "hold" /\ op'[p] = op[p] /\ target'[p] = target[p]
          /\ allowed'[p] = allowed[p] /\ fence'[p] = now[p]
      BY <2>9 DEF FenceDone, TypeOK, locals
    <3>2. now[p] \in 0..clock /\ now[p] + TTL \in Nat
      BY <1>1, <1>7, <3>1, ExpiryType DEF HoldsLocks
    <3>3. ASSUME NEW x \in Path, allowed[p][x] > 0
          PROVE  HeldUntil(p, x, fence[p] + TTL)'
      <4>1. BeingRefreshed(p, x)
        BY <1>1, <1>7, <3>1, <3>3 DEF Fenced
      <4>2. TTL' = TTL
        OBVIOUS
      <4>. QED BY <3>1, <3>2, <4>1 DEF BeingRefreshed, HeldUntil, Own
    <3>. QED BY <1>5, <1>7, <3>1, <3>2, <3>3 DEF Fenced, Never
  <2>10. CASE Beat(p)
    <3>1. /\ leases' = leases /\ pc[p] = "hold" /\ pc'[p] = "registry"
          /\ op'[p] = op[p] /\ target'[p] = target[p]
          /\ allowed'[p] = allowed[p] /\ fence'[p] = fence[p]
      BY <2>10 DEF Beat, TypeOK, locals
    <3>2. \A x, t : HeldUntil(p, x, t) => HeldUntil(p, x, t)'
      BY <3>1 DEF HeldUntil, Own
    <3>. QED BY <1>1, <1>5, <1>7, <3>1, <3>2 DEF Fenced
  <2>. QED
    BY <2>2, <2>3, <2>4, <2>5, <2>6, <2>7, <2>8, <2>9, <2>10
    DEF Step, Stop, Refuse, LaneRefused, ClaimRefused, ClaimSettled, ListLease, RenewRefused,
        RenewDone, FenceRefused, CaptureDone, ReleaseRefused, CloseLane
<1>. QED BY <1>6, <1>7

\* A capture whose last complete fence refresh is younger than a lease lifetime
\* still has its lane active and an active lease on every path it started with.
THEOREM CaptureFenced == Spec => []FenceHolds
<1>1. Spec => [](TypeOK /\ LocksInv /\ FenceInv)
  BY RegistryInv, TypeInit, TypeStep, LocksInit, LocksStep, FenceInit, FenceStep, PTL DEF Spec
<1>2. TypeOK /\ LocksInv /\ FenceInv => FenceHolds
  <2>. SUFFICES ASSUME TypeOK, LocksInv, FenceInv, NEW p \in Proc,
                       fence[p] # Never, clock < fence[p] + TTL
                PROVE  /\ lanes[target[p]].state = "active"
                       /\ \A x \in Path : allowed[p][x] > 0 =>
                            \E i \in Own(target[p]) : ActiveAt(i, clock) /\ x \in leases[i].paths
    BY DEF FenceHolds
  <2>1. Fenced(p) /\ HoldsLocks(p)
    BY DEF FenceInv, LocksInv
  <2>2. lanes[target[p]].state = "active"
    BY <2>1 DEF Fenced, HoldsLocks
  <2>3. ASSUME NEW x \in Path, allowed[p][x] > 0
        PROVE  \E i \in Own(target[p]) : ActiveAt(i, clock) /\ x \in leases[i].paths
    <3>1. PICK i \in Own(target[p]) : /\ leases[i].state = "active" /\ x \in leases[i].paths
                                      /\ leases[i].expires >= fence[p] + TTL
      BY <2>1, <2>3 DEF Fenced, HeldUntil
    <3>2. leases[i].expires \in Nat /\ clock \in Nat /\ fence[p] \in 0..clock /\ TTL \in Nat
      BY <2>1, RegistryAssumption DEF TypeOK, LeaseRecord, Own, Fenced
    <3>3. clock < leases[i].expires
      BY <3>1, <3>2
    <3>. QED BY <3>1, <3>3 DEF ActiveAt
  <2>. QED BY <2>2, <2>3
<1>. QED BY <1>1, <1>2, PTL
-----------------------------------------------------------------------------
(* The registry implements PathOwnership. *)

\* What a step does to the scopes owned now and to the open lanes.
LEMMA OwnedKept ==
  ASSUME leases' = leases, clock' = clock
  PROVE  [l \in Lane |-> Owned(l)]' = [l \in Lane |-> Owned(l)]
BY DEF Owned, Own, ActiveAt

LEMMA OwnedLapses ==
  ASSUME TypeOK, TypeOK', lanes' = lanes,
         \A l \in Lane : Owned(l)' \subseteq Owned(l)
  PROVE  Abs!Lapse
BY DEF Abs!Lapse

LEMMA OwnedGains ==
  ASSUME TypeOK, lanes' = lanes, NEW l \in Lane, lanes[l].state = "active",
         NEW S \in SUBSET Path,
         Owned(l)' = Owned(l) \cup S,
         \A m \in Lane \ {l} : Owned(m)' = Owned(m) /\ ~ScopesOverlap(S, Owned(m))
  PROVE  Abs!Gain(l, S)
<1>. DEFINE held == [m \in Lane |-> Owned(m)]
<1>1. held' = [held EXCEPT ![l] = @ \cup S]
  OBVIOUS
<1>2. \A m \in Lane \ {l} : ~ScopesOverlap(S, held[m])
  OBVIOUS
<1>. QED BY <1>1, <1>2 DEF Abs!Gain, Abs!ScopesOverlap, ScopesOverlap, Overlap, Abs!Overlap,
       AtOrBelow, Abs!AtOrBelow, Key, Abs!Key

LEMMA OwnedInit == Init => Abs!Init
<1>. SUFFICES ASSUME Init PROVE Abs!Init
  OBVIOUS
<1>1. \A l \in Lane : Owned(l) = {} /\ lanes[l].state = "active"
  BY DEF Init, Owned, Own, AbsentLease
<1>. QED BY <1>1 DEF Abs!Init

LEMMA OwnedStep ==
  TypeOK /\ TypeOK' /\ LocksInv /\ ExtendInv /\ WorkInv /\ [Next]_vars
    => [Abs!Next]_<<[l \in Lane |-> Owned(l)], [l \in Lane |-> lanes[l].state = "active"]>>
<1>. DEFINE held == [l \in Lane |-> Owned(l)]
            open == [l \in Lane |-> lanes[l].state = "active"]
<1>. SUFFICES ASSUME TypeOK, TypeOK', LocksInv, ExtendInv, WorkInv, [Next]_vars
              PROVE  Abs!Next \/ (held' = held /\ open' = open)
  OBVIOUS
<1>1. CASE UNCHANGED vars
  BY <1>1, OwnedKept DEF vars
<1>2. CASE Tick
  <2>1. \A i \in LeaseId : ActiveAt(i, clock)' => ActiveAt(i, clock)
    BY <1>2 DEF Tick, ActiveAt, TypeOK, LeaseRecord
  <2>2. \A l \in Lane : Owned(l)' \subseteq Owned(l)
    BY <1>2, <2>1 DEF Tick, Owned, Own
  <2>. QED BY <1>2, <2>2, OwnedLapses DEF Tick, Abs!Next
<1>. SUFFICES ASSUME NEW p \in Proc, Starts(p) \/ Step(p) \/ Stop(p)
              PROVE  Abs!Next \/ (held' = held /\ open' = open)
  BY <1>1, <1>2 DEF Next
<1>3. HoldsLocks(p) /\ ExtendsSafely(p) /\ WorksOn(p)
  BY DEF LocksInv, ExtendInv, WorkInv
<1>4. clock' = clock /\ clock \in Nat /\ \A i \in LeaseId : leases[i].expires \in Nat
  BY LeaseEffects DEF TypeOK, LeaseRecord
<1>5. CASE leases' = leases /\ lanes' = lanes
  BY <1>4, <1>5, OwnedKept
<1>6. CASE CreateLease(p)
  <2>0. PICK l \in Lane : l = target[p]
    BY <1>6 DEF CreateLease, TypeOK
  <2>1. PICK k \in LeaseId :
           /\ leases[k].state = "absent"
           /\ leases'[k].state = "active" /\ leases'[k].lane = l
           /\ leases'[k].paths = want[p]
           /\ \A m \in LeaseId \ {k} : leases'[m] = leases[m]
    BY <1>6, <2>0, CreateEffect
  <2>2. lanes' = lanes /\ l = target[p] /\ want[p] \in SUBSET Path /\ pc[p] = "claim"
    BY <1>6, <2>0 DEF CreateLease, TypeOK
  <2>3. lanes[l].state = "active" /\ now[p] \in 0..clock
    BY <1>3, <2>2 DEF HoldsLocks
  <2>4. \A m \in Lane \ {l} : Owned(m)' = Owned(m)
    BY <1>4, <2>1 DEF Owned, Own, ActiveAt
  <2>5. CASE ActiveAt(k, clock)'
    <3>1. Owned(l)' = Owned(l) \cup want[p]
      BY <1>4, <2>1, <2>5 DEF Owned, Own, ActiveAt
    <3>2. ASSUME NEW m \in Lane \ {l}, ScopesOverlap(want[p], Owned(m))
          PROVE  FALSE
      <4>1. PICK x \in want[p], y \in Owned(m) : Overlap(x, y)
        BY <3>2 DEF ScopesOverlap
      <4>2. PICK j \in Own(m) : ActiveAt(j, clock) /\ y \in leases[j].paths
        BY <4>1 DEF Owned
      <4>3. ActiveAt(j, now[p]) /\ j \in LeaseId /\ leases[j].lane # l
        BY <1>4, <2>3, <4>2 DEF ActiveAt, Own
      <4>4. j \in Blocking(p)
        BY <2>0, <4>1, <4>2, <4>3 DEF Blocking, ScopesOverlap
      <4>. QED BY <1>6, <4>4 DEF CreateLease
    <3>3. Abs!Gain(l, want[p])
      BY <2>2, <2>3, <2>4, <3>1, <3>2, OwnedGains
    <3>. QED BY <2>2, <3>3 DEF Abs!Next
  <2>6. CASE ~ActiveAt(k, clock)'
    <3>1. Owned(l)' = Owned(l)
      BY <1>4, <2>1, <2>6 DEF Owned, Own, ActiveAt
    <3>2. held' = held
      BY <2>4, <3>1
    <3>. QED BY <2>2, <3>2
  <2>. QED BY <2>5, <2>6
<1>7. CASE Extend(p)
  <2>0. PICK l \in Lane : l = target[p]
    BY <1>7 DEF Extend, TypeOK
  <2>1. PICK k \in todo[p] :
           /\ k \in LeaseId
           /\ \A m \in LeaseId :
                /\ leases'[m].state = leases[m].state
                /\ leases'[m].lane = leases[m].lane
                /\ leases'[m].paths = leases[m].paths
                /\ m # k => leases'[m].expires = leases[m].expires
    BY <1>7, ExtendEffect
  <2>2. lanes' = lanes /\ l = target[p] /\ pc[p] = "extend"
    BY <1>7, <2>0 DEF Extend, TypeOK
  <2>3. lanes[l].state = "active" /\ now[p] \in 0..clock
    BY <1>3, <2>2 DEF HoldsLocks
  <2>4. leases[k].state = "active" /\ leases[k].lane = l /\ leases[k].paths \in SUBSET Path
    BY <1>3, <2>1, <2>2 DEF ExtendsSafely, TypeOK, LeaseRecord
  <2>5. \A m \in Lane \ {l} : Owned(m)' = Owned(m)
    BY <1>4, <2>1, <2>4 DEF Owned, Own, ActiveAt
  <2>6. CASE ActiveAt(k, clock)'
    <3>1. Owned(l)' = Owned(l) \cup leases[k].paths
      <4>1. \A m \in LeaseId : ActiveAt(m, clock) => ActiveAt(m, clock)'
        BY <1>4, <2>1, <2>6 DEF ActiveAt
      <4>2. \A m \in LeaseId : ActiveAt(m, clock)' => ActiveAt(m, clock) \/ m = k
        BY <1>4, <2>1 DEF ActiveAt
      <4>3. Own(l)' = Own(l) /\ k \in Own(l)
        BY <2>1, <2>2, <2>4 DEF Own
      <4>. QED BY <2>1, <2>6, <4>1, <4>2, <4>3 DEF Owned, Own
    <3>2. ASSUME NEW m \in Lane \ {l}, ScopesOverlap(leases[k].paths, Owned(m))
          PROVE  FALSE
      <4>1. PICK x \in leases[k].paths, y \in Owned(m) : Overlap(x, y)
        BY <3>2 DEF ScopesOverlap
      <4>2. PICK j \in Own(m) : ActiveAt(j, clock) /\ y \in leases[j].paths
        BY <4>1 DEF Owned
      <4>3. j \in LeaseId /\ leases[j].state = "active" /\ Clash(k, j)
        BY <2>4, <4>1, <4>2 DEF ActiveAt, Own, Clash, ScopesOverlap
      <4>4. leases[j].expires <= now[p]
        BY <1>3, <2>2, <4>3 DEF ExtendsSafely
      <4>. QED BY <1>4, <2>3, <4>2, <4>3, <4>4 DEF ActiveAt
    <3>3. Abs!Gain(l, leases[k].paths)
      BY <2>2, <2>3, <2>4, <2>5, <3>1, <3>2, OwnedGains
    <3>. QED BY <2>2, <2>4, <3>3 DEF Abs!Next
  <2>7. CASE ~ActiveAt(k, clock)'
    <3>1. \A m \in LeaseId : ActiveAt(m, clock)' => ActiveAt(m, clock)
      BY <1>4, <2>1, <2>7 DEF ActiveAt
    <3>2. \A n \in Lane : Owned(n)' \subseteq Owned(n)
      BY <2>1, <3>1 DEF Owned, Own
    <3>. QED BY <2>2, <3>2, OwnedLapses DEF Abs!Next
  <2>. QED BY <2>6, <2>7
<1>8. CASE Retire(p)
  <2>1. PICK k \in todo[p] :
           /\ k \in LeaseId /\ leases'[k].state = "released"
           /\ \A m \in LeaseId :
                /\ m # k => leases'[m].state = leases[m].state
                /\ leases'[m].lane = leases[m].lane
                /\ leases'[m].paths = leases[m].paths
                /\ leases'[m].expires = leases[m].expires
    BY <1>8, RetireEffect
  <2>2. \A m \in LeaseId : ActiveAt(m, clock)' => ActiveAt(m, clock)
    BY <1>4, <2>1 DEF ActiveAt
  <2>3. \A l \in Lane : Owned(l)' \subseteq Owned(l)
    BY <2>1, <2>2 DEF Owned, Own, ActiveAt
  <2>. QED BY <1>8, <2>3, OwnedLapses DEF Abs!Next, Retire
<1>9. CASE (RepairLink(p) \/ ListLease(p)) /\ leases' = leases
  <2>1. \E ids : lanes' = [lanes EXCEPT ![target[p]].leaseIds = @ \cup ids]
    BY <1>9 DEF RepairLink, ListLease
  <2>2. \A l \in Lane : lanes'[l].state = lanes[l].state
    BY <2>1 DEF TypeOK, LaneRecord
  <2>. QED BY <1>4, <1>9, <2>2, OwnedKept
<1>10. CASE CloseLane(p) /\ leases' = leases
  <2>0. PICK l \in Lane : l = target[p]
    BY <1>10 DEF CloseLane, TypeOK
  <2>1. pc[p] = "retire" /\ todo[p] = {}
    BY <1>10 DEF CloseLane
  <2>2. Owned(l) = {}
    BY <1>3, <2>0, <2>1 DEF WorksOn, Owned, ActiveAt
  <2>3. lanes'[l].state # "active" /\ \A m \in Lane \ {l} : lanes'[m] = lanes[m]
    BY <1>10, <2>0 DEF CloseLane, TypeOK, LaneRecord
  <2>4. open' = [open EXCEPT ![l] = FALSE]
    BY <2>1, <2>3
  <2>5. held' = held
    BY <1>4, <1>10, OwnedKept
  <2>6. Abs!Close(l)
    BY <2>1, <2>2, <2>4, <2>5 DEF Abs!Close
  <2>. QED BY <2>1, <2>6 DEF Abs!Next
<1>. QED BY <1>5, <1>6, <1>7, <1>8, <1>9, <1>10, LeaseEffects, LaneEffects

\* Seen through the scopes owned now, the registry is PathOwnership: gained by
\* one open lane at a time and only when free, lapsing at any time, closed for
\* good only when empty.
THEOREM ImplementsOwnership == Spec => OwnershipSpec
BY OwnedInit, OwnedStep, RegistryInv, PTL DEF Spec, OwnershipSpec, Abs!Spec
=============================================================================
