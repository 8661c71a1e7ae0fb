------------------------ MODULE RegistryDoctorProofs ------------------------
(***************************************************************************)
(* Theorems about the audit of RegistryDoctor, for every set of commands,  *)
(* lanes, leases and paths, every lease lifetime and every clock bound.    *)
(***************************************************************************)
EXTENDS RegistryDoctor, LeaseRegistryProofs

\* What LeaseRegistryProofs shows of the registry alone.
RegistryOK ==
  TypeOK /\ LocksInv /\ ExtendInv /\ NoCrossLaneOverlap /\ LinksInv /\ WorkInv
-----------------------------------------------------------------------------
(* What one step of the registry leaves alone. *)

\* A stored lease stays stored with its lane and paths; a released one stays so.
LEMMA LeaseFrame ==
  ASSUME RegistryOK, [Next]_vars, NEW i \in LeaseId, leases[i].state # "absent"
  PROVE  /\ leases'[i].state # "absent"
         /\ leases'[i].lane = leases[i].lane /\ leases'[i].paths = leases[i].paths
         /\ leases[i].state = "released" => leases'[i].state = "released"
<1>. USE DEF RegistryOK
<1>1. CASE leases' = leases
  BY <1>1
<1>2. CASE UNCHANGED vars \/ Tick
  BY <1>1, <1>2 DEF vars, Tick
<1>. SUFFICES ASSUME NEW p \in Proc, Starts(p) \/ Step(p) \/ Stop(p),
                     CreateLease(p) \/ Extend(p) \/ Retire(p)
              PROVE  /\ leases'[i].state # "absent"
                     /\ leases'[i].lane = leases[i].lane /\ leases'[i].paths = leases[i].paths
                     /\ leases[i].state = "released" => leases'[i].state = "released"
  BY <1>1, <1>2, LeaseEffects DEF Next
<1>3. CASE CreateLease(p)
  BY <1>3, CreateEffect
<1>4. CASE Extend(p)
  BY <1>4, ExtendEffect
<1>5. CASE Retire(p)
  BY <1>5, RetireEffect
<1>. QED BY <1>3, <1>4, <1>5

\* Back-references are never taken out of a manifest, a closed lane stays closed.
LEMMA LaneFrame ==
  ASSUME RegistryOK, [Next]_vars, NEW l \in Lane
  PROVE  /\ lanes[l].leaseIds \subseteq lanes'[l].leaseIds
         /\ lanes[l].state # "active" => lanes'[l].state # "active"
<1>. USE DEF RegistryOK
<1>1. CASE lanes' = lanes
  BY <1>1
<1>2. CASE UNCHANGED vars \/ Tick
  BY <1>1, <1>2 DEF vars, Tick
<1>. SUFFICES ASSUME NEW p \in Proc, target[p] \in Lane,
                     RepairLink(p) \/ ListLease(p) \/ CloseLane(p)
              PROVE  /\ lanes[l].leaseIds \subseteq lanes'[l].leaseIds
                     /\ lanes[l].state # "active" => lanes'[l].state # "active"
  BY <1>1, <1>2, LaneEffects DEF Next
<1>3. lanes[l] \in LaneRecord /\ lanes[target[p]] \in LaneRecord
  BY DEF TypeOK
<1>4. CASE RepairLink(p)
  BY <1>3, <1>4 DEF RepairLink, TypeOK, LaneRecord
<1>5. CASE ListLease(p)
  BY <1>3, <1>5 DEF ListLease, TypeOK, LaneRecord
<1>6. CASE CloseLane(p)
  BY <1>3, <1>6 DEF CloseLane, TypeOK, LaneRecord
<1>. QED BY <1>4, <1>5, <1>6

\* A new lease belongs to a lane.
LEMMA StoredHaveLane ==
  ASSUME RegistryOK, [Next]_vars,
         \A i \in LeaseId : leases[i].state # "absent" => leases[i].lane \in Lane,
         NEW i \in LeaseId, leases'[i].state # "absent"
  PROVE  leases'[i].lane \in Lane
<1>. USE DEF RegistryOK
<1>1. CASE leases[i].state # "absent"
  BY <1>1, LeaseFrame
<1>2. CASE leases' = leases
  BY <1>2
<1>3. CASE UNCHANGED vars \/ Tick
  BY <1>2, <1>3 DEF vars, Tick
<1>. SUFFICES ASSUME NEW p \in Proc, leases[i].state = "absent",
                     CreateLease(p) \/ Extend(p) \/ Retire(p)
              PROVE  leases'[i].lane \in Lane
  BY <1>1, <1>2, <1>3, LeaseEffects DEF Next
<1>4. CASE CreateLease(p)
  <2>1. target[p] \in Lane
    BY <1>4 DEF CreateLease, TypeOK
  <2>. QED BY <1>4, <2>1, CreateEffect
<1>5. CASE Extend(p)
  BY <1>5, ExtendEffect
<1>6. CASE Retire(p)
  <2>1. HoldsLocks(p) /\ WorksOn(p)
    BY DEF LocksInv, WorkInv
  <2>2. todo[p] \subseteq Own(target[p])
    BY <1>6, <2>1 DEF Retire, WorksOn
  <2>3. \A k \in todo[p] : leases[k].state # "absent"
    BY <2>2 DEF Own
  <2>. QED BY <1>6, <2>3, RetireEffect
<1>. QED BY <1>4, <1>5, <1>6

LEMMA ClockFrame ==
  ASSUME TypeOK, LocksInv, [Next]_vars
  PROVE  clock \in Nat /\ clock' \in Nat /\ clock <= clock'
<1>1. clock' = clock \/ clock' = clock + 1
  BY LeaseEffects DEF Next, vars, Tick
<1>. QED BY <1>1 DEF TypeOK

\* A lease that is over at time t stays over: whoever starts extending later
\* sees it expired.
LEMMA OverStays ==
  ASSUME RegistryOK, [Next]_vars, NEW i \in LeaseId, leases[i].state # "absent",
         NEW t \in Nat, t <= clock, OverAt(i, t)
  PROVE  OverAt(i, t)'
<1>. USE DEF RegistryOK
<1>1. CASE leases[i].state = "released"
  BY <1>1, LeaseFrame DEF OverAt
<1>2. CASE UNCHANGED vars \/ Tick
  BY <1>2 DEF OverAt, vars, Tick, locals
<1>. SUFFICES ASSUME leases[i].expires <= t, \A q \in Proc : pc[q] = "extend" => i \notin todo[q],
                     NEW p \in Proc, Starts(p) \/ Step(p) \/ Stop(p)
              PROVE  OverAt(i, t)'
  BY <1>1, <1>2 DEF OverAt, Next
<1>3. leases'[i].state = "released" \/ leases'[i].expires <= t
  <2>1. CASE CreateLease(p)
    BY <2>1, CreateEffect
  <2>2. CASE Extend(p)
    <3>1. pc[p] = "extend"
      BY <2>2 DEF Extend
    <3>. QED BY <2>2, <3>1, ExtendEffect
  <2>3. CASE Retire(p)
    BY <2>3, RetireEffect
  <2>. QED BY <2>1, <2>2, <2>3, LeaseEffects
<1>4. ASSUME NEW q \in Proc, pc'[q] = "extend", leases'[i].state # "released"
      PROVE  i \notin todo'[q]
  <2>1. CASE q # p
    BY <1>4, <2>1, OthersUnmoved
  <2>2. CASE q = p /\ (RenewBegin(p) \/ FenceBegin(p))
    <3>1. todo'[p] = OwnActive(p)
      BY <2>2 DEF RenewBegin, FenceBegin, EnterRegistry, TypeOK
    <3>2. ~ActiveAt(i, clock)
      BY DEF ActiveAt, TypeOK, LeaseRecord
    <3>. QED BY <2>2, <3>1, <3>2 DEF OwnActive
  <2>3. CASE q = p /\ Extend(p)
    <3>1. pc[p] = "extend" /\ todo'[p] \subseteq todo[p]
      BY <2>3, ExtendEffect DEF Extend
    <3>. QED BY <2>3, <3>1
  <2>4. CASE q = p /\ (\/ Starts(p) \/ Refuse(p) \/ ListLease(p) \/ CloseLane(p)
                       \/ LockLane(p) \/ FenceDone(p) \/ Beat(p) \/ CreateLease(p)
                       \/ RepairLink(p) \/ Retire(p) \/ ClaimBegin(p) \/ ReleaseBegin(p))
    <3>1. CASE Starts(p)
      BY <1>4, <2>4, <3>1 DEF Starts, Start, TypeOK
    <3>2. CASE Refuse(p) \/ ListLease(p) \/ CloseLane(p)
      BY <1>4, <2>4, <3>2 DEF Refuse, ListLease, CloseLane, End, TypeOK
    <3>3. CASE \/ LockLane(p) \/ FenceDone(p) \/ Beat(p) \/ CreateLease(p)
               \/ RepairLink(p) \/ Retire(p)
      BY <1>4, <2>4, <3>3 DEF LockLane, FenceDone, Beat, CreateLease, RepairLink, Retire, TypeOK
    <3>4. CASE ClaimBegin(p) \/ ReleaseBegin(p)
      BY <1>4, <2>4, <3>4 DEF ClaimBegin, ReleaseBegin, EnterRegistry, TypeOK
    <3>. QED BY <2>4, <3>1, <3>2, <3>3, <3>4
  <2>. QED
    BY <2>1, <2>2, <2>3, <2>4
    DEF Step, Stop, LaneRefused, ClaimRefused, ClaimSettled, RenewRefused, RenewDone,
        FenceRefused, CaptureDone, ReleaseRefused
<1>. QED BY <1>3, <1>4 DEF OverAt

\* At any moment one of two stored leases that overlap is over.
LEMMA OneIsOver ==
  ASSUME RegistryOK, NEW i \in LeaseId, NEW j \in LeaseId,
         leases[i].state # "absent", leases[j].state # "absent", Clash(i, j)
  PROVE  OverAt(i, clock) \/ OverAt(j, clock)
<1>. USE DEF RegistryOK
<1>1. ASSUME NEW a \in LeaseId, NEW b \in LeaseId, Clash(a, b), leases[b].state = "active",
             leases[a].expires <= clock
      PROVE  OverAt(a, clock) \/ OverAt(b, clock)
  <2>1. CASE \A p \in Proc : pc[p] = "extend" => a \notin todo[p]
    BY <1>1, <2>1 DEF OverAt
  <2>2. CASE \E p \in Proc : pc[p] = "extend" /\ a \in todo[p]
    <3>1. PICK p \in Proc : pc[p] = "extend" /\ a \in todo[p]
      BY <2>2
    <3>2. /\ ExtendsSafely(p) /\ registry = p /\ now[p] \in 0..clock
          /\ \A q \in Proc : pc[q] = "extend" => registry = q
      BY <3>1 DEF ExtendInv, LocksInv, HoldsLocks
    <3>3. leases[b].expires <= now[p] /\ leases[a].lane = target[p]
      BY <1>1, <3>1, <3>2 DEF ExtendsSafely
    <3>4. leases[b].expires <= clock
      <4>1. leases[b].expires \in Nat /\ clock \in Nat
        BY DEF TypeOK, LeaseRecord
      <4>. QED BY <3>2, <3>3, <4>1
    <3>5. b \notin todo[p]
      BY <1>1, <3>1, <3>2, <3>3 DEF ExtendsSafely, Clash
    <3>. QED BY <3>2, <3>4, <3>5 DEF OverAt
  <2>. QED BY <2>1, <2>2
<1>2. \A k \in {i, j} : leases[k].state \in {"active", "released"} /\ leases[k].expires \in Nat
  BY DEF TypeOK, LeaseRecord
<1>3. CASE leases[i].state = "released" \/ leases[j].state = "released"
  BY <1>3 DEF OverAt
<1>4. CASE leases[i].state = "active" /\ leases[j].state = "active"
  <2>1. ~ActiveAt(i, clock) \/ ~ActiveAt(j, clock)
    BY DEF NoCrossLaneOverlap, ConflictAt
  <2>2. leases[i].expires <= clock \/ leases[j].expires <= clock
    BY <1>2, <1>4, <2>1 DEF ActiveAt, TypeOK
  <2>. QED BY <1>1, <1>4, <2>2, ClashSymmetric
<1>. QED BY <1>2, <1>3, <1>4
-----------------------------------------------------------------------------
(* The audit invariant. *)

LEMMA AuditInvInit == AuditInit => AuditInv
<1>. SUFFICES ASSUME AuditInit PROVE AuditInv
  OBVIOUS
<1>. USE DEF AuditInit, AuditOff
<1>1. AuditTypeOK
  BY DEF AuditTypeOK, Stages, UnreadLane, NoLaneRead, AbsentLease, LeaseRecord, Never
<1>2. SeenLanes
  BY DEF SeenLanes, UnreadLane, NoLaneRead
<1>3. GoneIsClosed /\ SeenListing
  BY DEF GoneIsClosed, SeenListing, Init, AbsentLease
<1>4. SeenLeases
  BY DEF SeenLeases, AbsentLease
<1>5. SeenApart
  BY DEF SeenApart
<1>. QED BY <1>1, <1>2, <1>3, <1>4, <1>5 DEF AuditInv

\* An audit step leaves the registry and the archive as they are, a step of the
\* registry or of an archive run the audit.
LEMMA AuditFrame ==
  ASSUME [AuditNext]_auditVars
  PROVE  /\ [Next]_vars
         /\ \/ /\ UNCHANGED audit /\ damaged' \subseteq damaged
               /\ \/ damaged' = damaged /\ UNCHANGED vars
                  \/ damaged' \subseteq Damaged'
            \/ Audit /\ UNCHANGED <<vars, shelf>>
         /\ \/ UNCHANGED shelf
            \/ UNCHANGED <<vars, audit, damaged>> /\ \E l \in Lane : ArchiveLane(l)
<1>1. CASE Work
  BY <1>1 DEF Work
<1>2. CASE Audit
  BY <1>2 DEF Audit, AuditStart, ListLeases, ReadClock, AuditEnd, ReadLane, ReadLease
<1>3. CASE UNCHANGED auditVars
  BY <1>3 DEF auditVars
<1>4. CASE \E l \in Lane : ArchiveLane(l)
  BY <1>4 DEF ArchiveLane
<1>. QED BY <1>1, <1>2, <1>3, <1>4 DEF AuditNext

LEMMA AuditTypeStep ==
  ASSUME TypeOK, AuditTypeOK, [AuditNext]_auditVars
  PROVE  AuditTypeOK'
<1>1. away' \subseteq Lane /\ gone' \subseteq LeaseId
  <2>1. CASE UNCHANGED shelf
    BY <2>1 DEF shelf, AuditTypeOK
  <2>2. ASSUME NEW l \in Lane, ArchiveLane(l) PROVE away' \subseteq Lane /\ gone' \subseteq LeaseId
    BY <2>2 DEF ArchiveLane, Own, AuditTypeOK
  <2>. QED BY <2>1, <2>2, AuditFrame
<1>2. \A why \in {"unread", "unlisted", "refused"} :
        NoLaneRead(why) \in {NoLaneRead(w) : w \in {"unread"} \cup Skipped}
  BY DEF Skipped
<1>3. UnreadLane \in {NoLaneRead(w) : w \in {"unread"} \cup Skipped}
  BY <1>2 DEF UnreadLane
<1>. USE DEF AuditTypeOK, Stages
<1>4. CASE UNCHANGED audit /\ damaged' \subseteq damaged
  BY <1>1, <1>4 DEF audit
<1>5. CASE AuditStart
  BY <1>1, <1>2, <1>3, <1>5 DEF AuditStart, Damaged
<1>6. ASSUME NEW l \in Lane, ReadLane(l) PROVE AuditTypeOK'
  <2>1. lanes[l] \in LaneRecord
    BY DEF TypeOK
  <2>. QED BY <1>1, <1>2, <1>6, <2>1 DEF ReadLane
<1>7. CASE ListLeases
  BY <1>1, <1>7 DEF ListLeases, Stored
<1>8. CASE ReadClock
  BY <1>1, <1>8 DEF ReadClock, TypeOK
<1>9. ASSUME NEW i \in LeaseId, ReadLease(i) PROVE AuditTypeOK'
  <2>1. leases[i] \in LeaseRecord
    BY DEF TypeOK
  <2>2. leaseReads' = [leaseReads EXCEPT ![i] = leases[i]] \/ leaseReads' = [leaseReads EXCEPT ![i] = RefusedLease]
    BY <1>9 DEF ReadLease
  <2>3. leaseReads' \in [LeaseId -> LeaseRecord \cup {RefusedLease}]
    BY <2>1, <2>2
  <2>4. UNCHANGED <<stage, laneReads, listed, readAt, damaged>>
    BY <1>9 DEF ReadLease
  <2>. QED BY <1>1, <2>3, <2>4
<1>10. CASE AuditEnd
  <2>1. AbsentLease \in LeaseRecord
    BY DEF AbsentLease, LeaseRecord
  <2>. QED BY <1>1, <1>3, <1>10, <2>1 DEF AuditEnd, Never
<1>. QED BY <1>4, <1>5, <1>6, <1>7, <1>8, <1>9, <1>10, AuditFrame DEF Audit

\* What is archived stays closed: nothing reopens a lane or revives a lease.
LEMMA GoneStep ==
  ASSUME RegistryOK, AuditTypeOK, SeenListing, GoneIsClosed, [AuditNext]_auditVars
  PROVE  GoneIsClosed'
<1>. USE DEF RegistryOK
<1>1. CASE UNCHANGED shelf
  <2>1. ASSUME NEW l \in away PROVE lanes'[l].state # "active"
    BY <2>1, AuditFrame, LaneFrame DEF GoneIsClosed, AuditTypeOK
  <2>2. ASSUME NEW i \in gone
        PROVE  /\ leases'[i].state = "released" /\ leases'[i].lane \in Lane
               /\ i \in lanes'[leases'[i].lane].leaseIds
               /\ lanes'[leases'[i].lane].state # "active"
    <3>1. i \in LeaseId /\ leases[i].state = "released" /\ leases[i].lane \in Lane
          /\ i \in lanes[leases[i].lane].leaseIds /\ lanes[leases[i].lane].state # "active"
      BY <2>2 DEF GoneIsClosed, AuditTypeOK
    <3>2. leases'[i].state = "released" /\ leases'[i].lane = leases[i].lane
      BY <3>1, AuditFrame, LeaseFrame
    <3>3. lanes[leases[i].lane].leaseIds \subseteq lanes'[leases[i].lane].leaseIds
          /\ lanes'[leases[i].lane].state # "active"
      BY <3>1, AuditFrame, LaneFrame
    <3>. QED BY <3>1, <3>2, <3>3
  <2>. QED BY <1>1, <2>1, <2>2 DEF GoneIsClosed, shelf
<1>2. ASSUME NEW l \in Lane, ArchiveLane(l) PROVE GoneIsClosed'
  <2>1. /\ lanes[l].state # "active" /\ LaneLinksOK(l) /\ UNCHANGED <<lanes, leases>>
        /\ away' \subseteq away \cup {l} /\ gone' \subseteq gone \cup Own(l)
    BY <1>2 DEF ArchiveLane, vars
  <2>2. ASSUME NEW i \in Own(l)
        PROVE  /\ leases[i].state = "released" /\ leases[i].lane = l /\ i \in lanes[l].leaseIds
    BY <2>1, <2>2 DEF LaneLinksOK, Own
  <2>. QED BY <2>1, <2>2 DEF GoneIsClosed
<1>. QED BY <1>1, <1>2, AuditFrame

LEMMA SeenLanesStep ==
  ASSUME RegistryOK, AuditTypeOK, SeenLanes, GoneIsClosed, [AuditNext]_auditVars
  PROVE  SeenLanes'
<1>. USE DEF RegistryOK
<1>1. CASE UNCHANGED audit
  <2>. SUFFICES ASSUME NEW l \in Lane
                PROVE  /\ laneReads'[l].leaseIds \subseteq lanes'[l].leaseIds
                       /\ laneReads'[l].state \in {"released", "aborted", "unlisted"} =>
                            lanes'[l].state # "active"
    BY DEF SeenLanes
  <2>1. laneReads' = laneReads /\ [Next]_vars
    BY <1>1, AuditFrame DEF audit
  <2>. QED BY <2>1, LaneFrame DEF SeenLanes
<1>2. CASE UNCHANGED <<vars, laneReads>>
  BY <1>2 DEF SeenLanes, vars
<1>3. CASE ListLeases \/ ReadClock \/ \E i \in LeaseId : ReadLease(i)
  BY <1>2, <1>3 DEF ListLeases, ReadClock, ReadLease
<1>4. ASSUME NEW l \in Lane, ReadLane(l) PROVE SeenLanes'
  BY <1>4 DEF ReadLane, NoLaneRead, SeenLanes, AuditTypeOK, vars
<1>5. CASE AuditEnd
  BY <1>5 DEF AuditEnd, SeenLanes, UnreadLane, NoLaneRead
<1>6. CASE AuditStart
  BY <1>6 DEF AuditStart, SeenLanes, GoneIsClosed, UnreadLane, NoLaneRead, vars
<1>. QED BY <1>1, <1>3, <1>4, <1>5, <1>6, AuditFrame DEF Audit

LEMMA SeenListingStep ==
  ASSUME RegistryOK, AuditTypeOK, SeenLanes, GoneIsClosed, SeenListing, [AuditNext]_auditVars
  PROVE  SeenListing'
<1>. USE DEF RegistryOK
<1>1. \A i \in LeaseId : leases'[i].state # "absent" => leases'[i].lane \in Lane
  BY AuditFrame, StoredHaveLane DEF SeenListing
<1>2. CASE /\ UNCHANGED audit /\ damaged' \subseteq damaged
           /\ \/ damaged' = damaged /\ UNCHANGED vars
              \/ damaged' \subseteq Damaged'
  <2>1. damaged' \subseteq Damaged'
    BY <1>2 DEF SeenListing, Damaged, Unlisted, Own, vars
  <2>2. \A i \in listed : leases[i].state # "absent" => leases'[i].state # "absent"
    BY AuditFrame, LeaseFrame DEF AuditTypeOK
  <2>3. 0..clock \subseteq 0..clock'
    BY AuditFrame, ClockFrame
  <2>4. gone \subseteq gone'
    BY AuditFrame DEF shelf, ArchiveLane
  <2>. QED BY <1>1, <1>2, <2>1, <2>2, <2>3, <2>4 DEF SeenListing, audit
<1>3. CASE AuditStart
  BY <1>1, <1>3 DEF AuditStart, SeenListing, Damaged, Unlisted, Own, vars
<1>4. ASSUME NEW l \in Lane, ReadLane(l) PROVE SeenListing'
  BY <1>1, <1>4 DEF ReadLane, SeenListing, Damaged, Unlisted, Own, vars
<1>5. CASE ListLeases
  <2>1. \A l \in Lane : laneReads[l].leaseIds \subseteq Stored \cup gone
    <3>. SUFFICES ASSUME NEW l \in Lane PROVE laneReads[l].leaseIds \subseteq Stored \cup gone
      OBVIOUS
    <3>1. laneReads[l].leaseIds \subseteq lanes[l].leaseIds
      BY DEF SeenLanes
    <3>2. lanes[l].leaseIds \subseteq Own(l)
      BY DEF LinksInv, LinksOf
    <3>. QED BY <3>1, <3>2 DEF Own, Stored
  <2>2. damaged \subseteq Stored
    BY DEF SeenListing, Damaged, GoneIsClosed, Stored, Unlisted
  <2>3. /\ UNCHANGED <<vars, shelf, laneReads, damaged>> /\ stage' = "time" /\ listed' = Stored
        /\ \A l \in Lane : laneReads[l] # UnreadLane
    BY <1>5 DEF ListLeases
  <2>4. damaged' \subseteq Damaged'
    BY <2>3 DEF SeenListing, Damaged, Unlisted, Own, vars
  <2>5. \A i \in Stored : leases[i].state # "absent"
    BY DEF Stored
  <2>. QED BY <1>1, <2>1, <2>2, <2>3, <2>4, <2>5 DEF SeenListing, vars, shelf
<1>6. CASE ReadClock
  <2>1. clock \in Nat
    BY DEF TypeOK
  <2>. QED BY <1>1, <1>6, <2>1 DEF ReadClock, SeenListing, Damaged, Unlisted, Own, vars, shelf
<1>7. ASSUME NEW i \in LeaseId, ReadLease(i) PROVE SeenListing'
  BY <1>1, <1>7 DEF ReadLease, SeenListing, Damaged, Unlisted, Own, vars, shelf
<1>8. CASE AuditEnd
  BY <1>1, <1>8 DEF AuditEnd, SeenListing
<1>. QED BY <1>2, <1>3, <1>4, <1>5, <1>6, <1>7, <1>8, AuditFrame DEF Audit

\* What SeenLeases says of one lease that was read.
ReadAgrees(i) ==
  Read(i) => /\ leaseReads[i].lane = leases[i].lane /\ leaseReads[i].paths = leases[i].paths
             /\ LaneOf(i).state \in {"released", "aborted"} => leaseReads[i].state = "released"
             /\ i \in damaged => FindUnlisted(i) \/ FindHalfReleased(i)
                                  \/ LaneOf(i).state = "refused"

LEMMA SeenLeasesStep ==
  ASSUME RegistryOK, AuditTypeOK, SeenLanes, GoneIsClosed, SeenListing, SeenLeases,
         [AuditNext]_auditVars
  PROVE  SeenLeases'
<1>. USE DEF RegistryOK
<1>1. CASE UNCHANGED audit /\ damaged' \subseteq damaged
  <2>. SUFFICES ASSUME NEW i \in LeaseId, leaseReads[i].state # "absent"
                PROVE  /\ leaseReads[i].lane = leases[i].lane => leaseReads[i].lane = leases'[i].lane
                       /\ leaseReads[i].paths = leases[i].paths => leaseReads[i].paths = leases'[i].paths
    BY <1>1 DEF SeenLeases, audit, FindUnlisted, FindHalfReleased, Bound, LaneOf, Read
  <2>1. leases[i].state # "absent"
    BY DEF SeenLeases, SeenListing
  <2>. QED BY <2>1, AuditFrame, LeaseFrame
<1>2. CASE AuditStart \/ ListLeases \/ ReadClock \/ \E l \in Lane : ReadLane(l)
  <2>1. stage # "leases" /\ leaseReads' = leaseReads
    BY <1>2 DEF AuditStart, ListLeases, ReadClock, ReadLane
  <2>. QED BY <2>1 DEF SeenLeases
<1>3. ASSUME NEW i \in LeaseId, ReadLease(i) PROVE SeenLeases'
  <2>1. /\ stage = "leases" /\ i \in listed /\ leases[i].state # "absent"
        /\ \/ leaseReads' = [leaseReads EXCEPT ![i] = leases[i]]
           \/ leaseReads' = [leaseReads EXCEPT ![i] = RefusedLease]
        /\ UNCHANGED <<vars, stage, laneReads, listed, damaged>>
    BY <1>3 DEF ReadLease, Unread, SeenListing
  <2>2. ASSUME NEW k \in LeaseId, k # i, leaseReads'[k].state # "absent"
        PROVE  k \in listed' /\ stage' = "leases" /\ ReadAgrees(k)'
    <3>1. leaseReads'[k] = leaseReads[k]
      BY <2>1, <2>2 DEF AuditTypeOK
    <3>2. k \in listed /\ stage = "leases" /\ ReadAgrees(k)
      BY <2>2, <3>1 DEF SeenLeases, ReadAgrees
    <3>. QED BY <2>1, <3>1, <3>2
         DEF ReadAgrees, vars, FindUnlisted, FindHalfReleased, Bound, LaneOf, Read
  <2>3. CASE leaseReads' = [leaseReads EXCEPT ![i] = RefusedLease]
    <3>1. leaseReads'[i] = RefusedLease
      BY <2>3 DEF AuditTypeOK
    <3>2. ~Read(i)'
      BY <3>1 DEF Read, RefusedLease, AbsentLease
    <3>. QED BY <2>1, <2>2, <3>2 DEF SeenLeases, ReadAgrees
  <2>4. CASE leaseReads' = [leaseReads EXCEPT ![i] = leases[i]]
    <3>1. leaseReads'[i] = leases[i]
      BY <2>4 DEF AuditTypeOK
    <3>2. /\ leases[i].lane \in Lane /\ laneReads[leases[i].lane] # UnreadLane
          /\ laneReads[leases[i].lane].leaseIds \subseteq lanes[leases[i].lane].leaseIds
          /\ laneReads[leases[i].lane].state \in {"released", "aborted", "unlisted"} =>
               lanes[leases[i].lane].state # "active"
      BY <2>1 DEF SeenLanes, SeenListing
    <3>3. lanes[leases[i].lane].state # "active" =>
            leases[i].state = "released" /\ i \notin Unlisted(leases[i].lane)
      <4>1. LinksOf(leases[i].lane)
        BY <3>2 DEF LinksInv
      <4>2. i \in Own(leases[i].lane)
        BY <2>1 DEF Own
      <4>3. ASSUME i \in Unlisted(leases[i].lane) PROVE leases[i].state = "active"
        BY <4>1, <4>2, <4>3 DEF LinksOf
      <4>4. lanes[leases[i].lane].state # "active" => leases[i].state = "released"
        BY <4>1, <4>2 DEF LinksOf
      <4>. QED BY <4>3, <4>4
    <3>4. ASSUME i \in damaged, laneReads[leases[i].lane].state # "refused"
          PROVE  FindUnlisted(i)' \/ FindHalfReleased(i)'
      <4>1. \/ i \in Unlisted(leases[i].lane)
            \/ leases[i].state = "released" /\ lanes[leases[i].lane].state = "active"
        BY <3>4 DEF SeenListing, Damaged
      <4>2. lanes[leases[i].lane].state = "active"
        BY <3>3, <4>1
      <4>3. laneReads[leases[i].lane].state = "active"
        <5>1. laneReads[leases[i].lane] \in
                LaneRecord \cup {NoLaneRead(w) : w \in {"unread"} \cup Skipped}
          BY <3>2 DEF AuditTypeOK
        <5>2. CASE laneReads[leases[i].lane] \in LaneRecord
          BY <3>2, <4>2, <5>2 DEF LaneRecord
        <5>3. CASE laneReads[leases[i].lane] \in {NoLaneRead(w) : w \in {"unread"} \cup Skipped}
          BY <3>2, <3>4, <4>2, <5>3 DEF NoLaneRead, UnreadLane, Skipped
        <5>. QED BY <5>1, <5>2, <5>3
      <4>4. Read(i)' /\ LaneOf(i)' = laneReads[leases[i].lane]
        <5>1. leases[i].state \in {"active", "released"}
          BY <2>1 DEF AuditTypeOK, TypeOK, LeaseRecord
        <5>. QED BY <2>1, <3>1, <5>1 DEF Read, LaneOf
      <4>5. CASE i \in Unlisted(leases[i].lane)
        BY <3>2, <4>3, <4>4, <4>5 DEF Unlisted, FindUnlisted, Bound, Skipped
      <4>6. CASE leases[i].state = "released"
        BY <3>1, <4>3, <4>4, <4>6 DEF FindHalfReleased
      <4>. QED BY <4>1, <4>5, <4>6
    <3>5. i \in listed' /\ stage' = "leases" /\ ReadAgrees(i)'
      BY <2>1, <3>1, <3>2, <3>3, <3>4 DEF ReadAgrees, LaneOf, vars
    <3>. QED BY <2>2, <3>5 DEF SeenLeases, ReadAgrees
  <2>. QED BY <2>1, <2>3, <2>4
<1>4. CASE AuditEnd
  BY <1>4 DEF AuditEnd, SeenLeases, AbsentLease
<1>. QED BY <1>1, <1>2, <1>3, <1>4, AuditFrame DEF Audit

\* The moment of which the audit asks which leases were active.
Horizon == IF stage = "time" THEN clock ELSE readAt

LEMMA SeenApartStep ==
  ASSUME RegistryOK, AuditTypeOK, SeenListing, SeenLeases, SeenApart, [AuditNext]_auditVars
  PROVE  SeenApart'
<1>. USE DEF RegistryOK
<1>. SUFFICES ASSUME stage' \in {"time", "leases"}, NEW i \in listed', NEW j \in listed', Clash(i, j)'
              PROVE  \E k \in {i, j} : OverAt(k, Horizon)' /\ ~SeenActive(k)'
  BY DEF SeenApart, Horizon
<1>1. CASE UNCHANGED audit
  <2>1. /\ stage \in {"time", "leases"} /\ {i, j} \subseteq listed /\ listed \subseteq LeaseId
        /\ \A k \in {i, j} : leases[k].state # "absent"
    BY <1>1 DEF audit, SeenListing, AuditTypeOK
  <2>2. Clash(i, j)
    BY <2>1, AuditFrame, LeaseFrame DEF Clash
  <2>3. PICK k \in {i, j} : OverAt(k, Horizon) /\ ~SeenActive(k)
    BY <2>1, <2>2 DEF SeenApart, Horizon
  <2>4. Horizon \in Nat /\ Horizon <= clock /\ clock <= clock' /\ clock' \in Nat
    BY <2>1, AuditFrame, ClockFrame DEF Horizon, SeenListing
  <2>5. OverAt(k, Horizon)'
    <3>1. CASE stage = "leases"
      <4>1. Horizon' = Horizon
        BY <1>1, <3>1 DEF Horizon, audit
      <4>2. leases[k].state # "absent" /\ k \in LeaseId
        BY <2>1
      <4>3. \A t \in Nat : t <= clock /\ OverAt(k, t) => OverAt(k, t)'
        BY <4>2, AuditFrame, OverStays
      <4>. QED BY <2>3, <2>4, <4>1, <4>3 DEF OverAt
    <3>2. CASE stage = "time"
      <4>1. Horizon = clock /\ Horizon' = clock'
        BY <1>1, <3>2 DEF Horizon, audit
      <4>2. leases[k].state # "absent" /\ k \in LeaseId
        BY <2>1
      <4>3. \A t \in Nat : t <= clock /\ OverAt(k, t) => OverAt(k, t)'
        BY <4>2, AuditFrame, OverStays
      <4>4. leases'[k].expires \in Nat
        BY <4>2, AuditFrame, TypeStep DEF TypeOK, LeaseRecord
      <4>. QED BY <2>3, <2>4, <4>1, <4>3, <4>4 DEF OverAt
    <3>. QED BY <2>1, <3>1, <3>2
  <2>. QED BY <1>1, <2>3, <2>5 DEF SeenActive, Read, audit
<1>2. CASE AuditStart \/ AuditEnd \/ \E l \in Lane : ReadLane(l)
  BY <1>2 DEF AuditStart, AuditEnd, ReadLane
<1>3. CASE ListLeases
  <2>1. /\ UNCHANGED <<vars, leaseReads>> /\ stage = "lanes" /\ stage' = "time"
        /\ listed' \subseteq {m \in LeaseId : leases[m].state # "absent"}
    BY <1>3 DEF ListLeases, Stored
  <2>2. Clash(i, j)
    BY <2>1 DEF Clash, vars
  <2>3. PICK k \in {i, j} : OverAt(k, clock)
    BY <2>1, <2>2, OneIsOver
  <2>4. leaseReads'[k].state = "absent"
    BY <2>1 DEF SeenLeases
  <2>5. OverAt(k, Horizon)'
    BY <2>1, <2>3 DEF OverAt, Horizon, vars
  <2>. QED BY <2>4, <2>5 DEF SeenActive, Read
<1>4. CASE ReadClock
  <2>1. /\ UNCHANGED <<vars, leaseReads, listed>> /\ stage = "time" /\ stage' = "leases"
        /\ readAt' = clock
    BY <1>4 DEF ReadClock
  <2>2. PICK k \in {i, j} : OverAt(k, clock)
    BY <2>1 DEF SeenApart, Clash, vars
  <2>3. leaseReads'[k].state = "absent"
    BY <2>1 DEF SeenLeases, AuditTypeOK
  <2>4. OverAt(k, Horizon)'
    BY <2>1, <2>2 DEF OverAt, Horizon, vars
  <2>. QED BY <2>3, <2>4 DEF SeenActive, Read
<1>5. ASSUME NEW m \in LeaseId, ReadLease(m)
      PROVE  \E k \in {i, j} : OverAt(k, Horizon)' /\ ~SeenActive(k)'
  <2>1. /\ UNCHANGED <<vars, stage, listed, readAt>> /\ stage = "leases"
        /\ \/ leaseReads' = [leaseReads EXCEPT ![m] = leases[m]]
           \/ leaseReads' = [leaseReads EXCEPT ![m] = RefusedLease]
    BY <1>5 DEF ReadLease
  <2>2. PICK k \in {i, j} : OverAt(k, readAt) /\ ~SeenActive(k)
    BY <2>1 DEF SeenApart, Clash, vars
  <2>3. OverAt(k, Horizon)'
    BY <2>1, <2>2 DEF OverAt, Horizon, vars
  <2>4. CASE k # m
    <3>1. leaseReads'[k] = leaseReads[k] /\ k \in LeaseId
      BY <2>1, <2>4 DEF AuditTypeOK
    <3>. QED BY <2>1, <2>2, <2>3, <3>1 DEF SeenActive, Read
  <2>5. CASE k = m /\ leaseReads' = [leaseReads EXCEPT ![m] = leases[m]]
    <3>1. leaseReads'[k] = leases[k] /\ k \in LeaseId
      BY <2>1, <2>5 DEF AuditTypeOK
    <3>2. readAt \in Nat /\ leases[k].expires \in Nat
      BY <2>1, <3>1 DEF SeenListing, TypeOK, LeaseRecord
    <3>. QED BY <2>1, <2>2, <2>3, <3>1, <3>2 DEF OverAt, SeenActive, Read
  <2>6. CASE k = m /\ leaseReads' = [leaseReads EXCEPT ![m] = RefusedLease]
    <3>1. leaseReads'[k] = RefusedLease
      BY <2>6 DEF AuditTypeOK
    <3>. QED BY <2>3, <3>1 DEF SeenActive, Read, RefusedLease, AbsentLease
  <2>. QED BY <2>1, <2>4, <2>5, <2>6
<1>. QED BY <1>1, <1>2, <1>3, <1>4, <1>5, AuditFrame DEF Audit

\* The registry below the audit is the registry of LeaseRegistry.
LEMMA AuditIsRegistry == AuditSpec => Spec
<1>1. AuditInit => Init
  BY DEF AuditInit
<1>2. [AuditNext]_auditVars => [Next]_vars
  BY AuditFrame
<1>. QED BY <1>1, <1>2, PTL DEF AuditSpec, Spec

LEMMA AuditInvariant == AuditSpec => [](RegistryOK /\ AuditInv)
<1>1. RegistryOK /\ AuditInv /\ [AuditNext]_auditVars => AuditInv'
  BY AuditTypeStep, GoneStep, SeenLanesStep, SeenListingStep, SeenLeasesStep, SeenApartStep
  DEF AuditInv, RegistryOK
<1>. QED BY <1>1, AuditInvInit, AuditIsRegistry, RegistryInv, PTL DEF AuditSpec, RegistryOK
-----------------------------------------------------------------------------
(* The theorems. *)

\* Everything the audit keeps has its type.
THEOREM AuditTypeCorrect == AuditSpec => []AuditTypeOK
<1>1. AuditInv => AuditTypeOK
  BY DEF AuditInv
<1>. QED BY <1>1, AuditInvariant, PTL

\* The report never shows a path conflict, although it mixes moments.
THEOREM ConflictNeverInvented == AuditSpec => []NoInventedConflict
<1>1. AuditInv => NoInventedConflict
  <2>. SUFFICES ASSUME AuditInv, Reported, NEW i \in LeaseId, NEW j \in LeaseId, FindConflict(i, j)
                PROVE  FALSE
    BY DEF NoInventedConflict
  <2>1. {i, j} \subseteq listed /\ SeenActive(i) /\ SeenActive(j)
    BY DEF FindConflict, SeenActive, Read
  <2>2. Clash(i, j)
    BY DEF FindConflict, Read, Clash, AuditInv, SeenLeases, SeenActive
  <2>. QED BY <2>1, <2>2 DEF AuditInv, SeenApart, Reported
<1>. QED BY <1>1, AuditInvariant, PTL

\* No closed lane is accused of an active lease; a lease is missing only with an
\* error for that lease or when its closed lane is being archived.
THEOREM ClosedLaneNeverAccused == AuditSpec => []ClosedLaneNotAccused
<1>1. RegistryOK /\ AuditInv => ClosedLaneNotAccused
  <2>. SUFFICES ASSUME RegistryOK, AuditInv, Reported
                PROVE  /\ \A i \in LeaseId : ~FindActiveInClosed(i)
                       /\ \A l \in Lane, i \in LeaseId : FindMissing(l, i) =>
                            LeaseRefused(i) \/ (i \in gone /\ lanes[l].state # "active")
    BY DEF ClosedLaneNotAccused
  <2>1. ASSUME NEW i \in LeaseId PROVE ~FindActiveInClosed(i)
    BY DEF AuditInv, SeenLeases, FindActiveInClosed, Read
  <2>2. ASSUME NEW l \in Lane, NEW i \in LeaseId, FindMissing(l, i), ~LeaseRefused(i)
        PROVE  i \in gone /\ lanes[l].state # "active"
    <3>1. i \in listed \cup gone
      BY <2>2 DEF AuditInv, SeenListing, Reported, FindMissing
    <3>2. laneReads[l].leaseIds \subseteq lanes[l].leaseIds
      BY DEF AuditInv, SeenLanes
    <3>3. i \in Own(l) /\ leases[i].lane = l
      BY <2>2, <3>2 DEF FindMissing, RegistryOK, LinksInv, LinksOf, Own
    <3>4. i \notin listed
      <4>. SUFFICES ASSUME i \in listed PROVE FALSE
        OBVIOUS
      <4>1. leaseReads[i].state # "absent" /\ leaseReads[i].state # "refused"
        BY <2>2 DEF Reported, Unread, LeaseRefused
      <4>2. leaseReads[i].state \in {"absent", "active", "released", "refused"}
        BY DEF AuditInv, AuditTypeOK, LeaseRecord, RefusedLease, AbsentLease
      <4>3. Read(i)
        BY <4>1, <4>2 DEF Read
      <4>4. leaseReads[i].lane = leases[i].lane
        BY <4>1, <4>3 DEF AuditInv, SeenLeases
      <4>. QED BY <2>2, <3>3, <4>3, <4>4 DEF FindMissing
    <3>. QED BY <3>1, <3>3, <3>4 DEF AuditInv, GoneIsClosed
  <2>. QED BY <2>1, <2>2
<1>. QED BY <1>1, AuditInvariant, PTL

\* Damage that lasts through the whole audit is in the report, as what it is or
\* by the error that hides it.
THEOREM DamageReported == AuditSpec => []LastingDamageReported
<1>1. AuditInv => LastingDamageReported
  <2>. SUFFICES ASSUME AuditInv, Reported, NEW i \in damaged, ~LeaseRefused(i)
                PROVE  \/ FindUnlisted(i) \/ FindHalfReleased(i)
                       \/ FindOrphan(i) /\ LaneOf(i).state = "refused"
    BY DEF LastingDamageReported
  <2>1. i \in LeaseId /\ i \in listed /\ leaseReads[i].state # "absent"
    BY DEF AuditInv, AuditTypeOK, SeenListing, Reported, Unread
  <2>2. Read(i)
    BY <2>1 DEF AuditInv, AuditTypeOK, LeaseRecord, RefusedLease, AbsentLease, LeaseRefused, Read
  <2>. QED BY <2>1, <2>2 DEF AuditInv, SeenLeases, FindOrphan, Skipped
<1>. QED BY <1>1, AuditInvariant, PTL

\* The verdict on records read as they are is the link check of the commands.
THEOREM VerdictAgrees == AuditSpec => []VerdictIsLinkCheck
<1>1. RegistryOK /\ AuditInv /\ NoInventedConflict => VerdictIsLinkCheck
  <2>. SUFFICES ASSUME RegistryOK, AuditInv, NoInventedConflict, Reported,
                       laneReads = lanes, leaseReads = leases
                PROVE  Healthy <=> \A l \in Lane : LaneLinksOK(l)
    BY DEF VerdictIsLinkCheck
  <2>1. \A i \in LeaseId : /\ Read(i) <=> leases[i].state # "absent"
                           /\ ~LeaseRefused(i)
    BY DEF Read, LeaseRefused, AuditInv, SeenLeases, RegistryOK, TypeOK, LeaseRecord
  <2>2. \A i \in LeaseId : leases[i].state # "absent" => leases[i].lane \in Lane
    BY DEF AuditInv, SeenListing
  <2>3. \A l \in Lane : laneReads[l].state \in {"active", "released", "aborted"}
    BY DEF RegistryOK, TypeOK, LaneRecord
  <2>4. \A i \in LeaseId : Bound(i) <=> Read(i)
    BY <2>1, <2>2, <2>3 DEF Bound, LaneOf, Skipped
  <2>5. ASSUME Healthy, NEW l \in Lane PROVE LaneLinksOK(l)
    <3>1. lanes[l].leaseIds \subseteq Own(l)
      BY DEF RegistryOK, LinksInv, LinksOf
    <3>2. ASSUME NEW i \in Own(l)
          PROVE  /\ i \in lanes[l].leaseIds
                 /\ leases[i].state = IF lanes[l].state = "active" THEN "active" ELSE "released"
      <4>1. i \in LeaseId /\ leases[i].lane = l /\ leases[i].state \in {"active", "released"}
        BY <3>2 DEF Own, RegistryOK, TypeOK, LeaseRecord
      <4>2. lanes[l].state \in {"active", "released", "aborted"}
        BY DEF RegistryOK, TypeOK, LaneRecord
      <4>3. ~FindUnlisted(i) /\ ~FindActiveInClosed(i) /\ ~FindHalfReleased(i)
        BY <2>5, <4>1 DEF Healthy
      <4>. QED BY <2>1, <2>4, <4>1, <4>2, <4>3
               DEF FindUnlisted, FindActiveInClosed, FindHalfReleased, LaneOf
    <3>. QED BY <3>1, <3>2 DEF LaneLinksOK
  <2>6. ASSUME \A l \in Lane : LaneLinksOK(l) PROVE Healthy
    <3>1. ASSUME NEW i \in LeaseId, Read(i)
          PROVE  ~FindUnlisted(i) /\ ~FindHalfReleased(i) /\ ~FindActiveInClosed(i)
      <4>1. leases[i].lane \in Lane /\ i \in Own(leases[i].lane)
        BY <2>1, <2>2, <3>1 DEF Own
      <4>. QED BY <2>6, <4>1
               DEF LaneLinksOK, FindUnlisted, FindHalfReleased, FindActiveInClosed, LaneOf
    <3>2. \A i \in LeaseId : ~FindUnlisted(i) /\ ~FindHalfReleased(i) /\ ~FindActiveInClosed(i)
      BY <3>1 DEF FindUnlisted, Bound, FindHalfReleased, FindActiveInClosed
    <3>3. \A i \in LeaseId : ~FindOrphan(i)
      BY <2>4 DEF FindOrphan, Bound
    <3>4. ASSUME NEW l \in Lane, NEW i \in LeaseId PROVE ~FindMissing(l, i)
      <4>1. lanes[l].leaseIds \subseteq Own(l)
        BY DEF RegistryOK, LinksInv, LinksOf
      <4>. QED BY <2>1, <4>1 DEF FindMissing, Own
    <3>5. \A l \in Lane : laneReads[l].state # "refused"
      BY <2>3
    <3>. QED BY <2>1, <3>2, <3>3, <3>4, <3>5 DEF Healthy, NoInventedConflict
  <2>. QED BY <2>5, <2>6
<1>. QED BY <1>1, AuditInvariant, ConflictNeverInvented, PTL
=============================================================================
