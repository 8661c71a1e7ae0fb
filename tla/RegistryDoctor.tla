--------------------------- MODULE RegistryDoctor ---------------------------
(***************************************************************************)
(* `wip doctor` beside the lease registry.  The audit takes no lock: it    *)
(* reads the lane manifests one by one, lists the lease directory, reads   *)
(* the clock and then the leases one by one, while commands claim, renew   *)
(* and release.  Its report therefore describes no single moment; this     *)
(* module asks what it may say all the same.                               *)
(*                                                                         *)
(* Modelled are the findings about lanes and leases.  Both are read in the *)
(* order of their names, which are chosen freely or at random: any order.  *)
(* A read is refused when the record is replaced under it, or has been     *)
(* archived since it was listed; such a record is skipped with an error.   *)
(* An archive run may take the records of closed lanes away beside the     *)
(* audit; restores and new lanes do not run beside it here.                *)
(***************************************************************************)
EXTENDS LeaseRegistry

CONSTANTS MaxRefused,   \* bound on refused reads of one audit
          MaxArchived   \* bound on lanes that are archived

VARIABLES stage,       \* where the audit is
          laneReads,   \* manifests as the audit read them
          listed,      \* lease records found in the directory
          leaseReads,  \* lease records as the audit read them
          readAt,      \* the time the audit read
          away, gone,  \* manifests and leases that archive runs have taken away
          damaged      \* observer: leases damaged ever since the audit began

audit == <<stage, laneReads, listed, leaseReads, readAt>>
shelf == <<away, gone>>
auditVars == <<vars, audit, shelf, damaged>>

\* Not auditing; reading manifests; about to read the clock; reading leases.
Stages == {"off", "lanes", "time", "leases"}

\* A manifest that is not read, not yet or not at all: it was not there when the
\* directory was listed, or its read was refused.
NoLaneRead(why) == [state |-> why, leaseIds |-> {}]
UnreadLane == NoLaneRead("unread")
Skipped == {"unlisted", "refused"}
RefusedLease == [AbsentLease EXCEPT !.state = "refused"]

\* Reads that have been refused, within their bound.
RefusedReads == {l \in Lane : laneReads[l].state = "refused"}
                \cup {i \in LeaseId : leaseReads[i].state = "refused"}
MayRefuse == Cardinality(RefusedReads) < MaxRefused

\* Lanes of which some record has been taken away.
Archived == away \cup {leases[i].lane : i \in gone}

\* The lease records that are in the directory.
Stored == {i \in LeaseId : leases[i].state # "absent"} \ gone

\* A lease its lane does not list (an interrupted claim), or a released lease
\* of a lane that is still active (an interrupted release).
Damaged == {i \in LeaseId :
              /\ leases[i].state # "absent"
              /\ \/ i \in Unlisted(leases[i].lane)
                 \/ leases[i].state = "released" /\ lanes[leases[i].lane].state = "active"}
-----------------------------------------------------------------------------
AuditOff ==
  /\ stage = "off"
  /\ laneReads = [l \in Lane |-> UnreadLane]
  /\ listed = {}
  /\ leaseReads = [i \in LeaseId |-> AbsentLease]
  /\ readAt = Never
  /\ away = {} /\ gone = {} /\ damaged = {}

AuditInit == Init /\ AuditOff

\* doctorRecordIDs: the names in the lane directory.
AuditStart ==
  /\ stage = "off"
  /\ stage' = "lanes"
  /\ laneReads' = [l \in Lane |-> IF l \in away THEN NoLaneRead("unlisted") ELSE UnreadLane]
  /\ damaged' = Damaged
  /\ UNCHANGED <<vars, shelf, listed, leaseReads, readAt>>

\* Mutant: a manifest is loaded again while the leases are checked.
ReadLane_Again(l) ==
  /\ stage \in {"lanes", "leases"}
  /\ laneReads' = [laneReads EXCEPT ![l] = lanes[l]]
  /\ UNCHANGED <<vars, shelf, stage, listed, leaseReads, readAt, damaged>>

ReadLane(l) ==
  /\ stage = "lanes"
  /\ laneReads[l] = UnreadLane
  /\ \/ l \notin away /\ laneReads' = [laneReads EXCEPT ![l] = lanes[l]]
     \/ /\ l \in away \/ MayRefuse
        /\ laneReads' = [laneReads EXCEPT ![l] = NoLaneRead("refused")]
  /\ UNCHANGED <<vars, shelf, stage, listed, leaseReads, readAt, damaged>>

\* Mutant: a name that is not a record identifier is listed as well.
ListLeases_Foreign ==
  /\ stage = "lanes"
  /\ \A l \in Lane : laneReads[l] # UnreadLane
  /\ listed' = Stored \cup {0}
  /\ stage' = "time"
  /\ UNCHANGED <<vars, shelf, laneReads, leaseReads, readAt, damaged>>

\* doctorRecordIDs: the names in the lease directory.
ListLeases ==
  /\ stage = "lanes"
  /\ \A l \in Lane : laneReads[l] # UnreadLane
  /\ listed' = Stored
  /\ stage' = "time"
  /\ UNCHANGED <<vars, shelf, laneReads, leaseReads, readAt, damaged>>

ReadClock ==
  /\ stage = "time"
  /\ readAt' = clock
  /\ stage' = "leases"
  /\ UNCHANGED <<vars, shelf, laneReads, listed, leaseReads, damaged>>

Unread == {i \in listed : leaseReads[i].state = "absent"}

\* Mutant: records that appeared after the listing are read as well.
ReadLease_Late(i) ==
  /\ stage = "leases"
  /\ i \in Stored
  /\ leaseReads[i].state = "absent"
  /\ leaseReads' = [leaseReads EXCEPT ![i] = leases[i]]
  /\ listed' = listed \cup {i}
  /\ UNCHANGED <<vars, shelf, stage, laneReads, readAt, damaged>>

ReadLease(i) ==
  /\ stage = "leases"
  /\ i \in Unread
  /\ \/ i \notin gone /\ leaseReads' = [leaseReads EXCEPT ![i] = leases[i]]
     \/ /\ i \in gone \/ MayRefuse
        /\ leaseReads' = [leaseReads EXCEPT ![i] = RefusedLease]
  /\ UNCHANGED <<vars, shelf, stage, laneReads, listed, readAt, damaged>>

\* Every record is read: the report is what the findings below say now.
Reported == stage = "leases" /\ Unread = {}

AuditEnd ==
  /\ Reported
  /\ UNCHANGED <<vars, shelf>>
  /\ stage' = "off"
  /\ laneReads' = [l \in Lane |-> UnreadLane]
  /\ listed' = {}
  /\ leaseReads' = [i \in LeaseId |-> AbsentLease]
  /\ readAt' = Never
  /\ damaged' = {}

Audit ==
  \/ AuditStart \/ ListLeases \/ ReadClock \/ AuditEnd
  \/ \E l \in Lane : ReadLane(l)
  \/ \E i \in LeaseId : ReadLease(i)

\* A step of a command or of the clock.  A lane whose records are being or have
\* been archived is not found, so nobody gets to work on it.
Work ==
  /\ Next
  /\ \A l \in Archived : laneLock'[l] = laneLock[l]
  /\ UNCHANGED <<audit, shelf>>
  /\ damaged' = damaged \cap Damaged'

\* An archive run has the lane lock and the registry lock of a closed lane with
\* exact links; it takes the leases away one by one and then the manifest.
ArchiveLane(l) ==
  /\ lanes[l].state # "active" /\ LaneLinksOK(l)
  /\ laneLock[l] = Free /\ registry = Free
  /\ l \in Archived \/ Cardinality(Archived) < MaxArchived
  /\ \/ gone' \in {gone \cup {i} : i \in Own(l)} /\ UNCHANGED away
     \/ Own(l) \subseteq gone /\ away' = away \cup {l} /\ UNCHANGED gone
  /\ UNCHANGED <<vars, audit, damaged>>

AuditNext == Work \/ (\E l \in Lane : ArchiveLane(l)) \/ Audit

AuditSpec == AuditInit /\ [][AuditNext]_auditVars
-----------------------------------------------------------------------------
(* The findings of auditDoctor, over what was read. *)

Read(i) == i \in listed /\ leaseReads[i].state \in {"active", "released"}
LeaseRefused(i) == i \in listed /\ leaseReads[i].state = "refused"
LaneOf(i) == laneReads[leaseReads[i].lane]

\* ORPHAN_LEASE: the manifest was not read; nothing else is said of the lease.
FindOrphan(i) == Read(i) /\ LaneOf(i).state \in Skipped
Bound(i) == Read(i) /\ LaneOf(i).state \notin Skipped

\* Mutant: an expired lease is only warned about.
FindUnlisted_Live(i) ==
  Bound(i) /\ i \notin LaneOf(i).leaseIds /\ readAt < leaseReads[i].expires

\* LEASE_REFERENCE_UNLISTED
FindUnlisted(i) == Bound(i) /\ i \notin LaneOf(i).leaseIds

\* RELEASED_LANE_ACTIVE_LEASE
FindActiveInClosed(i) ==
  Read(i) /\ leaseReads[i].state = "active" /\ LaneOf(i).state \in {"released", "aborted"}

\* Mutant: only leases that have not expired ask for release recovery.
FindHalfReleased_Live(i) ==
  /\ Read(i) /\ leaseReads[i].state = "released" /\ LaneOf(i).state = "active"
  /\ readAt < leaseReads[i].expires

\* LANE_RELEASE_RECOVERY_REQUIRED
FindHalfReleased(i) ==
  Read(i) /\ leaseReads[i].state = "released" /\ LaneOf(i).state = "active"

\* LEASE_REFERENCE_MISSING
FindMissing(l, i) ==
  i \in laneReads[l].leaseIds /\ ~(Read(i) /\ leaseReads[i].lane = l)

\* PATH_LEASE_CONFLICT
SeenActive(i) == Read(i) /\ leaseReads[i].state = "active" /\ readAt < leaseReads[i].expires
FindConflict(i, j) ==
  /\ SeenActive(i) /\ SeenActive(j)
  /\ leaseReads[i].lane # leaseReads[j].lane
  /\ ScopesOverlap(leaseReads[i].paths, leaseReads[j].paths)

\* The report is healthy without a finding of severity error or recovery; an
\* expired lease is only a warning.
Healthy ==
  /\ \A l \in Lane : laneReads[l].state # "refused"
  /\ \A i \in LeaseId : ~LeaseRefused(i) /\ ~FindOrphan(i)
  /\ \A i \in LeaseId : ~FindUnlisted(i) /\ ~FindActiveInClosed(i) /\ ~FindHalfReleased(i)
  /\ \A l \in Lane, i \in LeaseId : ~FindMissing(l, i)
  /\ \A i, j \in LeaseId : ~FindConflict(i, j)
-----------------------------------------------------------------------------
(* Properties. *)

AuditTypeOK ==
  /\ stage \in Stages
  /\ laneReads \in [Lane -> LaneRecord \cup {NoLaneRead(why) : why \in {"unread"} \cup Skipped}]
  /\ listed \subseteq LeaseId
  /\ leaseReads \in [LeaseId -> LeaseRecord \cup {RefusedLease}]
  /\ readAt \in Nat \cup {Never}
  /\ away \subseteq Lane /\ gone \subseteq LeaseId /\ damaged \subseteq LeaseId

\* Although the leases are read at different times and in any order, the report
\* never shows a PATH_LEASE_CONFLICT between leases wip itself wrote: not for a
\* lease that was released after it was read, not for one renewed meanwhile.
NoInventedConflict == Reported => \A i, j \in LeaseId : ~FindConflict(i, j)

\* Whatever runs beside the audit, no closed lane is accused of an active lease:
\* manifests are read before leases, and a release writes its leases before the
\* manifest.  A lane is accused of a missing lease only if the report has an error
\* for that very record, or the lane was closed and is being archived.
ClosedLaneNotAccused ==
  Reported =>
    /\ \A i \in LeaseId : ~FindActiveInClosed(i)
    /\ \A l \in Lane, i \in LeaseId : FindMissing(l, i) =>
         LeaseRefused(i) \/ (i \in gone /\ lanes[l].state # "active")

\* What an interrupted claim or release left behind before the audit began and
\* nobody repaired during it is in the report: as what it is, or by an error for
\* the lease, or as an orphan beside an error for its manifest.
LastingDamageReported ==
  Reported => \A i \in damaged :
    \/ FindUnlisted(i) \/ FindHalfReleased(i)
    \/ LeaseRefused(i)
    \/ FindOrphan(i) /\ LaneOf(i).state = "refused"

\* If the records still are what was read, the verdict is that of the link
\* check of renewals and captures: healthy means that no lane is refused.
VerdictIsLinkCheck ==
  Reported /\ laneReads = lanes /\ leaseReads = leases =>
    (Healthy <=> \A l \in Lane : LaneLinksOK(l))
-----------------------------------------------------------------------------
(* The inductive invariant behind the properties. *)

\* What was read of a manifest still holds: back-references only grow, and a
\* closed lane stays closed.
SeenLanes ==
  \A l \in Lane :
    /\ laneReads[l].leaseIds \subseteq lanes[l].leaseIds
    /\ laneReads[l].state \in {"released", "aborted", "unlisted"} => lanes[l].state # "active"

\* What has been archived is undamaged and of a closed lane.
GoneIsClosed ==
  /\ \A l \in away : lanes[l].state # "active"
  /\ \A i \in gone : /\ leases[i].state = "released" /\ leases[i].lane \in Lane
                     /\ i \in lanes[leases[i].lane].leaseIds
                     /\ lanes[leases[i].lane].state # "active"

\* Once the directory is listed every manifest has been read; the listed
\* records exist and include what the manifests refer to and what is damaged.
SeenListing ==
  /\ \A i \in LeaseId : leases[i].state # "absent" => leases[i].lane \in Lane
  /\ damaged \subseteq Damaged
  /\ stage = "off" => listed = {} /\ damaged = {}
  /\ stage \in {"time", "leases"} =>
       /\ \A l \in Lane : laneReads[l] # UnreadLane /\ laneReads[l].leaseIds \subseteq listed \cup gone
       /\ damaged \subseteq listed
       /\ \A i \in listed : leases[i].state # "absent"
  /\ stage = "leases" => readAt \in 0..clock

\* What was read of a lease: its owner and paths never change, and it agrees
\* with the older look at its lane.
SeenLeases ==
  \A i \in LeaseId : leaseReads[i].state # "absent" =>
    /\ i \in listed /\ stage = "leases"
    /\ Read(i) => /\ leaseReads[i].lane = leases[i].lane /\ leaseReads[i].paths = leases[i].paths
                  /\ LaneOf(i).state \in {"released", "aborted"} => leaseReads[i].state = "released"
                  /\ i \in damaged => FindUnlisted(i) \/ FindHalfReleased(i)
                                       \/ LaneOf(i).state = "refused"

\* Lease i is no longer active after time t: released, or expired by then and
\* not about to be extended.
OverAt(i, t) ==
  \/ leases[i].state = "released"
  \/ leases[i].expires <= t /\ \A p \in Proc : pc[p] = "extend" => i \notin todo[p]

\* Of two listed leases that overlap one was over when the audit read the
\* clock, and it was not seen active.
SeenApart ==
  stage \in {"time", "leases"} =>
    \A i, j \in listed : Clash(i, j) =>
      \E k \in {i, j} : /\ OverAt(k, IF stage = "time" THEN clock ELSE readAt)
                        /\ ~SeenActive(k)

AuditInv == AuditTypeOK /\ GoneIsClosed /\ SeenLanes /\ SeenListing /\ SeenLeases /\ SeenApart
=============================================================================
