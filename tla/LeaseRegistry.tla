---------------------------- MODULE LeaseRegistry ----------------------------
(***************************************************************************)
(* The lease registry of internal/store: claim, renew, release, abort and  *)
(* the lease fence of a running capture.  Several processes (one per wip   *)
(* command) share lane and lease records, the lane locks and the registry  *)
(* lock.  Every record write is a step of its own, so that a command can   *)
(* stop between any two of them, and `now` is read once per command while  *)
(* the clock keeps running.                                                *)
(*                                                                         *)
(* A command that stops (killed, an I/O error, a lock timeout) leaves what *)
(* it has written, and the operating system frees its locks: Stop(p).      *)
(* Lanes start active and without leases, as Create leaves them.  The      *)
(* owner of a lane is fixed here: a command names a lane only with the     *)
(* lane's own agent and session (resolveStatus), so the ownership tests of *)
(* the link checks always pass and are left out.                           *)
(***************************************************************************)
EXTENDS WipPaths, FiniteSets

CONSTANTS Proc,        \* running commands
          Lane,        \* lanes
          LeaseId,     \* leases, numbered in the order of their creation
          Request,     \* the path sets a claim may ask for, normalized
          TTL,         \* lease lifetime
          MaxClock,    \* bound on the clock
          Free,        \* a lock nobody holds
          NoLane       \* target of an idle process

ASSUME RegistryAssumption ==
  /\ Request \subseteq SUBSET Path
  /\ \A S \in Request : Normalized(S)
  /\ LeaseId \subseteq Nat /\ IsFiniteSet(LeaseId)
  /\ TTL \in Nat \ {0}
  /\ MaxClock \in Nat
  /\ Free \notin Proc
  /\ NoLane \notin Lane

VARIABLES clock,      \* wall clock
          lanes,      \* lane manifests: state and lease back-references
          leases,     \* lease records
          laneLock,   \* holder of each lane lock
          registry,   \* holder of the registry lock
          pc,         \* where each command is
          op,         \* its verb
          target,     \* its lane
          want,       \* the normalized paths of a claim
          now,        \* the time the command read under the registry lock
          todo,       \* lease records it still has to write
          allowed,    \* the active path list a capture started with
          fence       \* time of the last complete fence refresh of a capture

vars == <<clock, lanes, leases, laneLock, registry, pc, op, target, want, now,
          todo, allowed, fence>>
locals == <<op, target, want, allowed>>

Ops == {"claim", "renew", "release", "abort", "capture"}

\* Program points: waiting for the lane lock, for the registry lock; a claim
\* scanning the leases or about to list its new one; a renewal or a fence
\* refresh writing new expiries; a release retiring leases; a capture at work.
Points == {"idle", "lane", "registry", "claim", "list", "extend", "retire", "hold"}

\* Never: no time, no complete fence refresh yet.
Never == -1

\* Manifests and lease records.
LaneRecord == [state : {"active", "released", "aborted"}, leaseIds : SUBSET LeaseId]
LeaseRecord == [state : {"absent", "active", "released"}, lane : Lane \cup {NoLane},
                paths : SUBSET Path, expires : Nat]

AbsentLease == [state |-> "absent", lane |-> NoLane, paths |-> {}, expires |-> 0]
-----------------------------------------------------------------------------
(* Records and what the link checks say about them. *)

\* The lease is usable at time t: stored active and not expired.
ActiveAt(i, t) == leases[i].state = "active" /\ t < leases[i].expires

\* The stored leases of a lane, and those missing from its back-references.
Own(l) == {i \in LeaseId : leases[i].state # "absent" /\ leases[i].lane = l}
Unlisted(l) == Own(l) \ lanes[l].leaseIds

\* Two leases of different lanes whose scopes overlap.
Clash(i, j) ==
  /\ leases[i].lane # leases[j].lane
  /\ ScopesOverlap(leases[i].paths, leases[j].paths)

ConflictAt(t) == \E i, j \in LeaseId : ActiveAt(i, t) /\ ActiveAt(j, t) /\ Clash(i, j)

\* The first of S in the sorted lease list, which is in creation order.
First(i, S) == i \in S /\ \A j \in S : i <= j

\* Mutant: a released lease no longer demands release recovery.
LaneLinksOK_NoRecovery(l) ==
  /\ lanes[l].leaseIds \subseteq Own(l)
  /\ \A i \in Own(l) :
       /\ i \in lanes[l].leaseIds
       /\ lanes[l].state # "active" => leases[i].state = "released"

\* validateLaneLeaseLinks: before renewal and in every fence refresh.
LaneLinksOK(l) ==
  /\ lanes[l].leaseIds \subseteq Own(l)
  /\ \A i \in Own(l) :
       /\ i \in lanes[l].leaseIds
       /\ leases[i].state = IF lanes[l].state = "active" THEN "active" ELSE "released"

\* Mutant: a released lease does not stop a claim.
ClaimLinksOK_NoRecovery(l, S) ==
  /\ lanes[l].leaseIds \subseteq Own(l)
  /\ \A i \in Unlisted(l) : leases[i].paths = S /\ leases[i].state = "active"

\* Mutant: a claim for other paths tolerates an unlisted lease.
ClaimLinksOK_AnyRetry(l, S) ==
  /\ lanes[l].leaseIds \subseteq Own(l)
  /\ \A i \in Own(l) : leases[i].state # "released"

\* validateClaimLeaseLinks: one unlisted lease is tolerated when the request
\* is an exact retry of the claim that stored it.
ClaimLinksOK(l, S) ==
  /\ lanes[l].leaseIds \subseteq Own(l)
  /\ \A i \in Own(l) : leases[i].state # "released"
  /\ \A i \in Unlisted(l) : leases[i].paths = S

\* validateReleaseLeaseLinks: a partly released lane is accepted.
ReleaseLinksOK(l) == lanes[l].leaseIds = Own(l)

\* The active paths of a lane as the list the code compares: how many active
\* leases of the lane name each path.
PathCount(l, t) ==
  [x \in Path |-> Cardinality({i \in Own(l) : ActiveAt(i, t) /\ x \in leases[i].paths})]
NoPaths == [x \in Path |-> 0]
-----------------------------------------------------------------------------
Init ==
  /\ clock = 0
  /\ lanes = [l \in Lane |-> [state |-> "active", leaseIds |-> {}]]
  /\ leases = [i \in LeaseId |-> AbsentLease]
  /\ laneLock = [l \in Lane |-> Free]
  /\ registry = Free
  /\ pc = [p \in Proc |-> "idle"]
  /\ op = [p \in Proc |-> "none"]
  /\ target = [p \in Proc |-> NoLane]
  /\ want = [p \in Proc |-> {}]
  /\ now = [p \in Proc |-> Never]
  /\ todo = [p \in Proc |-> {}]
  /\ allowed = [p \in Proc |-> NoPaths]
  /\ fence = [p \in Proc |-> Never]

\* The command of p ends: the deferred releases free its locks.
End(p) ==
  /\ pc' = [pc EXCEPT ![p] = "idle"]
  /\ op' = [op EXCEPT ![p] = "none"]
  /\ target' = [target EXCEPT ![p] = NoLane]
  /\ want' = [want EXCEPT ![p] = {}]
  /\ now' = [now EXCEPT ![p] = Never]
  /\ todo' = [todo EXCEPT ![p] = {}]
  /\ allowed' = [allowed EXCEPT ![p] = NoPaths]
  /\ fence' = [fence EXCEPT ![p] = Never]
  /\ laneLock' = [l \in Lane |-> IF laneLock[l] = p THEN Free ELSE laneLock[l]]
  /\ registry' = IF registry = p THEN Free ELSE registry
  /\ UNCHANGED clock

Refuse(p) == End(p) /\ UNCHANGED <<lanes, leases>>
-----------------------------------------------------------------------------
(* Commands start with an unlocked look for an active lane (resolveStatus). *)
Start(p, o, l, S) ==
  /\ pc[p] = "idle"
  /\ lanes[l].state = "active"
  /\ (o = "claim") = (S # {})
  /\ pc' = [pc EXCEPT ![p] = "lane"]
  /\ op' = [op EXCEPT ![p] = o]
  /\ target' = [target EXCEPT ![p] = l]
  /\ want' = [want EXCEPT ![p] = S]
  /\ UNCHANGED <<clock, lanes, leases, laneLock, registry, now, todo, allowed, fence>>

\* Mutant: the lane state read by resolveStatus is not checked again.
LockLane_NoRecheck(p) ==
  LET l == target[p] IN
  /\ pc[p] = "lane"
  /\ laneLock[l] = Free
  /\ op[p] = "capture" => PathCount(l, clock) # NoPaths
  /\ laneLock' = [laneLock EXCEPT ![l] = p]
  /\ pc' = [pc EXCEPT ![p] = "registry"]
  /\ allowed' = [allowed EXCEPT ![p] =
                   IF op[p] = "capture" THEN PathCount(l, clock) ELSE NoPaths]
  /\ UNCHANGED <<clock, lanes, leases, registry, op, target, want, now, todo, fence>>

\* The lane lock, then the lane record: a claim, a renewal and a capture go on
\* only with an active lane, a capture only with some active path.
LockLane(p) ==
  LET l == target[p] IN
  /\ pc[p] = "lane"
  /\ laneLock[l] = Free
  /\ op[p] \notin {"release", "abort"} => lanes[l].state = "active"
  /\ op[p] = "capture" => PathCount(l, clock) # NoPaths
  /\ laneLock' = [laneLock EXCEPT ![l] = p]
  /\ pc' = [pc EXCEPT ![p] = "registry"]
  /\ allowed' = [allowed EXCEPT ![p] =
                   IF op[p] = "capture" THEN PathCount(l, clock) ELSE NoPaths]
  /\ UNCHANGED <<clock, lanes, leases, registry, op, target, want, now, todo, fence>>

LaneRefused(p) ==
  LET l == target[p] IN
  /\ pc[p] = "lane"
  /\ laneLock[l] = Free
  /\ op[p] \notin {"release", "abort"}
  /\ \/ lanes[l].state # "active"
     \/ op[p] = "capture" /\ PathCount(l, clock) = NoPaths
  /\ Refuse(p)

\* Taking the registry lock, with the point the command goes on at, the time
\* it reads and the records it is going to write.
EnterRegistry(p, point, work) ==
  /\ registry' = p
  /\ pc' = [pc EXCEPT ![p] = point]
  /\ now' = [now EXCEPT ![p] = clock]
  /\ todo' = [todo EXCEPT ![p] = work]
  /\ UNCHANGED <<clock, lanes, leases, laneLock, locals, fence>>

AtRegistry(p, verbs) == pc[p] = "registry" /\ registry = Free /\ op[p] \in verbs
-----------------------------------------------------------------------------
(* Claim. *)

\* What ends the scan of the sorted leases: an active lease of this lane for
\* exactly these paths, or an active lease of another lane that overlaps them.
Reusable(p) == {i \in Own(target[p]) : leases[i].paths = want[p] /\ ActiveAt(i, now[p])}
\* Mutant: only equal keys conflict, not a scope and what lies below it.
Blocking_SameKey(p) == {i \in LeaseId :
                          /\ ActiveAt(i, now[p])
                          /\ leases[i].lane # target[p]
                          /\ \E x \in want[p], y \in leases[i].paths : Key(x) = Key(y)}
Blocking(p) == {i \in LeaseId : /\ ActiveAt(i, now[p])
                                /\ leases[i].lane # target[p]
                                /\ ScopesOverlap(want[p], leases[i].paths)}

ClaimBegin(p) ==
  LET l == target[p]
      Enders == {i \in LeaseId :
                   /\ ActiveAt(i, clock)
                   /\ IF leases[i].lane = l
                        THEN leases[i].paths = want[p]
                        ELSE ScopesOverlap(want[p], leases[i].paths)}
      Seen(i) == \A e \in Enders : i <= e
  IN
  /\ AtRegistry(p, {"claim"})
  /\ ClaimLinksOK(l, want[p])
  /\ ~ConflictAt(clock)
  /\ EnterRegistry(p, "claim", {i \in Unlisted(l) : leases[i].paths = want[p] /\ Seen(i)})

ClaimRefused(p) ==
  /\ AtRegistry(p, {"claim"})
  /\ ~ClaimLinksOK(target[p], want[p]) \/ ConflictAt(clock)
  /\ Refuse(p)

\* The scan lists the lease an interrupted claim left without back-reference.
RepairLink(p) ==
  /\ pc[p] = "claim"
  /\ \E i \in todo[p] :
       /\ First(i, todo[p])
       /\ lanes' = [lanes EXCEPT ![target[p]].leaseIds = @ \cup {i}]
       /\ todo' = [todo EXCEPT ![p] = @ \ {i}]
  /\ UNCHANGED <<clock, leases, laneLock, registry, pc, locals, now, fence>>

\* The claim returns its existing lease or is refused for another lane's.
ClaimSettled(p) ==
  /\ pc[p] = "claim"
  /\ todo[p] = {}
  /\ Reusable(p) # {} \/ Blocking(p) # {}
  /\ Refuse(p)

\* createLease: a fresh identifier, never over an existing record.
CreateLease(p) ==
  /\ pc[p] = "claim"
  /\ todo[p] = {}
  /\ Reusable(p) = {} /\ Blocking(p) = {}
  /\ \E i \in LeaseId :
       /\ First(i, {j \in LeaseId : leases[j].state = "absent"})
       /\ leases' = [leases EXCEPT ![i] =
            [state |-> "active", lane |-> target[p], paths |-> want[p],
             expires |-> now[p] + TTL]]
       /\ todo' = [todo EXCEPT ![p] = {i}]
  /\ pc' = [pc EXCEPT ![p] = "list"]
  /\ UNCHANGED <<clock, lanes, laneLock, registry, locals, now, fence>>

\* writeLane with the new back-reference; the claim is done.
ListLease(p) ==
  /\ pc[p] = "list"
  /\ lanes' = [lanes EXCEPT ![target[p]].leaseIds = @ \cup todo[p]]
  /\ UNCHANGED leases
  /\ End(p)
-----------------------------------------------------------------------------
(* Renew and the fence refresh of a capture write new expiries. *)

OwnActive(p) == {i \in Own(target[p]) : ActiveAt(i, clock)}

RenewBegin(p) ==
  /\ AtRegistry(p, {"renew"})
  /\ LaneLinksOK(target[p])
  /\ ~ConflictAt(clock)
  /\ OwnActive(p) # {}
  /\ EnterRegistry(p, "extend", OwnActive(p))

RenewRefused(p) ==
  /\ AtRegistry(p, {"renew"})
  /\ ~LaneLinksOK(target[p]) \/ ConflictAt(clock) \/ OwnActive(p) = {}
  /\ Refuse(p)

\* Mutant: the refresh does not compare the active paths with those of the start.
FenceOK_NoPaths(p) ==
  /\ lanes[target[p]].state = "active"
  /\ LaneLinksOK(target[p])
  /\ ~ConflictAt(clock)

\* RefreshCaptureLease: the lane must still be active and its active paths
\* exactly those the capture started with.
FenceOK(p) ==
  /\ lanes[target[p]].state = "active"
  /\ LaneLinksOK(target[p])
  /\ ~ConflictAt(clock)
  /\ PathCount(target[p], clock) = allowed[p]

FenceBegin(p) ==
  /\ AtRegistry(p, {"capture"})
  /\ FenceOK(p)
  /\ EnterRegistry(p, "extend", OwnActive(p))

\* LEASE_MOVED, LANE_MOVED, ...: the capture fails and gives up its lane.
FenceRefused(p) ==
  /\ AtRegistry(p, {"capture"})
  /\ ~FenceOK(p)
  /\ Refuse(p)

Extend(p) ==
  /\ pc[p] = "extend"
  /\ \E i \in todo[p] :
       /\ First(i, todo[p])
       /\ leases' = [leases EXCEPT ![i].expires = now[p] + TTL]
       /\ todo' = [todo EXCEPT ![p] = @ \ {i}]
  /\ UNCHANGED <<clock, lanes, laneLock, registry, pc, locals, now, fence>>

RenewDone(p) ==
  /\ pc[p] = "extend" /\ todo[p] = {} /\ op[p] = "renew"
  /\ Refuse(p)

\* The refresh is complete: the registry lock is free again, the lane lock
\* stays with the capture.
FenceDone(p) ==
  /\ pc[p] = "extend" /\ todo[p] = {} /\ op[p] = "capture"
  /\ registry' = Free
  /\ pc' = [pc EXCEPT ![p] = "hold"]
  /\ fence' = [fence EXCEPT ![p] = now[p]]
  /\ now' = [now EXCEPT ![p] = Never]
  /\ UNCHANGED <<clock, lanes, leases, laneLock, locals, todo>>

\* The heartbeat ticker, or the publication callback, asks for a refresh.
Beat(p) ==
  /\ pc[p] = "hold"
  /\ pc' = [pc EXCEPT ![p] = "registry"]
  /\ UNCHANGED <<clock, lanes, leases, laneLock, registry, locals, now, todo, fence>>

CaptureDone(p) ==
  /\ pc[p] = "hold"
  /\ Refuse(p)
-----------------------------------------------------------------------------
(* Release and abort: every lease first, the lane manifest last. *)

ReleaseBegin(p) ==
  LET l == target[p] IN
  /\ AtRegistry(p, {"release", "abort"})
  /\ ReleaseLinksOK(l)
  /\ EnterRegistry(p, "retire", {i \in Own(l) : leases[i].state = "active"})

ReleaseRefused(p) ==
  /\ AtRegistry(p, {"release", "abort"})
  /\ ~ReleaseLinksOK(target[p])
  /\ Refuse(p)

Retire(p) ==
  /\ pc[p] = "retire"
  /\ \E i \in todo[p] :
       /\ First(i, todo[p])
       /\ leases' = [leases EXCEPT ![i].state = "released"]
       /\ todo' = [todo EXCEPT ![p] = @ \ {i}]
  /\ UNCHANGED <<clock, lanes, laneLock, registry, pc, locals, now, fence>>

\* Mutant: the manifest is written before the last lease records.
CloseLane_Early(p) ==
  /\ pc[p] = "retire"
  /\ lanes' = [lanes EXCEPT ![target[p]].state =
                 IF op[p] = "abort" THEN "aborted" ELSE "released"]
  /\ UNCHANGED leases
  /\ End(p)

\* Mutant: the manifest gets a state its reader does not know.
CloseLane_Closed(p) ==
  /\ pc[p] = "retire"
  /\ todo[p] = {}
  /\ lanes' = [lanes EXCEPT ![target[p]].state = "closed"]
  /\ UNCHANGED leases
  /\ End(p)

CloseLane(p) ==
  /\ pc[p] = "retire"
  /\ todo[p] = {}
  /\ lanes' = [lanes EXCEPT ![target[p]].state =
                 IF op[p] = "abort" THEN "aborted" ELSE "released"]
  /\ UNCHANGED leases
  /\ End(p)
-----------------------------------------------------------------------------
\* The command stops where it is: killed, an I/O error, a lock timeout.
Stop(p) == pc[p] # "idle" /\ Refuse(p)

Tick ==
  /\ clock < MaxClock
  /\ clock' = clock + 1
  /\ UNCHANGED <<lanes, leases, laneLock, registry, pc, locals, now, todo, fence>>

Starts(p) == \E o \in Ops, l \in Lane, S \in Request \cup {{}} : Start(p, o, l, S)

Step(p) ==
  \/ LockLane(p) \/ LaneRefused(p)
  \/ ClaimBegin(p) \/ ClaimRefused(p) \/ RepairLink(p) \/ ClaimSettled(p)
  \/ CreateLease(p) \/ ListLease(p)
  \/ RenewBegin(p) \/ RenewRefused(p) \/ Extend(p) \/ RenewDone(p)
  \/ FenceBegin(p) \/ FenceRefused(p) \/ FenceDone(p) \/ Beat(p) \/ CaptureDone(p)
  \/ ReleaseBegin(p) \/ ReleaseRefused(p) \/ Retire(p) \/ CloseLane(p)

Next == Tick \/ \E p \in Proc : Starts(p) \/ Step(p) \/ Stop(p)

Spec == Init /\ [][Next]_vars
-----------------------------------------------------------------------------
(* Properties. *)

\* Every variable has its type; a command that is not idle has a lane.
TypeOK ==
  /\ clock \in Nat
  /\ lanes \in [Lane -> LaneRecord]
  /\ leases \in [LeaseId -> LeaseRecord]
  /\ laneLock \in [Lane -> Proc \cup {Free}]
  /\ registry \in Proc \cup {Free}
  /\ pc \in [Proc -> Points]
  /\ op \in [Proc -> Ops \cup {"none"}]
  /\ target \in [Proc -> Lane \cup {NoLane}]
  /\ \A p \in Proc : pc[p] # "idle" => target[p] \in Lane /\ op[p] \in Ops
  /\ want \in [Proc -> SUBSET Path]
  /\ now \in [Proc -> Nat \cup {Never}]
  /\ todo \in [Proc -> SUBSET LeaseId]
  /\ allowed \in [Proc -> [Path -> Nat]]
  /\ fence \in [Proc -> Nat \cup {Never}]

\* At no time do two lanes hold active leases whose paths overlap, whatever
\* the interleaving of claims, renewals, expiry and interrupted commands: the
\* reason FindActiveLeaseConflict never fires on records wip wrote itself.
NoCrossLaneOverlap == ~ConflictAt(clock)

\* A capture that refreshed its fence less than a TTL ago still works on an
\* active lane and holds an active lease for every path it started with.
FenceHolds ==
  \A p \in Proc :
    fence[p] # Never /\ clock < fence[p] + TTL =>
      /\ lanes[target[p]].state = "active"
      /\ \A x \in Path : allowed[p][x] > 0 =>
           \E i \in Own(target[p]) : ActiveAt(i, clock) /\ x \in leases[i].paths

\* A claim interrupted between createLease and writeLane leaves at most one
\* unlisted lease, and an exact retry of that claim is admitted by the link
\* check: the lane never gets stuck on it.
ExactRetryAdmitted ==
  \A l \in Lane :
    /\ Cardinality(Unlisted(l)) <= 1
    /\ \A i \in Unlisted(l) : ClaimLinksOK(l, leases[i].paths)

\* A release interrupted after some lease records can always be run again.
ReleaseResumable ==
  \A l \in Lane :
    (\E i \in Own(l) : leases[i].state = "released") => ReleaseLinksOK(l)

\* A lane whose manifest says released or aborted has no active stored lease.
ClosedLaneHoldsNothing ==
  \A l \in Lane : lanes[l].state # "active" =>
    \A i \in Own(l) : leases[i].state = "released"

\* From the first released lease record of a lane on, no lease of that lane
\* is created, extended or revived: finishing the release is the only way
\* forward, as the row of LANE_RELEASE_RECOVERY_REQUIRED in ERRORS.md has it.
\* The doctor's message of that code (doctor.go, which ERRORS.md also says to
\* follow) offers `claim a new exact lease' as well: every such claim is refused.
ReleaseStartedFreezes ==
  [][\A l \in Lane :
       (\E i \in Own(l) : leases[i].state = "released") =>
         \A i \in LeaseId : leases'[i].lane = l =>
           /\ leases[i].lane = l
           /\ leases'[i].expires = leases[i].expires
           /\ leases[i].state = "released" => leases'[i].state = "released"]_vars

\* The registry implements PathOwnership: a lane owns the scopes of its leases
\* active now, and is open while its manifest says active.
Owned(l) == UNION {leases[i].paths : i \in {j \in Own(l) : ActiveAt(j, clock)}}
Abs == INSTANCE PathOwnership WITH
         held <- [l \in Lane |-> Owned(l)],
         open <- [l \in Lane |-> lanes[l].state = "active"]
OwnershipSpec == Abs!Spec
-----------------------------------------------------------------------------
(* The inductive invariant behind the safety properties. *)

\* A command past a lock holds it; its time is not in the future; a command
\* that works on an active lane keeps it active.
HoldsLocks(p) ==
  /\ pc[p] \in Points \ {"idle", "lane"} => laneLock[target[p]] = p
  /\ pc[p] \in {"claim", "list", "extend", "retire"} => registry = p /\ now[p] \in 0..clock
  /\ pc[p] \in {"claim", "list"} => op[p] = "claim"
  /\ pc[p] = "extend" => op[p] \in {"renew", "capture"}
  /\ pc[p] = "hold" => op[p] = "capture"
  /\ pc[p] = "retire" => op[p] \in {"release", "abort"}
  /\ \/ pc[p] \in {"claim", "list", "extend", "hold"}
     \/ pc[p] = "registry" /\ op[p] \notin {"release", "abort"}
     => lanes[target[p]].state = "active"

\* Whatever could clash with a lease about to be extended had expired when
\* the command read its time, and stays expired under the registry lock.
ExtendsSafely(p) ==
  pc[p] = "extend" => \A i \in todo[p] :
    /\ leases[i].state = "active" /\ leases[i].lane = target[p]
    /\ \A j \in LeaseId :
         leases[j].state = "active" /\ Clash(i, j) => leases[j].expires <= now[p]

\* Back-references name own leases; at most one own lease is unlisted, and then
\* no release has started; a closed lane has only released leases.
LinksOf(l) ==
  /\ lanes[l].leaseIds \subseteq Own(l)
  /\ \A i, j \in Unlisted(l) : i = j
  /\ \A i \in Unlisted(l), j \in Own(l) : leases[j].state = "active"
  /\ lanes[l].state # "active" => \A i \in Own(l) : leases[i].state = "released"

\* What a command under the registry lock knows of its lane's records.
WorksOn(p) ==
  LET l == target[p] IN
  /\ pc[p] \in {"claim", "list", "extend"} => \A i \in Own(l) : leases[i].state = "active"
  /\ pc[p] = "claim" =>
       /\ todo[p] \subseteq Unlisted(l)
       /\ Unlisted(l) \subseteq todo[p] \/ Reusable(p) # {} \/ Blocking(p) # {}
  /\ pc[p] = "list" => todo[p] \subseteq Own(l) /\ Unlisted(l) \subseteq todo[p]
  /\ pc[p] = "retire" =>
       /\ todo[p] \subseteq Own(l) /\ Unlisted(l) = {}
       /\ \A i \in Own(l) : leases[i].state = "active" => i \in todo[p]

\* A path of the capture is held by a lease of its lane until time t, or by one
\* that the running refresh has written or is going to write.
HeldUntil(p, x, t) ==
  \E i \in Own(target[p]) :
    leases[i].state = "active" /\ x \in leases[i].paths /\ leases[i].expires >= t
BeingRefreshed(p, x) ==
  \E i \in Own(target[p]) :
    /\ leases[i].state = "active" /\ x \in leases[i].paths
    /\ i \in todo[p] \/ leases[i].expires = now[p] + TTL

\* Since its last complete refresh every path of a capture is held for a full
\* lifetime; during a refresh each is held by a lease written or to be written.
Fenced(p) ==
  /\ fence[p] # Never =>
       /\ pc[p] \in {"registry", "extend", "hold"} /\ op[p] = "capture"
       /\ fence[p] \in 0..clock
       /\ pc[p] = "extend" => fence[p] <= now[p]
       /\ \A x \in Path : allowed[p][x] > 0 => HeldUntil(p, x, fence[p] + TTL)
  /\ pc[p] = "extend" /\ op[p] = "capture" =>
       \A x \in Path : allowed[p][x] > 0 => BeingRefreshed(p, x)
  /\ pc[p] = "hold" => fence[p] # Never

LinksInv == \A l \in Lane : LinksOf(l)
WorkInv == \A p \in Proc : WorksOn(p)
FenceInv == \A p \in Proc : Fenced(p)
LocksInv == \A p \in Proc : HoldsLocks(p)
ExtendInv == \A p \in Proc : ExtendsSafely(p)
=============================================================================
