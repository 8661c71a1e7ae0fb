------------------------------- MODULE Capture -------------------------------
(***************************************************************************)
(* The capture transaction: `wip commit` (cmd/wip/commit.go runCommit with *)
(* internal/engine plan.go and intent.go) and `wip reconcile`.  A capture  *)
(* takes the lane lock, snapshots the source index, builds a private chain *)
(* of commits, renews its lease fence, rechecks the source, writes a       *)
(* prepared intent, moves the lane ref by compare-and-swap, and only then  *)
(* advances the lane cursor.  A command may stop between any two of these  *)
(* steps; the checkout, the index, the hooks and the ref may be changed    *)
(* from outside at any time; leases may lapse.                             *)
(*                                                                         *)
(* The lease registry is reduced to the active paths of each lane (held),  *)
(* as PathOwnership promises them: claims need the lane lock, a release    *)
(* needs it too and closes the lane, leases lapse at any time.  Paths are  *)
(* pairwise unrelated names.  A commit is the sequence of the states since *)
(* the lane base, each a tree and the second it was made in, so that equal *)
(* commits have equal identifiers, as in git.                              *)
(***************************************************************************)
EXTENDS Integers, SequencesExt, FiniteSetsExt

CONSTANTS Proc,        \* running commands
          Lane,        \* lanes, all bound to one checkout
          Path,        \* repository paths
          Version,     \* contents of a path
          Base,        \* its content in the lane base commit
          Hooked,      \* its content after the pre-commit hook rewrote it
          Plan,        \* split plans: sequences of disjoint path sets
          MaxLength,   \* bound on the commits of a lane
          MaxSecond,   \* bound on the clock, in seconds
          MaxEdits,    \* bound on changes from outside
          MaxStops,    \* bound on stopped commands
          Free,        \* a lock nobody holds
          NoLane       \* target of an idle process

ASSUME CaptureAssumption ==
  /\ {Base, Hooked} \subseteq Version
  /\ Plan \subseteq Seq((SUBSET Path) \ {{}}) \ {<<>>}
  /\ {MaxLength, MaxSecond, MaxEdits, MaxStops} \subseteq Nat
  /\ Free \notin Proc /\ NoLane \notin Lane

VARIABLES second,    \* wall clock, the resolution of commit identifiers
          lanes,     \* lane manifests: state and commit cursor
          held,      \* active leased paths of each lane
          ref,       \* lane refs
          intents,   \* capture receipts
          index,     \* the source index
          atBase,    \* whether the source HEAD is the lanes' base commit
          hooks,     \* version of the hook files
          laneLock,  \* holder of each lane lock
          pc,        \* where each command is
          job,       \* what it works on
          edits,     \* changes from outside so far
          stops,     \* commands stopped so far
          foreign    \* lanes whose ref was moved from outside

source == <<index, atBase, hooks>>
shared == <<second, lanes, held, ref, intents>>
vars == <<shared, source, laneLock, pc, job, edits, stops, foreign>>

Tree == [Path -> Version]
BaseTree == [x \in Path |-> Base]
TreeOf(c) == IF c = <<>> THEN BaseTree ELSE Last(c).tree

\* The paths that two trees give different contents.
Changed(t, u) == {x \in Path : t[x] # u[x]}

\* All paths of a split plan.
Requested(plan) == UNION Range(plan)

\* What a capture keeps: its plan and the groups still to build, the active
\* paths and the ref it started from, its index and hook snapshots, the tip of
\* its private chain.  A reconciliation keeps the old and new commit of its plan.
Idle == [lane |-> NoLane, verb |-> "none", plan |-> <<>>, left |-> <<>>, allowed |-> {},
         old |-> <<>>, new |-> <<>>, index |-> BaseTree, hooks |-> 0]

Points == {"idle", "lock", "snapshot", "build", "recheck", "prepare", "publish", "applied",
           "hooks", "record", "complete"}

\* The receipt of a command's plan: at most one per lane, old and new commit.
Receipt(p) == {i \in intents : i.lane = job[p].lane /\ i.old = job[p].old /\ i.new = job[p].new}
-----------------------------------------------------------------------------
Init ==
  /\ second = 1
  /\ lanes = [l \in Lane |-> [state |-> "active", cursor |-> <<>>]]
  /\ held \in [Lane -> SUBSET Path]
  /\ \A l, m \in Lane : l # m => held[l] \cap held[m] = {}
  /\ ref = [l \in Lane |-> <<>>]
  /\ intents = {}
  /\ index \in Tree
  /\ atBase = TRUE
  /\ hooks = 0
  /\ laneLock = [l \in Lane |-> Free]
  /\ pc = [p \in Proc |-> "idle"]
  /\ job = [p \in Proc |-> Idle]
  /\ edits = 0 /\ stops = 0
  /\ foreign = {}

Goto(p, point) == pc' = [pc EXCEPT ![p] = point]

\* The command ends and its lane lock is free.
End(p) ==
  /\ Goto(p, "idle")
  /\ job' = [job EXCEPT ![p] = Idle]
  /\ laneLock' = [l \in Lane |-> IF laneLock[l] = p THEN Free ELSE laneLock[l]]
  /\ UNCHANGED <<source, edits, foreign>>

\* A step of a running command that leaves the source, the locks and the other
\* commands alone.
Quiet == UNCHANGED <<second, held, source, laneLock, edits, stops, foreign>>

\* resolveStatus finds an active lane, without its lock.
StartCommit(p, l, plan) ==
  /\ pc[p] = "idle"
  /\ lanes[l].state = "active"
  /\ job' = [job EXCEPT ![p].lane = l, ![p].verb = "commit", ![p].plan = plan, ![p].left = plan]
  /\ Goto(p, "lock")
  /\ Quiet /\ UNCHANGED <<lanes, ref, intents>>

\* The operator passes the plan id and digest of some receipt.
StartReconcile(p, l, i) ==
  /\ pc[p] = "idle"
  /\ lanes[l].state = "active"
  /\ job' = [job EXCEPT ![p].lane = l, ![p].verb = "reconcile", ![p].old = i.old, ![p].new = i.new]
  /\ Goto(p, "lock")
  /\ Quiet /\ UNCHANGED <<lanes, ref, intents>>

\* The lane lock and, for a capture, the manifest and the active paths.
CommitAdmitted(p) == LET l == job[p].lane IN lanes[l].state = "active" /\ held[l] # {}

LockCommit(p) ==
  LET l == job[p].lane IN
  /\ pc[p] = "lock" /\ job[p].verb = "commit"
  /\ laneLock[l] = Free
  /\ CommitAdmitted(p)
  /\ laneLock' = [laneLock EXCEPT ![l] = p]
  /\ job' = [job EXCEPT ![p].allowed = held[l]]
  /\ Goto(p, "snapshot")
  /\ UNCHANGED <<shared, source, edits, stops, foreign>>
-----------------------------------------------------------------------------
(* The capture. *)

\* RefreshCaptureLease: lane, lease set and source HEAD as at the start.
FenceOK(p) ==
  LET l == job[p].lane IN
  lanes[l].state = "active" /\ held[l] = job[p].allowed /\ atBase

\* The first refresh, the scope of the plan, and the ref against the cursor.
SnapshotOK(p) ==
  LET l == job[p].lane IN
  /\ FenceOK(p)
  /\ Requested(job[p].plan) \subseteq job[p].allowed
  /\ ref[l] = lanes[l].cursor

\* Nothing between these reads depends on another, so they are one step.
Snapshot(p) ==
  /\ pc[p] = "snapshot"
  /\ SnapshotOK(p)
  /\ LET l == job[p].lane IN
     job' = [job EXCEPT ![p].old = ref[l], ![p].new = ref[l], ![p].index = index, ![p].hooks = hooks]
  /\ Goto(p, "build")
  /\ Quiet /\ UNCHANGED <<lanes, ref, intents>>

\* The tree of the next group: the snapshot's entries for its paths over the
\* parent tree, and what the pre-commit hook then rewrites.
Staged(p) ==
  LET group == Head(job[p].left) IN
  [x \in Path |-> IF x \in group THEN job[p].index[x] ELSE TreeOf(job[p].new)[x]]
Repaired(p, fix) == [x \in Path |-> IF x \in fix THEN Hooked ELSE Staged(p)[x]]

\* Mutant: the paths changed by the hook are not compared with the group.
GroupOK_AnyPath(p, fix) ==
  LET parent == TreeOf(job[p].new) IN
  Changed(parent, Staged(p)) # {} /\ Changed(parent, Repaired(p, fix)) # {}

\* No empty commit, before or after the hook; only paths of the group changed.
GroupOK(p, fix) ==
  LET parent == TreeOf(job[p].new) IN
  /\ Changed(parent, Staged(p)) # {}
  /\ Changed(parent, Repaired(p, fix)) # {}
  /\ Changed(parent, Repaired(p, fix)) \subseteq Head(job[p].left) \cap job[p].allowed

BuildGroup(p) ==
  /\ pc[p] = "build" /\ job[p].left # <<>>
  /\ \E fix \in SUBSET Path :
       /\ GroupOK(p, fix)
       /\ job' = [job EXCEPT ![p].new = Append(@, [tree |-> Repaired(p, fix), at |-> second]),
                             ![p].left = Tail(@)]
  /\ UNCHANGED pc
  /\ Quiet /\ UNCHANGED <<lanes, ref, intents>>

\* BeforePublish.
Fence(p) ==
  /\ pc[p] = "build" /\ job[p].left = <<>>
  /\ FenceOK(p)
  /\ Goto(p, "recheck")
  /\ Quiet /\ UNCHANGED <<lanes, ref, intents, job>>

\* HEAD, the selected index entries and the hook files are still those of the
\* snapshot.
RecheckOK(p) ==
  /\ atBase
  /\ \A x \in Requested(job[p].plan) : index[x] = job[p].index[x]
  /\ hooks = job[p].hooks

Recheck(p) ==
  /\ pc[p] = "recheck"
  /\ RecheckOK(p)
  /\ Goto(p, "prepare")
  /\ Quiet /\ UNCHANGED <<lanes, ref, intents, job>>

\* Mutant: the intent is only written if one is found missing later.
Prepare_Late(p) ==
  /\ pc[p] = "prepare"
  /\ Receipt(p) = {}
  /\ Goto(p, "publish")
  /\ Quiet /\ UNCHANGED <<lanes, ref, intents, job>>

\* createIntent: a receipt of an earlier run with the same commits has another
\* digest (its creation time) or is no longer prepared, and is never replaced.
Prepare(p) ==
  /\ pc[p] = "prepare"
  /\ Receipt(p) = {}
  /\ intents' = intents \cup
       {[lane |-> job[p].lane, old |-> job[p].old, new |-> job[p].new,
         requested |-> Requested(job[p].plan), allowed |-> job[p].allowed, state |-> "prepared"]}
  /\ Goto(p, "publish")
  /\ Quiet /\ UNCHANGED <<lanes, ref, job>>

\* Mutant: update-ref without the expected old commit.
Publish_NoCompare(p) ==
  /\ pc[p] = "publish"
  /\ ref' = [ref EXCEPT ![job[p].lane] = job[p].new]
  /\ Goto(p, "applied")
  /\ Quiet /\ UNCHANGED <<lanes, intents, job>>

\* update-ref with the expected old commit.
Publish(p) ==
  /\ pc[p] = "publish"
  /\ ref[job[p].lane] = job[p].old
  /\ ref' = [ref EXCEPT ![job[p].lane] = job[p].new]
  /\ Goto(p, "applied")
  /\ Quiet /\ UNCHANGED <<lanes, intents, job>>

\* Mutant: the cursor is left to a later reconciliation.
PostHooks_Unrecorded(p) ==
  /\ pc[p] = "hooks"
  /\ Goto(p, "complete")
  /\ Quiet /\ UNCHANGED <<lanes, ref, intents, job>>

\* Post-commit hooks run before the heartbeat is stopped and the cursor moves.
PostHooks(p) ==
  /\ pc[p] = "hooks"
  /\ Goto(p, "record")
  /\ Quiet /\ UNCHANGED <<lanes, ref, intents, job>>
-----------------------------------------------------------------------------
(* Reconciliation, and the receipt and cursor writes it shares with captures. *)

\* Mutant: a receipt still marked prepared does not count as applied.
ReconcileOK_AppliedOnly(l, i) ==
  /\ i.lane = l
  /\ lanes[l].cursor \in {i.old, i.new}
  /\ ref[l] = i.new
  /\ i.state # "prepared"

\* ValidateApplied: the receipt is of this lane, the cursor at one of its ends,
\* the ref at its new commit, its chain and changed paths as written.
ReconcileOK(l, i) ==
  /\ i.lane = l
  /\ lanes[l].cursor \in {i.old, i.new}
  /\ ref[l] = i.new
  /\ IsStrictPrefix(i.old, i.new)
  /\ Changed(TreeOf(i.old), TreeOf(i.new)) \subseteq i.requested \cap i.allowed

Settled(l, i) == lanes[l].cursor = i.new /\ i.state = "complete"

\* The lane state is not read again under the lock.
LockReconcile(p) ==
  LET l == job[p].lane IN
  /\ pc[p] = "lock" /\ job[p].verb = "reconcile"
  /\ laneLock[l] = Free
  /\ \E i \in Receipt(p) : ReconcileOK(l, i) /\ ~Settled(l, i)
  /\ laneLock' = [laneLock EXCEPT ![l] = p]
  /\ Goto(p, "record")
  /\ UNCHANGED <<shared, source, job, edits, stops, foreign>>

\* RecordCommit: the ref names the commit and the cursor is one of its ancestors.
RecordOK(p) ==
  LET l == job[p].lane IN
  \/ lanes[l].cursor = job[p].new
  \/ ref[l] = job[p].new /\ IsPrefix(lanes[l].cursor, job[p].new)

Record(p) ==
  /\ pc[p] = "record"
  /\ RecordOK(p)
  /\ lanes' = [lanes EXCEPT ![job[p].lane].cursor = job[p].new]
  /\ Goto(p, IF job[p].verb = "commit" THEN "complete" ELSE "applied")
  /\ Quiet /\ UNCHANGED <<ref, intents, job>>

\* MarkIntent applied: a no-op on a receipt already past it.
MarkApplied(p) ==
  /\ pc[p] = "applied"
  /\ intents' = (intents \ Receipt(p)) \cup
       {[i EXCEPT !.state = IF @ = "prepared" THEN "applied" ELSE @] : i \in Receipt(p)}
  /\ Goto(p, IF job[p].verb = "commit" THEN "hooks" ELSE "complete")
  /\ Quiet /\ UNCHANGED <<lanes, ref, job>>

\* Mutant: the receipt gets a state its reader does not know.
MarkComplete_Done(p) ==
  /\ pc[p] = "complete"
  /\ intents' = (intents \ Receipt(p)) \cup {[i EXCEPT !.state = "done"] : i \in Receipt(p)}
  /\ End(p)
  /\ UNCHANGED <<second, lanes, held, ref, stops>>

\* MarkIntent complete; the command is done.
MarkComplete(p) ==
  /\ pc[p] = "complete"
  /\ intents' = (intents \ Receipt(p)) \cup {[i EXCEPT !.state = "complete"] : i \in Receipt(p)}
  /\ End(p)
  /\ UNCHANGED <<second, lanes, held, ref, stops>>
-----------------------------------------------------------------------------
\* A check fails and the command ends without writing anything.
Refused(p) ==
  /\ \/ pc[p] = "lock" /\ laneLock[job[p].lane] = Free /\
        IF job[p].verb = "commit"
          THEN ~CommitAdmitted(p)
          ELSE ~\E i \in Receipt(p) : ReconcileOK(job[p].lane, i) /\ ~Settled(job[p].lane, i)
     \/ pc[p] = "snapshot" /\ ~SnapshotOK(p)
     \/ pc[p] = "build" /\ job[p].left # <<>> /\ \E fix \in SUBSET Path : ~GroupOK(p, fix)
     \/ pc[p] = "build" /\ job[p].left = <<>> /\ ~FenceOK(p)
     \/ pc[p] = "recheck" /\ ~RecheckOK(p)
     \/ pc[p] = "prepare" /\ Receipt(p) # {}
     \/ pc[p] = "publish" /\ ref[job[p].lane] # job[p].old
     \/ pc[p] = "record" /\ ~RecordOK(p)
  /\ End(p)
  /\ UNCHANGED <<shared, stops>>

\* The command stops where it is: killed, an I/O error, a timeout, a failed
\* heartbeat or verify command; a dry run stops before Prepare.
Stop(p) ==
  /\ pc[p] # "idle"
  /\ stops < MaxStops
  /\ stops' = stops + 1
  /\ End(p)
  /\ UNCHANGED shared

\* The rest of the lease registry.
Claim(l, S) ==
  /\ laneLock[l] = Free /\ lanes[l].state = "active"
  /\ \A m \in Lane \ {l} : S \cap held[m] = {}
  /\ held' = [held EXCEPT ![l] = @ \cup S]
  /\ UNCHANGED <<second, lanes, ref, intents>>
Lapse(l, S) ==
  /\ held' = [held EXCEPT ![l] = @ \ S]
  /\ UNCHANGED <<second, lanes, ref, intents>>
Release(l) ==
  /\ laneLock[l] = Free /\ lanes[l].state = "active"
  /\ lanes' = [lanes EXCEPT ![l].state = "closed"]
  /\ held' = [held EXCEPT ![l] = {}]
  /\ UNCHANGED <<second, ref, intents>>

\* git add, git switch, an edited hook file, a commit on the lane ref.
Stage(x, v) == index' = [index EXCEPT ![x] = v] /\ UNCHANGED <<shared, atBase, hooks, foreign>>
MoveHead == atBase' = ~atBase /\ UNCHANGED <<shared, index, hooks, foreign>>
EditHooks == hooks' = hooks + 1 /\ UNCHANGED <<shared, index, atBase, foreign>>
CommitOutside(l, t) ==
  /\ ref' = [ref EXCEPT ![l] = Append(@, [tree |-> t, at |-> second])]
  /\ foreign' = foreign \cup {l}
  /\ UNCHANGED <<second, lanes, held, intents, source>>

Outside ==
  /\ edits < MaxEdits /\ edits' = edits + 1
  /\ \/ \E l \in Lane, S \in SUBSET Path : (Claim(l, S) \/ Lapse(l, S)) /\ UNCHANGED <<source, foreign>>
     \/ \E l \in Lane : Release(l) /\ UNCHANGED <<source, foreign>>
     \/ \E x \in Path, v \in Version : Stage(x, v)
     \/ MoveHead
     \/ EditHooks
     \/ \E l \in Lane, t \in Tree : CommitOutside(l, t)
  /\ UNCHANGED <<laneLock, pc, job, stops>>

Tick ==
  /\ second < MaxSecond
  /\ second' = second + 1
  /\ UNCHANGED <<lanes, held, ref, intents, source, laneLock, pc, job, edits, stops, foreign>>

Starts(p) ==
  \/ \E l \in Lane, plan \in Plan :
       Len(ref[l]) + Len(plan) <= MaxLength /\ StartCommit(p, l, plan)
  \/ \E l \in Lane, i \in intents : StartReconcile(p, l, i)

Capturing(p) ==
  \/ LockCommit(p) \/ Snapshot(p) \/ BuildGroup(p) \/ Fence(p) \/ Recheck(p) \/ Prepare(p)
  \/ Publish(p) \/ PostHooks(p)
Recording(p) == LockReconcile(p) \/ Record(p) \/ MarkApplied(p) \/ MarkComplete(p)

Next ==
  \/ Tick \/ Outside
  \/ \E p \in Proc : Starts(p) \/ Capturing(p) \/ Recording(p) \/ Refused(p) \/ Stop(p)

Spec == Init /\ [][Next]_vars

\* A started command goes on, is refused or stops; an operator who is told of a
\* receipt that can be reconciled runs `wip reconcile` again and again until it
\* gets the lane lock.
Fairness ==
  /\ \A p \in Proc : /\ WF_vars(Capturing(p) \/ Recording(p) \/ Refused(p))
                     /\ SF_vars(LockReconcile(p))
  /\ \A l \in Lane : SF_vars(\E p \in Proc, i \in intents :
                               ReconcileOK(l, i) /\ ~Settled(l, i) /\ StartReconcile(p, l, i))

FairSpec == Spec /\ Fairness
-----------------------------------------------------------------------------
(* Properties. *)

Commit == Seq([tree : Tree, at : Nat])
ReceiptRecord == [lane : Lane, old : Commit, new : Commit, requested : SUBSET Path,
                  allowed : SUBSET Path, state : {"prepared", "applied", "complete"}]
Job == [lane : Lane \cup {NoLane}, verb : {"none", "commit", "reconcile"}, plan : Seq(SUBSET Path),
        left : Seq(SUBSET Path), allowed : SUBSET Path, old : Commit, new : Commit, index : Tree,
        hooks : Nat]

\* Every variable has its type; receipts have distinct identifiers.
TypeOK ==
  /\ second \in Nat
  /\ lanes \in [Lane -> [state : {"active", "closed"}, cursor : Commit]]
  /\ held \in [Lane -> SUBSET Path]
  /\ ref \in [Lane -> Commit]
  /\ intents \subseteq ReceiptRecord
  /\ \A i, j \in intents : i.lane = j.lane /\ i.old = j.old /\ i.new = j.new => i = j
  /\ index \in Tree /\ atBase \in BOOLEAN /\ hooks \in Nat
  /\ laneLock \in [Lane -> Proc \cup {Free}]
  /\ pc \in [Proc -> Points]
  /\ job \in [Proc -> Job]
  /\ edits \in Nat /\ stops \in Nat /\ foreign \subseteq Lane

\* Whatever stopped and wherever, a lane ref that wip alone moved is either at
\* the lane cursor or one unfinished receipt leads from the cursor to it, and
\* `wip reconcile` accepts that receipt: the crash table of ARCHITECTURE.md.
Recoverable ==
  \A l \in Lane \ foreign : ref[l] # lanes[l].cursor =>
    \E i \in intents : /\ i.lane = l /\ i.old = lanes[l].cursor /\ i.new = ref[l]
                       /\ i.state # "complete"
                       /\ ReconcileOK(l, i)

\* What a receipt says is so, and stays so through later captures and late
\* reconciliations of older receipts: complete, the cursor has reached its commit;
\* applied, its commit is on the lane ref and the cursor has reached it too, or is
\* still where the capture started and `wip reconcile` takes the receipt.
ReceiptsTellTrue ==
  \A i \in intents :
    /\ i.state = "complete" => IsPrefix(i.new, lanes[i.lane].cursor)
    /\ i.state = "applied" =>
         /\ IsPrefix(i.new, ref[i.lane])
         /\ \/ IsPrefix(i.new, lanes[i.lane].cursor)
            \/ lanes[i.lane].cursor = i.old /\ (i.lane \in foreign \/ ReconcileOK(i.lane, i))

\* Every commit after old, up to new, changes only these paths.
InScope(old, new, paths) ==
  \A n \in Len(old) + 1 .. Len(new) :
    Changed(TreeOf(SubSeq(new, 1, n - 1)), TreeOf(SubSeq(new, 1, n))) \subseteq paths

\* Between its old and its new commit a receipt changes only paths that its lane
\* had leased when the capture started, whatever the pre-commit hook rewrote.
CapturedInScope == \A i \in intents : InScope(i.old, i.new, i.allowed)

\* No commit on a lane ref is ever lost, even one that somebody else put there
\* while a capture was prepared: wip only extends the commit it started from.
NoCommitLost == [][\A l \in Lane : IsPrefix(ref[l], ref'[l])]_vars

\* The transaction implements LaneHistory: through interleavings and stops, a
\* capture puts its whole split plan on the lane ref or nothing of it, in order,
\* each commit within its group and none empty, only on top of what the cursor
\* tells and only while the lane is active; and nothing already there is lost.
History == INSTANCE LaneHistory WITH
  history <- ref,
  recorded <- [l \in Lane |-> lanes[l].cursor],
  open <- [l \in Lane |-> lanes[l].state = "active"]
HistorySpec == History!Spec

\* A command that comes to record its commit, a capture or a reconciliation, is
\* not refused there, unless somebody else has moved the lane ref.
RecordingGoesOn ==
  \A p \in Proc : pc[p] = "record" /\ job[p].lane \notin foreign => RecordOK(p)

\* A lane ref that got ahead of its cursor is caught up with, unless somebody
\* moves the ref or releases the lane first.
Reconciled ==
  \A l \in Lane :
    ref[l] # lanes[l].cursor ~>
      (ref[l] = lanes[l].cursor \/ l \in foreign \/ lanes[l].state = "closed")

\* ARCHITECTURE.md, crash table: after an `applied` intent and while the ref is
\* where the capture put it, `wip reconcile` is the way to go on.
AppliedIsReconcilable ==
  \A i \in intents : i.state = "applied" /\ i.lane \notin foreign =>
    lanes[i.lane].state = "active" /\ ReconcileOK(i.lane, i)
-----------------------------------------------------------------------------
(* The inductive invariant behind the safety properties. *)

CapturePoints == {"snapshot", "build", "recheck", "prepare", "publish", "hooks"}

\* A command past the lock holds it, and only captures are at these points.
Locked ==
  \A p \in Proc :
    /\ pc[p] = "idle" => job[p] = Idle
    /\ pc[p] # "idle" => job[p].lane \in Lane /\ job[p].verb # "none"
    /\ pc[p] \notin {"idle", "lock"} => laneLock[job[p].lane] = p
    /\ pc[p] \in CapturePoints => job[p].verb = "commit"

\* new extends old, by nothing that is not asked for and leased.
Built(old, new, requested, paths) ==
  /\ IsPrefix(old, new)
  /\ Changed(TreeOf(old), TreeOf(new)) \subseteq requested \cap paths
  /\ InScope(old, new, paths)

\* The commits from old to new are those of the first groups of a plan, one each:
\* not empty and within the group.
Grouped(old, new, plan) ==
  \A n \in 1 .. Len(new) - Len(old) :
    LET k == Len(old) + n
        changes == Changed(TreeOf(SubSeq(new, 1, k - 1)), TreeOf(SubSeq(new, 1, k))) IN
    changes # {} /\ changes \subseteq plan[n]

\* The private chain of a capture: one commit for each group no longer left.
Chain(p) ==
  LET done == Len(job[p].new) - Len(job[p].old) IN
  job[p].verb = "commit" =>
    /\ job[p].plan \in Plan
    /\ pc[p] \in {"lock", "snapshot"} => job[p].left = job[p].plan
    /\ pc[p] \notin {"lock", "snapshot"} =>
         /\ job[p].left = SubSeq(job[p].plan, done + 1, Len(job[p].plan))
         /\ done \in 0 .. Len(job[p].plan)
         /\ Built(job[p].old, job[p].new, Requested(job[p].plan), job[p].allowed)
         /\ Grouped(job[p].old, job[p].new, job[p].plan)
    /\ pc[p] \notin {"lock", "snapshot", "build"} => job[p].left = <<>>

ChainBuilt == \A p \in Proc : Chain(p)

\* How far the ref and the cursor of its lane are at each point of a command.
Reached(p) ==
  LET l == job[p].lane IN
  /\ job[p].verb = "commit" /\ pc[p] \notin {"lock", "snapshot", "complete"} =>
       lanes[l].cursor = job[p].old
  /\ pc[p] = "complete" => lanes[l].cursor = job[p].new
  /\ pc[p] = "applied" /\ job[p].verb = "reconcile" => lanes[l].cursor = job[p].new
  /\ pc[p] = "publish" => \E i \in Receipt(p) : i.state # "complete"
  /\ pc[p] \in {"applied", "hooks", "record", "complete"} =>
       IsPrefix(job[p].new, ref[l]) /\ (l \in foreign \/ ref[l] = job[p].new)
  /\ job[p].verb = "reconcile" /\ pc[p] = "record" =>
       lanes[l].cursor \in {job[p].old, job[p].new} /\ IsPrefix(job[p].old, job[p].new)
  /\ job[p].verb = "commit" /\ pc[p] \notin {"lock", "snapshot"} => lanes[l].state = "active"

Progress == \A p \in Proc : Reached(p)

\* Every receipt leads forward and within its scope.
ReceiptsBuilt ==
  \A i \in intents : i.old # i.new /\ Built(i.old, i.new, i.requested, i.allowed)

\* The cursor tells of a part of the history, never of anything else.
CursorBehind == \A l \in Lane : IsPrefix(lanes[l].cursor, ref[l])

CaptureInv ==
  /\ TypeOK /\ Locked /\ ChainBuilt /\ Progress /\ ReceiptsBuilt
  /\ Recoverable /\ CursorBehind /\ ReceiptsTellTrue
=============================================================================
