# A TLA+ model of wip

`wip` lets several agents commit work in progress from one repository without
stepping on each other. An agent initializes a *lane* (a record, a ref and
possibly a linked worktree), leases path scopes to it, captures the staged
content of those paths as commits on the lane ref, and finally releases the
lane; old lanes are archived. There is no server: every command is a process of
its own, and the only shared state is JSON records in the coordination
directory, lock files, and git refs. Any command may be killed between any two
writes, so each operation is a sequence of durable steps that a later command
must be able to recognize and finish.

This directory holds the specifications of that protocol, the TLC runs that check
small instances of them, and theorems that TLAPS checks for every instance.
`PROJECT.json` lists, for each definition, the source lines it stands for.

## Inventory

| Component | Source | State | Operations | Modelled in |
|---|---|---|---|---|
| Path identity | `internal/pathid`, `gitx.NormalizePaths` | none | key, overlap, coverage | `WipPaths` |
| Lease registry | `internal/store/store.go`, `cmd/wip/commands.go` | lane manifests, lease records, lane locks, registry lock | claim, renew, release, abort, capture refresh and heartbeat | `LeaseRegistry` |
| Lease audit | `store.go` `FindActiveLeaseConflict` | a trie per audit | lookup, insert | `PathTrie` |
| Capture transaction | `cmd/wip/commit.go`, `internal/engine` | lane ref, cursor, capture receipts, private index, hooks | commit, reconcile | `Capture` |
| Lane creation and `wip init` | `cmd/wip/init*.go`, `store.go` `Create` | setup intents, checkouts, manifests, refs, profiles, installed files | six recorded steps, create, finish creation | `LaneSetup` |
| Archive | `internal/store/archive.go`, `cmd/wip/archive.go` | receipts, batch directories, `archive.lock` | preview, apply, resume, restore | `Archive` |
| File locks | `internal/filelock` | one OS lock per file, a heartbeat thread per capture | acquire with timeout, release, release by death | `CommandLocks`; as lock variables in the modules above |
| Atomic files, safe reading | `internal/atomicfile`, `internal/safeio` | temporary files, names, what is on disk | create without replacing, replace, compare and read | `RecordFile`; one step in the modules above |
| Domain bootstrap | `store.Open`, `Inspect`, `Check` | directories, domain marker, coordination lock | open, check | `StateRoot` |
| Doctor | `cmd/wip/doctor.go` | none | read-only diagnosis | `RegistryDoctor` (lanes and leases) |
| Plans, messages, encoding, processes | `plan_command.go`, `message.go`, `recordjson`, `strictjson`, `process` | none | parsing, formatting, process groups | no |
| Release scripts | `scripts/` | outside the program | build, hand-off | no |

How they interact. Every command first resolves a lane from its profile without a
lock (`resolveStatus`), so what it knows is old by the time it holds the lane
lock. The lock order is `archive.lock`, lane locks, registry lock. A capture
keeps the lane lock for its whole life and takes the registry lock for each fence
refresh, including those of a heartbeat goroutine; the refresh runs the trie
audit. A release changes leases first and the manifest last; an archive run moves
only records of lanes that are released. `init` calls Create and Claim of the
registry between its own records. Every command but the read-only ones opens the
state root first, under the coordination lock. `wip doctor`, `status` and the
archive preview read records without any lock.

What is hard here:

- *interleaving*: claims scanning at the same time, a renewal of a lease that has
  just expired while another lane claims its paths, a ref moved under a capture,
  two runs of one setup, an archive plan applied after its lanes were used again;
- *crashes* between the durable writes of one operation: lease and manifest,
  receipt and ref and cursor, creating and active manifest, any two renames of an
  archive batch, an installed file and its record;
- *power failures* between writing, syncing and publishing a record or a
  directory;
- *waiting*: several locks per command, a heartbeat thread that needs one of them,
  an exit that waits for that thread;
- *torn reads*: an audit that reads many records, one by one, without a lock;
- *time*: leases expire while the holder works, each command reads the clock
  once, commit identifiers repeat within a second;
- *equivalent spellings* of paths, and scopes above or below each other;
- *liveness*: a ref left ahead of its cursor must eventually be caught up with.

The `hazards` list of `PROJECT.json` gives each at its line, with the property
that would catch it.

What makes each component correct:

- registry: leases of two lanes never overlap; a capture that refreshed in time
  still owns its paths; every interrupted claim or release can be finished and
  nothing else can happen before; closed lanes hold nothing;
- capture: only leased paths are captured, nobody's commit is lost, every
  stopped capture is either undone or reconcilable, completion is never early;
- setup: a worktree is exclusive, a recorded step is done, nothing is replaced,
  an unfinished creation can be finished;
- archive: each manifest and lease is in exactly one place and no profile name is
  lost, a complete receipt has all of its records, active lanes are never moved;
- audit: an answer without a conflict is as good as comparing all pairs;
- doctor: damage that lasts is reported, and what it reports as impossible really
  is damage;
- locks: no circle of waiting commands, no heartbeat without its lane lock;
- records: whole, durable once acknowledged;
- state root: one coordination domain and one state version, ever.

## Modules

```
WipPaths            paths, keys, overlap          in LeaseRegistryProofs
  PathOwnership     what the registry promises
  LeaseRegistry     implements PathOwnership      LeaseRegistryProofs
  PathTrie          the audit                     PathTrieProofs
  RegistryDoctor    wip doctor beside it          RegistryDoctorProofs
LaneHistory         what captures promise
  Capture           commit and reconcile          CaptureProofs
SetupLedger         what initializations promise
  LaneSetup         init and lane creation        LaneSetupProofs
RecordShelves       what archiving promises
  Archive           archive, resume, restore      ArchiveProofs
CommandLocks        all locks, the heartbeat      CommandLocksProofs
RecordFile          one record on disk
  StateRoot         the bootstrap, and a record   StateRootProofs
  DomainOwner       what the bootstrap promises
MC_*                instances for TLC
```

**WipPaths.** A path is a sequence of components. Unicode normalization, case
folding and lower case are one idempotent function `Fold`, of which nothing else
is assumed. `Overlap` and `Covered` compare keys at component boundaries, as
`pathid` does.

**PathOwnership.** The abstract registry: open lanes gain scopes that overlap
nobody else's, lose them at any time, and close when they own nothing.

**LeaseRegistry.** One process per command. Program points are the lock
acquisitions and the record writes: `LockLane` re-reads the manifest under the lane
lock, `ClaimBegin`/`RenewBegin`/`FenceBegin`/`ReleaseBegin` are the checks under
the registry lock together with the one read of the clock (`now`), `CreateLease`,
`ListLease`, `RepairLink`, `Extend`, `Retire` and `CloseLane` are one
`writeLease`/`writeLane` each, and `Beat` is the heartbeat. `Stop` ends a command
anywhere; its locks become free, its writes stay. Lease identifiers are numbers in
order of creation, as the list order of the code is.

**PathTrie.** `terminal` and `descendant` are the two maps of all trie nodes,
with one owner per lane and node: a later owner of a lane replaces an earlier
one, which is the delicate part. The code sorts the owners; the model takes them
in any order and reports any owner a node offers, so it covers the sorted run.

**LaneHistory.** The abstract capture: one step adds the commits of a whole plan to an
open lane whose recorded commit is its last one, each commit within its own group of
paths and none of them empty; other steps record the history, add commits from outside
or close the lane.

**Capture.** Points follow `engine.Run`: snapshot, build one private commit per
group (with the pre-commit hook possibly rewriting the staged content), fence,
recheck of source and hooks, prepared receipt, compare-and-swap of the ref,
applied receipt, post-commit hooks, cursor, complete receipt. A commit is the
sequence of its ancestors' trees and seconds, so that two captures of the same
content within one second have the same identifier, as in git. The registry is
reduced to what `PathOwnership` promises. Outside the capture, the index, HEAD,
the hook files, the ref and the leases may change.

**SetupLedger.** The abstract initialization: manifest, leases, profile, binary are
written in that order and never replaced, a checkout is given only once in worktree
mode, and the ledger of a setup gains one step at a time, each when its effect is there.

**LaneSetup.** The six steps of `executeInit`, each followed by `Mark`, the
append to the setup intent under the intent lock. `EnsureLane` reads the manifest
without a lock; `CreateLane`, `CreateRef`, `Activate` are the three writes of
`Create` and `finishCreate`. The skill bundle is installed file by file. Claim is
one step; its detail is `LeaseRegistry`.

**RecordShelves.** The abstract archive: batches go prepared, complete, restoring,
restored; one record at a time goes between the state directory and the shelf of its
batch, out only when its use of the lane is over, manifests after everything else.
A profile may come at any time and is the only record that a restored one may replace.
There are no commands, locks or lists of work in it.

**Archive.** A record is a kind, a lane and a *generation*: the lane identifier
may be used again once its manifest has been moved. Manifests and profiles are
files named after the lane, so two generations collide; leases have names of
their own. Plans and receipts list file names (`Name`), as in the code, and which
record is behind a name is what an interrupted run can get wrong. `Move` is one rename
in the order of the code, manifests last; nothing but an archive command writes into a
batch, so the look at its destination and the rename are one step. A restore is
two: `Look` finds the live name free (`Skip`: it is there already), and `MoveBack` is
the rename, which replaces whatever has come to that name since. `Apply` rechecks the
plan under the locks; `Restore` validates before the lane locks are taken and `Relock`
rechecks the refs, as the code does. Beside the archive a lane is created (`Create`, the
manifest) and claims (`Claim`, the lease) under its lock; `WriteProfile` is the last
step of an `init` and takes no lock, so it may come long after the lane was
released, archived or used again.

**RegistryDoctor** extends `LeaseRegistry` with one audit that takes no lock: the
manifests are read one at a time, then the lease directory, the clock, and the
leases one at a time, as `auditDoctor` does. The code sorts both by name, but names
are chosen freely or random, so the model reads each in any order. A read may be
refused when its record is replaced under it (`read.go:37-39`), and always is when the
record has been archived since it was listed; the audit notes an error and goes on
without the record. Every step of the registry may happen between any two reads, and so
may an archive run that takes the leases of a closed lane away one by one and then its
manifest (`ArchiveLane`; the receipts are in `Archive`). The findings are operators over
what was read. `damaged` is an observer: the leases that have been damaged since the
audit began without a break. Restores and new lanes do not run beside the audit; a
directory listing is one read; the expired-lease warning and the ref comparison do not
count for a property here.

**CommandLocks** has each command as the set of locks it takes, and a capture in
full, with its heartbeat thread: first fence, work, last fence, `stop()` and its wait
for the thread's answer. Locks are numbers in the documented order. `GiveUp` and
`BeatTimeout` are deadlines, `Die` the death of a process. The context of the
program is never cancelled (`main.go` passes `context.Background()`).

**RecordFile** is one record below the "one write is one step" of the other modules:
temporary file, write, sync, link or rename, directory sync, and a lock-free reader
with its comparisons before and after. After a loss of power a name shows any body it
has shown since its directory was synced, and a body that was not synced may be
partial. It has no specification of its own.

**StateRoot** extends it with `Open`, `Inspect` and `prepareStateRoot` for releases
with different state versions and for the legacy tool, of which only what the code
relies on is assumed: it takes the same lock and refuses when `wip` exists. Deaths at
any step; a loss of power takes any set of names not yet synced. `DomainOwner` is the
abstract specification: at most one owner, claimed by a creation, never handed over.

## Runs

`tlc -config <cfg> <module>` in this directory. All bounds are constants of the
configurations.

| Run | Module, configuration | Result |
|---|---|---|
| `registry` | `MC_LeaseRegistry`, `MC_LeaseRegistry.cfg` | `TypeOK`, `NoCrossLaneOverlap`, `FenceHolds`, `ExactRetryAdmitted`, `ReleaseResumable`, `ClosedLaneHoldsNothing`, `OwnershipSpec`, `ReleaseStartedFreezes` hold |
| `doctor` | `MC_RegistryDoctor` | `AuditTypeOK`, `NoInventedConflict`, `ClosedLaneNotAccused`, `LastingDamageReported`, `VerdictIsLinkCheck` hold |
| `trie` | `MC_PathTrie` | `ReportedIsOverlap`, `ScanIsComplete` hold |
| `capture` | `MC_Capture`, `MC_Capture.cfg` | `TypeOK`, `Recoverable`, `ReceiptsTellTrue`, `CapturedInScope`, `HistorySpec` hold |
| `capture_live` | same, `MC_Capture_Live.cfg` | `Reconciled` holds under `FairSpec` |
| `capture_applied` | same, `MC_Capture_Applied.cfg` | `AppliedIsReconcilable` violated |
| `setup` | `MC_LaneSetup`, `MC_LaneSetup.cfg` | `TypeOK`, `WorktreeExclusive`, `RecordedIsDone`, `LedgerSpec` hold, no deadlock |
| `setup_creating` | same, `MC_LaneSetup_Creating.cfg` | `CreatingCanFinish` violated |
| `archive` | `MC_Archive`, `MC_Archive.cfg` | `TypeOK`, `RecordsKept`, `CompleteIsStored`, `MixedIsReported`, `StoppedCanContinue`, `ShelfSpec` hold |
| `archive_restoring` | same, `MC_Archive_Restoring.cfg` | `RestoringCanContinue` violated |
| `locks` | `MC_CommandLocks` | `NobodyStuck`, `BeatUnderLaneLock`, `WaitsInOrder` hold, `EveryCommandEnds` holds under `FairSpec`, no deadlock |
| `domain` | `MC_StateRoot` | `RootTypeOK`, `OneDomain`, `NothingTorn`, `AckedKept`, `DomainSpec` hold, no deadlock |

`OwnershipSpec`, `HistorySpec`, `LedgerSpec`, `ShelfSpec` and `DomainSpec` are
refinements: the abstract specification under a mapping, checked as a property.

Bounds, and why they are enough for the cases that matter:

- *registry*: two commands, two lanes, two lease records, three paths of which one
  is below another in a different spelling, `TTL` 2, clock up to 3. A lease can
  expire while its holder is still writing, be claimed by the other lane, and a
  refresh can come in time or late. A third command adds only another waiter,
  since each record has one writer at a time. The theorems below remove the bound.
- *trie*: up to four paths out of eight (one to three components, two spellings),
  three lanes; four paths are needed for a replaced entry and a later path that
  would have met the one replaced. The theorems remove the bound.
- *capture*: two commands on one lane, two paths, plans of one and two commits, at
  most two commits and two seconds, one stop and one change from outside. One
  stop anywhere gives every crash point; a second command meets it as a capture
  or a reconciliation, or runs beside it.
- *setup*: four setups of which pairs share a lane identifier, a checkout (in
  worktree mode with and without `--create-worktree`), a path or the install targets;
  two commands, one stop, one change from outside, a bundle of two files.
- *archive*: two lanes with all kinds of records, one of which (`Busy`) is used a
  second time and has late profiles and a moved ref; three clock values, two receipts,
  one stop. A command that stops may be followed by any other. A second command runs
  beside the first on the busy lane alone and without a stop or a moved ref (the
  constraint `MCBeside`): that is where a plan can be applied after another command
  has archived its lane and somebody uses it again. The violation uses two commands,
  one lane with any set of records and one more clock value. The theorems remove the
  bounds, as those of *capture* and *setup* do.
- *doctor*: one command at a time (as many one after the other as the clock and the
  leases allow), two lanes that want one path, two leases, `TTL` 2, clock up to 2, one
  refused read (`MaxRefused`) and one archived lane (`MaxArchived`) in an audit.
  Between two reads of the audit a lease can expire, be released, be claimed by the
  other lane and be renewed. The theorems remove the bounds, also that on the commands.
- *locks*: two commands and two lanes; each of the two can be an archive run over
  both lanes, a capture or anything else. A circle of three would need a third; the
  theorem covers it.
- *domain*: two processes, two releases and the legacy tool, three bodies of the
  record, one loss of power. Three bodies are a creation, a lost race and a
  replacement. After a loss of power everything runs on, to its next commands. The
  theorems remove the bounds.

Deadlock is checked in `setup`, `locks` and `domain`. The others really may stop: all lanes are
released or nothing is left to archive when the clock has reached its bound, and
a scan ends.

**Fairness** is used in `capture_live` and `locks`. In `CommandLocks` each thread goes
on when it can (hooks and tests have timeouts, and a user who is asked for groups is
taken to answer); taking a lock is strongly fair, since a waiter polls until its
deadline and meets a lock that is free again and again, and so is the heartbeat's
choice between its ticker and its cancelled context, since `select` chooses among
ready cases at random. Deadlines and deaths are never fair: `EveryCommandEnds` says
that none is needed. `FairSpec` of `Capture` has weak fairness on the
steps of a running command (a process that is neither killed nor waiting goes
on), strong fairness on taking the lane lock for a reconciliation (locks are
polled until the timeout, and the operator tries again), and strong fairness on
starting a reconciliation of a receipt that is still to be settled (the operator
does what `wip doctor` and the crash table tell him). Nothing forces a command to
start or to succeed otherwise, and `Stop` is never fair.

## Findings

Where the code and its documents disagree; each is a run with one property.

1. `AppliedIsReconcilable`: a lane can be released between a stopped capture and
   its reconciliation; the `applied` receipt then has no command that accepts it,
   although the crash table says to run `wip reconcile`.
2. `CreatingCanFinish`: `ensureLane` refuses every lane that is not active, so the
   recovery in `Create` is not reached by the exact retry that the architecture
   document and `wip doctor` ask for.
3. `RestoringCanContinue`: after an interrupted restore the manifest name is free;
   if somebody initializes a lane of that name the receipt can never be finished.

Smaller observations, in the models but without a run: overlapping release and abort
commands rewrite each other's final state (`store.go:1007`, `CloseLane`);
post-commit hooks run before the cursor moves and the receipt is complete, the
reverse of the documented order (`plan.go:303`, `PostHooks`); an archive run moves
support records before the manifest, while the comment on that order says that
readers then never see a lane without them (`archive.go:201`, `Move`); directories
are never synced into their parents (`atomicfile.go:24`, `PowerLoss`); a reader
that meets a replacement refuses a healthy record (`read.go:38`, `EndRead`); and
profiles are bound to a batch by their name only (`archive.go:596`, `FilesOK`), so
that after enough interrupted runs a batch can hold the profile of another use of the
lane identifier, which is why `CompleteIsStored` speaks of manifests and leases.

The profile of a lane is the one record that is written without a lock
(`profile.go:63`, called by `init.go:480`), and three things follow. A restore that
found the live name free replaces a profile that comes before its rename
(`archive.go:451-466`, `MoveBack`): the content of the profile of an active lane may be
lost, though never its name, which is what `RecordsKept`, `OnlyClosedLeave` and
`RecordShelves` say. A slow second run of an `init` may write the profile of a lane that
has been archived; the file is then on both sides and `ValidateArchiveFiles` refuses the
batch, for a resume as for a restore (a cause of its own in `Disturbed`). And such a
profile outlives its lane, so that the next agent that initializes a lane of
that identifier gets `PROFILE_CONFLICT` (`profile.go:75`).

`wip doctor` reports `LEASE_REFERENCE_MISSING` for a healthy lane when a lease record is
replaced while it is read or its lane is archived during the audit, and `ORPHAN_LEASE`
when a manifest is replaced while it is read (`doctor.go:101-104`, `124-134`,
`157-167`). The first case always has an error for the very record beside it; `ClosedLaneNotAccused` and
`LastingDamageReported` say exactly how far the report can be trusted.

On a half-released lane the documents disagree with each other: `docs/ERRORS.md:15` says
to rerun the exact release and not to claim, while the message of `doctor.go:146`, which
`docs/ERRORS.md:87` says to follow, offers to "finish release or claim a new exact
lease". The code refuses the claim (`LaneLinksOK`), so `ReleaseStartedFreezes` holds and
the second half of the message cannot be followed.

## Theorems

Checked by `tlapm <module>`; they hold for all constants that satisfy the named
assumptions (`PathAssumption`: `Fold` idempotent, paths non-empty;
`RegistryAssumption`: requests normalized, lease identifiers a finite set of
naturals, a positive lifetime; `TrieAssumption`, `CaptureAssumption`,
`SetupAssumption`, `ArchiveAssumption`, `LocksAssumption`, `RecordAssumption`, `RootAssumption`: the constants have their
types, and the value for "nothing" is none of them). Three assumptions say more than
that: in `SetupAssumption` a setup that creates its checkout is in worktree mode
(`init.go:142-144` refuses any other; worktree mode without creation is included), in
`ArchiveAssumption` a lane that has a profile at the start has its lease, since `init`
claims first, and `Busy` is a set of lanes.

*LeaseRegistryProofs*, first about paths: overlap of scope sets is symmetric, disjoint
scope sets cover no common path, a covered path overlaps its scope, keys are
idempotent. Then all eight properties of the `registry` run, for any
number of commands, lanes, leases and paths. None is inductive alone. The argument:

- `LocksInv`: a command past a lock holds it, the time it read is not in the
  future, and its lane stays active while it works on it (only a release closes a
  lane, and it needs the same lock).
- `ExtendInv`: when a renewal or refresh read its time, everything that could
  clash with the leases it is about to extend had expired, and under the registry
  lock nothing else becomes active. This is what makes it safe that `Extend` works
  with an old time. With `LocksInv` it gives `NoOverlap`, hence on paths (by
  `DisjointScopesShareNoPath`) that two lanes never cover a common file.
- `LinksInv` and `WorkInv`: back-references name own leases, at most one own lease
  is unlisted and then no release has started, a closed lane has only released
  leases; and what a command in the middle knows about the records. From these
  follow `RetryAdmitted`, `ReleaseCanResume`, `ClosedHoldsNothing` and
  `ReleaseFreezes`.
- `FenceInv`: since its last complete refresh each path of a capture is held for a
  full lifetime, and during a refresh by a lease written or to be written. This
  gives `CaptureFenced`.
- `ImplementsOwnership`: under the mapping (scopes of leases active now, manifest
  active) each step is a gain, a lapse, a close or a stutter of `PathOwnership`.

*PathTrieProofs*: `AuditSound` and `AuditComplete`. The invariant says that each
entry of a map is an inserted path at a node of its key, and that each inserted
path has, at every node of its key, an entry *of its lane*, perhaps another path.
Since only the lane matters for a conflict, a replaced entry is never missed.

*RegistryDoctorProofs*: all five properties of the `doctor` run, over the invariant of
`LeaseRegistryProofs`, for any order of reading and any number of refused reads and
archived lanes. `AuditInv` relates what was read to what is there now. Back-references
of a manifest only grow and closed lanes stay closed (`SeenLanes`); what has been
archived was undamaged and of a closed lane (`GoneIsClosed`); whatever a
manifest referred to is in the later listing or archived, and lasting damage is in it
(`SeenListing`); owner and paths of a lease never change and its state agrees with the
older look at its lane (`SeenLeases`). The conflict is the hard part: `SeenApart` says
that of two listed leases that overlap one was *over* when the audit read the clock,
that is released, or expired and not about to be extended, and it stays so at that
time, since an extension after expiry needs the registry lock and no clash. Before the
clock is read this is `NoOverlap` and `ExtendInv` of the registry; after it, no step
brings the lease back at that time.

*CommandLocksProofs*: the three safety properties of the `locks` run, and the types.
`LocksInv` adds to `WaitsInOrder` which point a command has reached (`CommandShape`) and
which locks it can own there (`OwnedShape`). From a lock number that grows along every
wait follows `NobodyIsStuck`: if any command has begun, some command can take a step
with no deadline passing and nobody dying. If none could, then some lock would
be held by a command that is still taking locks; take the last such lock
(`FirstAndLast`, by well-founded descent). Its owner wants a later one, which is itself
held, by such a command or by one that waits for the registry (`NextIsHeld`,
`WaitingPoints`); the registry then is held by such a command, and either way the last
lock was not the last. That these steps do happen in time is
`EveryCommandEnds`, which is model-checked.

*StateRootProofs*: the five properties of the `domain` run. For the record
(`RecordInv`): bodies are begun in the order of their numbers, the name can only show
synced bodies no older than the last acknowledged one, and the holder of the lock is
about to publish a newer one. For the domain (`RootInv`): what a command has found out
under the coordination lock still holds, everything lies below `wip`, and a command
without the right to claim the domain has seen it claimed (`Entitled`), which a loss of
power cannot spoil because it ends every command. Refinement: making a root or the
marker is a `Claim`, or a stutter when the owner was there; opening is `Enter`.

*CaptureProofs*: the five properties of the `capture` run, for any number of
commands, paths, plans and stops. `Recoverable` alone is not inductive: that
the receipt of a stopped capture starts at the cursor is known only because nobody but
the holder of the lane lock moves the cursor. `CaptureInv` therefore has `Locked` (a
command past the lock owns it), `Chain` (what the holder has built extends the commit
it started from, which is the cursor, by one commit per group built so far, each
changing something of its group, also after the hook has rewritten it) and `Reached` (what is durable at each point: a prepared receipt
before the ref, an applied one before the cursor, the cursor before completion). From
these and `CursorBehind` (the cursor is a part of the ref's history) follow `StoppedIsRecoverable`, `ScopeIsKept`, `CommitsAreKept` (the new commit
extends the expected old one, which the compare-and-swap makes the ref's own) and
`ReceiptsAreTrue`: an applied receipt is of commits that are on the ref and recorded or
still accepted by `RecordOK`, a complete one of commits the cursor has passed.
`RecordingSucceeds` says the same of the commands: what an admitted capture or
reconciliation brings to `RecordCommit` is refused only if a commit from outside came
between. `ImplementsHistory`: `Publish` is the one abstract `Capture` step, since by
`Chain` the ref gains one commit per group of the plan (`Grouped`); snapshots, chains,
hooks and receipts are stutters, and `Record` brings the cursor to the ref's history.

*LaneSetupProofs*: the four properties of the `setup` run, and the action properties
`NoRegression` and `NothingReplaced`, for any number of commands,
setups, lanes, checkouts and skill files. First frames, that is what any step can do to
one record (`LaneFrame`, `LeaseFrame`, `TargetFrame`, `IntentFrame`); they give
`DoneStays`, that a step once done stays done, which is where two setups that share a
lane, a profile or an install path could hurt each other. `SetupInv` adds `Creating`
(the lane a command is about to activate is still its own, nobody else is inside
Create), `Prepared` (the steps before its own are recorded, so a lease is claimed by a
setup whose lane it is) and `DoneBeforeMark`. `WorktreeExclusive` follows from
the look at all lanes under the registry lock and from `LaneFrame`. `ImplementsLedger`
maps each write to the abstract step on that record: the guards the code leaves out
(a claim does not look at the ledger, a profile does not look at the leases) follow from
`Prepared`, and that a step is recorded after its effect from `DoneBeforeMark` and
`DoneStays`.

*ArchiveProofs*: the six properties of the `archive` run, and the action property
`OnlyClosedLeave`, for any number of commands,
lanes, generations, receipts and stops. `ArchiveInv` adds: an active lane has its live
manifest (`ActiveIsLive`); the files of a receipt name the manifest and all leases of
its candidates and nothing of another lane (`PlansAreExact`, from the recheck under the
locks); what a command past its checks knows (`AtWork`: only one holds `archive.lock`,
every manifest and lease is on one side, the manifests of its candidates are live or in
its batch, what it has processed is where it should be, and a name that a restore found
free still is, unless it is that of a profile); and a live lease has its manifest or
is part of an announced restore (`NoOrphans`). The key step is `ManifestIsOurs`: two
manifests of one name are never live together, so after the check whatever manifest is
live under the name of a candidate *is* the candidate's. With the order of the renames,
leases before manifests, it gives `NoOrphans` after each of them and that nothing of an
active lane is ever moved away. A profile may be written between any two of these
steps; the parts of the invariant that this would break speak of manifests and leases,
and for profiles of names.

`StoppedBatchesContinue` needs one more invariant, `PlacesInv`: the files of a receipt
are names of records that were written, and a restored batch is empty. Then each file of
a receipt has a record, by `RecordsKept` live or in one batch (`FilesAreSomewhere`); if
no other batch has taken it and neither a new manifest nor a profile has come beside it,
that is live or in its own batch and not both, so `ValidateArchiveFiles` accepts it in
whatever state it stopped. The exceptions of `Disturbed` are all reachable.
`ImplementsShelves` maps live records and receipts to themselves: a rename that finds its
record is `Away` or `Back` of the one record of that name (`OneRecord`), a look, a rename
done by an earlier run and a receipt written again in its state are stutters.

Only model-checked: the liveness properties `Reconciled` and `EveryCommandEnds`
(fairness is out of the prover's reach); `NobodyIsStuck` and `RecordingSucceeds` are the
safety halves of the two.

## What is left out, and why

- Message policy, hook sandboxing and the verify checkout of a capture are a
  success or a refusal; they decide whether a commit is built, not what is
  recorded. `message.go` and plan parsing are pure functions on text.
- One record write is one step in the modules of the components; `NothingTorn` and
  `AckedKept` are the reason. The power failure itself is not composed with them: a
  directory lost as a whole, parents not being synced, is outside what any of their
  properties promises.
- Directory sync is that of the Unix builds; on Windows `syncDirectory` does nothing.
- The doctor's scans of profiles, intents and archive batches and its comparison with
  git refs each read one record and report its state; there is nothing to interleave.
- The owner of a lane is fixed in `LeaseRegistry` and `Capture`, since a command
  reaches a lane only with its own agent and session; ownership by another agent is in
  `LaneSetup` and `Archive`.
- Lock timeouts are a `Stop` in the component modules; polling is in `CommandLocks`.
  That a busy lock may be missed by every poll until the deadline is what `GiveUp`
  and `BeatTimeout` allow.
- Foreign files and links in the skill bundle, encoding (pure functions), process
  groups (system calls) and release scripts (sequential, outside the program).

## Plan

Done, in this order: `WipPaths`, `LeaseRegistry` with `PathOwnership` and its
proofs, `Capture`, `Archive`, `LaneSetup`, `PathTrie` with its proofs; then
`RegistryDoctor`, `CommandLocks`, `RecordFile` and `StateRoot` with `DomainOwner`,
each with its proofs, and the proofs of `Capture`, `LaneSetup` and `Archive`; then the
abstract specifications `LaneHistory`, `SetupLedger` and `RecordShelves` with their
refinement proofs, `NobodyIsStuck` and `StoppedBatchesContinue`.

Left: `Capture` over `LeaseRegistry` in place of what `PathOwnership` promises, so that
the pause between fence and ref update (a listed hazard) is visible in one model.
