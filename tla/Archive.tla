------------------------------- MODULE Archive -------------------------------
(***************************************************************************)
(* `wip archive` (cmd/wip/archive.go, internal/store/archive.go): the       *)
(* records of released lanes are renamed one by one into a batch directory, *)
(* under a receipt that goes prepared -> complete, and back again,          *)
(* restoring -> restored.  A command may stop between any two renames; its  *)
(* receipt then says what to do.                                            *)
(*                                                                         *)
(* A lane identifier may be used again once its manifest is archived, by    *)
(* another agent and so with another ref: each use is a generation.  Files  *)
(* have names: a lease has one of its own, a manifest and a profile take    *)
(* that of the lane, whatever the generation.  Plans and receipts list      *)
(* names.  Manifests and leases are written under the lane lock; the        *)
(* profile is written without a lock, by an init command that may be late.  *)
(***************************************************************************)
EXTENDS Integers, Sequences, FiniteSets

CONSTANTS Proc,       \* running archive commands
          Lane,       \* lane identifiers
          MaxGen,     \* bound on the generations of a lane
          MaxTime,    \* bound on the clock
          MaxStops,   \* bound on stopped commands
          MaxMoved,   \* bound on lane refs changed from outside
          MaxPlans,   \* bound on the receipts that can be there
          Busy,       \* bound on the lanes that are used beside the archive
          Support,    \* the kinds of record beside the manifests at the start
          Free        \* the archive lock when nobody holds it

ASSUME ArchiveAssumption ==
  /\ MaxGen \in Nat \ {0} /\ {MaxTime, MaxStops, MaxMoved, MaxPlans} \subseteq Nat
  /\ Support \subseteq SUBSET {"lease", "profile"}
  /\ \A has \in Support : "profile" \in has => "lease" \in has
  /\ Busy \subseteq Lane
  /\ Free \notin Proc

VARIABLES now,          \* clock: cutoffs and the update times of manifests
          lanes,        \* the generations of each lane: content of their manifests
          live,         \* records in the state directory
          receipts,     \* archive receipts, each with the records in its batch
          moved,        \* generations whose ref no longer names their cursor
          archiveLock,  \* holder of archive.lock
          pc,           \* where each command is
          job,          \* what it works on
          stops         \* commands stopped so far

vars == <<now, lanes, live, receipts, moved, archiveLock, pc, job, stops>>

Closed == {"released", "aborted"}
Kind == {"lane", "lease", "profile"}
Rec(kind, l, g) == [kind |-> kind, lane |-> l, gen |-> g]
Manifest(l, g) == Rec("lane", l, g)

RecordsOf(l, g, has) == {Rec(kind, l, g) : kind \in {"lane"} \cup has}

\* The file name of a record, and whether a directory has that file.
Name(x) == [kind |-> x.kind, lane |-> x.lane, gen |-> IF x.kind = "lease" THEN x.gen ELSE 0]
Names(records) == {Name(x) : x \in records}
In(n, records) == n \in Names(records)
IsLive(n) == In(n, live)

\* The plan of a receipt, which determines its identifier.
PlanOf(r) == [before |-> r.before, candidates |-> r.candidates, files |-> r.files]
NoPlan == [before |-> 0, candidates |-> {}, files |-> {}]
\* The job of a command: the plan of its receipt, the files still to move, and
\* one that a restore has found free at its live name.
WorkOn(plan) == [plan |-> plan, todo |-> plan.files, free |-> {}]
Idle == [plan |-> NoPlan, todo |-> {}, free |-> {}]
Receipt(p) == CHOOSE r \in receipts : PlanOf(r) = job[p].plan
LanesOf(plan) == {c.lane : c \in plan.candidates}

Points == {"idle", "apply", "check", "move", "relock", "back"}

\* The lane locks of its candidates are held by the command that has got past
\* them; archive.lock keeps every other archive command away.
LaneFree(l) ==
  \A p \in Proc : pc[p] \in {"check", "move", "back"} => l \notin LanesOf(job[p].plan)
-----------------------------------------------------------------------------
Init ==
  /\ now = 2
  /\ lanes \in [Lane -> {<<gen>> : gen \in [state : {"active", "released"}, at : {1}, has : Support]}]
  /\ live = UNION {RecordsOf(l, 1, lanes[l][1].has) : l \in Lane}
  /\ receipts = {}
  /\ moved = {}
  /\ archiveLock = Free
  /\ pc = [p \in Proc |-> "idle"]
  /\ job = [p \in Proc |-> Idle]
  /\ stops = 0

Goto(p, point) == pc' = [pc EXCEPT ![p] = point]
End(p) ==
  /\ Goto(p, "idle")
  /\ job' = [job EXCEPT ![p] = Idle]
  /\ archiveLock' = IF archiveLock = p THEN Free ELSE archiveLock

\* A step of an archive command leaves the rest of the program alone.
Quiet == UNCHANGED <<now, lanes, moved, stops>>
Save(r, new) == receipts' = (receipts \ {r}) \cup {new}
-----------------------------------------------------------------------------
(* Archiving. *)

\* A live manifest lists exactly the lease records of its lane.
LinksOK(l, g) ==
  {x \in live : x.kind = "lease" /\ x.lane = l} = {Rec(kind, l, g) : kind \in lanes[l][g].has \cap {"lease"}}

Eligible(l, g, before) ==
  /\ Manifest(l, g) \in live
  /\ lanes[l][g].state \in Closed
  /\ lanes[l][g].at < before

\* The generation stands for the lane ref, which names the agent.
Candidate(l, g) == [lane |-> l, gen |-> g, state |-> lanes[l][g].state, at |-> lanes[l][g].at,
                    leases |-> "lease" \in lanes[l][g].has]

\* The files of a receipt: all those of the lanes of the plan.
FilesFor(candidates) == Names({x \in live : \E c \in candidates : x.lane = c.lane})

\* The eligible lanes and the plan digest, without locks; one lane with broken
\* links refuses the whole preview.
Preview(p, S) ==
  /\ pc[p] = "idle"
  /\ \A l \in Lane : \A g \in DOMAIN lanes[l] : Eligible(l, g, now) => LinksOK(l, g)
  /\ S # {}
  /\ \A l \in S : \E g \in DOMAIN lanes[l] : Eligible(l, g, now)
  /\ job' = [job EXCEPT ![p].plan =
       [before |-> now, files |-> {},
        candidates |-> UNION {{Candidate(l, g) : g \in {g \in DOMAIN lanes[l] : Eligible(l, g, now)}}
                               : l \in S}]]
  /\ Goto(p, "apply")
  /\ Quiet /\ UNCHANGED <<live, receipts, archiveLock>>

\* Every candidate is as it was previewed.
RecheckOK(plan) ==
  \A c \in plan.candidates :
    /\ Eligible(c.lane, c.gen, plan.before)
    /\ LinksOK(c.lane, c.gen)
    /\ Candidate(c.lane, c.gen) = c

\* The receipt of the plan: a new one, or an earlier one that is not on its
\* way back.
Prepare(p, plan) ==
  /\ \A r \in receipts : PlanOf(r) = plan => r.state \notin {"restoring", "restored"}
  /\ IF \E r \in receipts : PlanOf(r) = plan
       THEN UNCHANGED receipts
       ELSE receipts' = receipts \cup
              {[before |-> plan.before, candidates |-> plan.candidates, files |-> plan.files,
                state |-> "prepared", stored |-> {}]}
  /\ job' = [job EXCEPT ![p] = WorkOn(plan)]

\* archive.lock, the lane locks, the recheck and the durable prepared receipt.
Apply(p) ==
  LET plan == [job[p].plan EXCEPT !.files = FilesFor(job[p].plan.candidates)] IN
  /\ pc[p] = "apply" /\ archiveLock = Free
  /\ RecheckOK(plan)
  /\ Prepare(p, plan)
  /\ archiveLock' = p
  /\ Goto(p, "check")
  /\ Quiet /\ UNCHANGED live

OneSide(r) == \A n \in r.files : IsLive(n) # In(n, r.stored)

\* Mutant: records are known by their names only.
FilesOK_NamesOnly(r) ==
  /\ OneSide(r)
  /\ r.state = "complete" => r.files \subseteq Names(r.stored)
  /\ r.state = "restored" => r.files \subseteq Names(live)

\* ValidateArchiveFiles: every file is on one side, the right one for the state,
\* and a manifest, wherever it is, is that of its candidate.  Profiles are
\* known by their name only.
FilesOK(r) ==
  /\ OneSide(r)
  /\ r.state = "complete" => r.files \subseteq Names(r.stored)
  /\ r.state = "restored" => r.files \subseteq Names(live)
  /\ \A c \in r.candidates :
       /\ Manifest(c.lane, c.gen) \in live \cup r.stored
       /\ lanes[c.lane][c.gen].state = c.state /\ lanes[c.lane][c.gen].at = c.at

RefsOK(r) == \A c \in r.candidates : <<c.lane, c.gen>> \notin moved

Check(p) ==
  /\ pc[p] = "check"
  /\ FilesOK(Receipt(p)) /\ RefsOK(Receipt(p))
  /\ Goto(p, "move")
  /\ Quiet /\ UNCHANGED <<live, receipts, archiveLock, job>>

\* Support records first, manifests last.
IsNext(p, n) ==
  /\ n \in job[p].todo
  /\ n.kind = "lane" => \A m \in job[p].todo : m.kind = "lane"
Did(p, n) == job' = [job EXCEPT ![p].todo = @ \ {n}, ![p].free = {}]

\* One rename of what is at the live name, or nothing if an earlier run has
\* done it.
Move(p, n) ==
  LET r == Receipt(p) IN
  /\ pc[p] = "move" /\ IsNext(p, n)
  /\ IsLive(n) # In(n, r.stored)
  /\ LET S == {x \in live : Name(x) = n} IN
     /\ live' = live \ S
     /\ Save(r, [r EXCEPT !.stored = @ \cup S])
  /\ Did(p, n)
  /\ Quiet /\ UNCHANGED <<pc, archiveLock>>

\* Mutant: the receipt is completed with the manifests still to move.
Complete_Early(p) ==
  LET r == Receipt(p) IN
  /\ pc[p] = "move" /\ \A n \in job[p].todo : n.kind = "lane"
  /\ Save(r, [r EXCEPT !.state = "complete"])
  /\ End(p)
  /\ Quiet /\ UNCHANGED live

Complete(p) ==
  LET r == Receipt(p) IN
  /\ pc[p] = "move" /\ job[p].todo = {}
  /\ Save(r, [r EXCEPT !.state = "complete"])
  /\ End(p)
  /\ Quiet /\ UNCHANGED live

\* --resume: only a prepared receipt; a complete one is left as it is.
Resume(p, r) ==
  /\ pc[p] = "idle" /\ archiveLock = Free
  /\ r.state = "prepared" /\ FilesOK(r)
  /\ archiveLock' = p
  /\ job' = [job EXCEPT ![p] = WorkOn(PlanOf(r))]
  /\ Goto(p, "check")
  /\ Quiet /\ UNCHANGED <<live, receipts>>
-----------------------------------------------------------------------------
(* Restoring. *)

\* --restore: the files are validated before the lane locks are taken.
Restore(p, r) ==
  /\ pc[p] = "idle" /\ archiveLock = Free
  /\ r.state \in {"complete", "restoring"} /\ FilesOK(r)
  /\ archiveLock' = p
  /\ job' = [job EXCEPT ![p] = WorkOn(PlanOf(r))]
  /\ Goto(p, "relock")
  /\ Quiet /\ UNCHANGED <<live, receipts>>

\* Mutant: the receipt is only written at the end.
Relock_Late(p) ==
  LET r == Receipt(p) IN
  /\ pc[p] = "relock"
  /\ RefsOK(r)
  /\ UNCHANGED receipts
  /\ Goto(p, "back")
  /\ Quiet /\ UNCHANGED <<live, archiveLock, job>>

\* The lane locks, the refs, and the durable restoring receipt.
Relock(p) ==
  LET r == Receipt(p) IN
  /\ pc[p] = "relock"
  /\ RefsOK(r)
  /\ Save(r, [r EXCEPT !.state = "restoring"])
  /\ Goto(p, "back")
  /\ Quiet /\ UNCHANGED <<live, archiveLock, job>>

\* Mutant: a restore does not look at the live name before its rename.
Look_Not(p, n) ==
  /\ pc[p] = "back" /\ job[p].free = {} /\ IsNext(p, n)
  /\ In(n, Receipt(p).stored)
  /\ job' = [job EXCEPT ![p].free = {n}]
  /\ Quiet /\ UNCHANGED <<live, receipts, pc, archiveLock>>

\* moveArchiveFile looks first: the live name is free and the batch has the file.
Look(p, n) ==
  /\ pc[p] = "back" /\ job[p].free = {} /\ IsNext(p, n)
  /\ ~IsLive(n) /\ In(n, Receipt(p).stored)
  /\ job' = [job EXCEPT ![p].free = {n}]
  /\ Quiet /\ UNCHANGED <<live, receipts, pc, archiveLock>>

\* An earlier run has done it.
Skip(p, n) ==
  /\ pc[p] = "back" /\ job[p].free = {} /\ IsNext(p, n)
  /\ IsLive(n) /\ ~In(n, Receipt(p).stored)
  /\ Did(p, n)
  /\ Quiet /\ UNCHANGED <<live, receipts, pc, archiveLock>>

\* The rename replaces what has come to the live name since the look.
MoveBack(p, n) ==
  LET r == Receipt(p)
      S == {x \in r.stored : Name(x) = n} IN
  /\ pc[p] = "back" /\ n \in job[p].free
  /\ live' = {x \in live : Name(x) # n} \cup S
  /\ Save(r, [r EXCEPT !.stored = @ \ S])
  /\ Did(p, n)
  /\ Quiet /\ UNCHANGED <<pc, archiveLock>>

\* Mutant: a receipt of an unknown state.
Restored_Done(p) ==
  LET r == Receipt(p) IN
  /\ pc[p] = "back" /\ job[p].todo = {}
  /\ Save(r, [r EXCEPT !.state = "done"])
  /\ End(p)
  /\ Quiet /\ UNCHANGED live

\* Mutant: the receipt is finished with the manifests still to move.
Restored_Early(p) ==
  LET r == Receipt(p) IN
  /\ pc[p] = "back" /\ \A n \in job[p].todo : n.kind = "lane"
  /\ Save(r, [r EXCEPT !.state = "restored"])
  /\ End(p)
  /\ Quiet /\ UNCHANGED live

Restored(p) ==
  LET r == Receipt(p) IN
  /\ pc[p] = "back" /\ job[p].todo = {}
  /\ Save(r, [r EXCEPT !.state = "restored"])
  /\ End(p)
  /\ Quiet /\ UNCHANGED live
-----------------------------------------------------------------------------
\* A check fails, or a rename finds records on both sides or on none.
Refused(p) ==
  /\ \/ /\ pc[p] = "apply" /\ archiveLock = Free
        /\ LET plan == [job[p].plan EXCEPT !.files = FilesFor(job[p].plan.candidates)] IN
           \/ ~RecheckOK(plan)
           \/ \E r \in receipts : PlanOf(r) = plan /\ r.state \in {"restoring", "restored"}
     \/ pc[p] = "check" /\ ~(FilesOK(Receipt(p)) /\ RefsOK(Receipt(p)))
     \/ pc[p] = "relock" /\ ~RefsOK(Receipt(p))
     \/ pc[p] \in {"move", "back"} /\ job[p].free = {} /\ \E n \in job[p].todo :
          IsNext(p, n) /\ IsLive(n) = In(n, Receipt(p).stored)
  /\ End(p)
  /\ Quiet /\ UNCHANGED <<live, receipts>>

Stop(p) ==
  /\ pc[p] # "idle"
  /\ stops < MaxStops
  /\ stops' = stops + 1
  /\ End(p)
  /\ UNCHANGED <<now, lanes, live, receipts, moved>>

\* A release or abort, also one that overlaps another: see LeaseRegistry.
Close(l, g, state) ==
  /\ now < MaxTime
  /\ LaneFree(l)
  /\ Manifest(l, g) \in live /\ LinksOK(l, g)
  /\ lanes' = [lanes EXCEPT ![l][g].state = state, ![l][g].at = now]
  /\ now' = now + 1
  /\ UNCHANGED <<live, receipts, moved, archiveLock, pc, job, stops>>

\* Another agent creates a lane of that identifier.
Create(l) ==
  LET g == Len(lanes[l]) + 1 IN
  /\ g <= MaxGen
  /\ LaneFree(l)
  /\ ~IsLive(Name(Manifest(l, g)))
  /\ lanes' = [lanes EXCEPT ![l] = Append(@, [state |-> "active", at |-> now, has |-> {}])]
  /\ live' = live \cup {Manifest(l, g)}
  /\ UNCHANGED <<now, receipts, moved, archiveLock, pc, job, stops>>

\* The first claim of an active lane, which refuses foreign lease records.
Claim(l, g) ==
  /\ LaneFree(l)
  /\ Manifest(l, g) \in live /\ lanes[l][g].state = "active"
  /\ "lease" \notin lanes[l][g].has /\ LinksOK(l, g)
  /\ lanes' = [lanes EXCEPT ![l][g].has = @ \cup {"lease"}]
  /\ live' = live \cup {Rec("lease", l, g)}
  /\ UNCHANGED <<now, receipts, moved, archiveLock, pc, job, stops>>

\* An init that has got past its claim writes the profile, however late and
\* without any lock; an existing profile is left alone.
WriteProfile(l, g) ==
  /\ "lease" \in lanes[l][g].has
  /\ ~IsLive(Name(Rec("profile", l, g)))
  /\ lanes' = [lanes EXCEPT ![l][g].has = @ \cup {"profile"}]
  /\ live' = live \cup {Rec("profile", l, g)}
  /\ UNCHANGED <<now, receipts, moved, archiveLock, pc, job, stops>>

\* git moves or deletes the ref of a lane.
MoveRef(l, g) ==
  /\ Cardinality(moved) < MaxMoved
  /\ moved' = moved \cup {<<l, g>>}
  /\ UNCHANGED <<now, lanes, live, receipts, archiveLock, pc, job, stops>>

Tick ==
  /\ now < MaxTime
  /\ now' = now + 1
  /\ UNCHANGED <<lanes, live, receipts, moved, archiveLock, pc, job, stops>>

Archiving(p) ==
  \/ Cardinality(receipts) < MaxPlans /\ \E S \in SUBSET Lane : Preview(p, S)
  \/ Apply(p) \/ Check(p) \/ Complete(p)
  \/ \E n \in job[p].todo : Move(p, n)
  \/ \E r \in receipts : Resume(p, r)
Restoring(p) ==
  \/ \E r \in receipts : Restore(p, r)
  \/ Relock(p) \/ Restored(p)
  \/ \E n \in job[p].todo : Look(p, n) \/ Skip(p, n) \/ MoveBack(p, n)

Others ==
  \/ Tick
  \/ \E l \in Lane : \E g \in DOMAIN lanes[l], s \in Closed : Close(l, g, s)
  \/ \E l \in Busy : Create(l)
  \/ \E l \in Busy : \E g \in DOMAIN lanes[l] : Claim(l, g) \/ WriteProfile(l, g) \/ MoveRef(l, g)

Next == Others \/ \E p \in Proc : Archiving(p) \/ Restoring(p) \/ Refused(p) \/ Stop(p)

Spec == Init /\ [][Next]_vars
-----------------------------------------------------------------------------
(* Properties. *)

Generation == [state : {"active"} \cup Closed, at : Nat, has : SUBSET {"lease", "profile"}]
Record == [kind : Kind, lane : Lane, gen : 1..MaxGen]
FileName == [kind : Kind, lane : Lane, gen : 0..MaxGen]
CandidateRecord == [lane : Lane, gen : 1..MaxGen, state : Closed, at : Nat, leases : BOOLEAN]
Plan == [before : Nat, candidates : SUBSET CandidateRecord, files : SUBSET FileName]
ReceiptState == {"prepared", "complete", "restoring", "restored"}
ReceiptRecord == [before : Nat, candidates : SUBSET CandidateRecord, files : SUBSET FileName,
                  state : ReceiptState, stored : SUBSET Record]

\* Every variable has its type; receipts have distinct identifiers.
TypeOK ==
  /\ now \in Nat /\ stops \in Nat
  /\ lanes \in [Lane -> Seq(Generation)]
  /\ \A l \in Lane : Len(lanes[l]) <= MaxGen
  /\ live \subseteq Record
  /\ receipts \subseteq ReceiptRecord
  /\ \A r, s \in receipts : PlanOf(r) = PlanOf(s) => r = s
  /\ moved \subseteq Lane \X (1..MaxGen)
  /\ archiveLock \in Proc \cup {Free}
  /\ pc \in [Proc -> Points]
  /\ job \in [Proc -> [plan : Plan, todo : SUBSET FileName, free : SUBSET FileName]]

\* The records that all generations have written so far.
Written ==
  {x \in Record : /\ x.gen \in DOMAIN lanes[x.lane]
                  /\ x.kind \in {"lane"} \cup lanes[x.lane][x.gen].has}

\* Whatever is archived, resumed, restored or used again, and wherever a command
\* stops, each manifest and lease is in exactly one place, live or in one batch;
\* no profile name is lost; and a directory never has two records of one name.
RecordsKept ==
  /\ \A x \in Written : IF x.kind = "profile"
       THEN IsLive(Name(x)) \/ \E r \in receipts : In(Name(x), r.stored)
       ELSE /\ (x \in live) # (\E r \in receipts : x \in r.stored)
            /\ \A r, s \in receipts : x \in r.stored \cap s.stored => r = s
  /\ \A x, y \in live : Name(x) = Name(y) => x = y
  /\ \A r \in receipts : \A x, y \in r.stored : Name(x) = Name(y) => x = y

\* A complete receipt has each of its files in its batch, among them the
\* manifest and the leases of every candidate.
CompleteIsStored ==
  \A r \in receipts : r.state = "complete" =>
    /\ Names(r.stored) = r.files
    /\ \A c \in r.candidates :
         RecordsOf(c.lane, c.gen, lanes[c.lane][c.gen].has \ {"profile"}) \subseteq r.stored

\* Leases of one generation of a lane beside the manifest or the leases of
\* another, which every claim, renewal and release of the lane refuses, are
\* announced by an unfinished restore.
MixedIsReported ==
  \A x, y \in live :
    x.kind = "lease" /\ y.kind \in {"lease", "lane"} /\ x.lane = y.lane /\ x.gen # y.gen =>
      \E r \in receipts : r.state = "restoring" /\ x.lane \in LanesOf(r)

\* No step takes a record away from a lane that is still active, however old the
\* preview; only its profile may be replaced by the one of a restored batch.
OnlyClosedLeave ==
  [][\A x \in live \ live' :
       \/ lanes[x.lane][x.gen].state \in Closed
       \/ x.kind = "profile" /\ In(Name(x), live')]_vars

\* The archive commands implement RecordShelves: each rename takes one record to
\* its place, under a receipt that allows it and in the order support, manifests.
Uses == [l \in Lane |-> Len(lanes[l])]
ClosedUses ==
  {x \in Lane \X (1..MaxGen) : x[2] \in DOMAIN lanes[x[1]] /\ lanes[x[1]][x[2]].state \in Closed}
Shelves == INSTANCE RecordShelves WITH uses <- Uses, closed <- ClosedUses, batches <- receipts
ShelfSpec == Shelves!Spec

\* What can come between a stopped command and its receipt: a late release or
\* abort rewrote a manifest; beside a file of the batch the live name was taken by
\* the manifest of a new lane or by a profile; or a batch of another plan has taken
\* a candidate's manifest or a file that is on neither side any more.
Disturbed(r) ==
  \/ \E c \in r.candidates :
       lanes[c.lane][c.gen].state # c.state \/ lanes[c.lane][c.gen].at # c.at
  \/ \E x \in live, y \in r.stored :
       Name(x) = Name(y) /\ (x.kind = "profile" \/ (x.kind = "lane" /\ x.gen # y.gen))
  \/ \E s \in receipts \ {r} :
       \/ \E c \in r.candidates : Manifest(c.lane, c.gen) \in s.stored
       \/ \E n \in r.files : In(n, s.stored) /\ ~IsLive(n) /\ ~In(n, r.stored)

\* Nothing else does: wherever apply, resume and restore stop, ValidateArchiveFiles
\* accepts the receipt, so that the same batch can be taken up again.
StoppedCanContinue == \A r \in receipts : Disturbed(r) \/ FilesOK(r)

\* ERRORS.md: a receipt in state restoring is finished by the same restore, if
\* the lane refs are where they were.
RestoringCanContinue ==
  archiveLock = Free =>
    \A r \in receipts : r.state = "restoring" /\ RefsOK(r) => FilesOK(r)
-----------------------------------------------------------------------------
(* The inductive invariant behind the safety properties. *)

\* Only records that have been written are anywhere, in a batch only those that
\* its receipt names.
OnlyWritten ==
  /\ live \subseteq Written
  /\ \A r \in receipts : r.stored \subseteq Written /\ Names(r.stored) \subseteq r.files

\* An active lane has its manifest.
ActiveIsLive ==
  \A l \in Lane : \A g \in DOMAIN lanes[l] : lanes[l][g].state = "active" => Manifest(l, g) \in live

\* The candidates of a receipt are closed and its files name their manifest and
\* all their leases, and nothing of another lane or the leases of another
\* generation.
PlanIsExact(r) ==
  /\ \A c \in r.candidates :
       /\ c.gen \in DOMAIN lanes[c.lane] /\ lanes[c.lane][c.gen].state \in Closed
       /\ Names(RecordsOf(c.lane, c.gen, lanes[c.lane][c.gen].has \ {"profile"})) \subseteq r.files
  /\ \A n \in r.files :
       \E c \in r.candidates : n.lane = c.lane /\ (n.kind = "lease" => n.gen = c.gen)
PlansAreExact == \A r \in receipts : PlanIsExact(r)

\* The manifest of each candidate is live or in the batch.
HasManifests(r) == \A c \in r.candidates : Manifest(c.lane, c.gen) \in live \cup r.stored

\* What a command that holds archive.lock has made sure of.
AtWork(p) ==
  /\ pc[p] \in {"check", "move", "relock", "back"} =>
       /\ archiveLock = p
       /\ \E r \in receipts : PlanOf(r) = job[p].plan
       /\ job[p].todo \subseteq job[p].plan.files
  /\ pc[p] \in {"check", "relock"} => job[p].todo = job[p].plan.files
  /\ pc[p] \in {"check", "move"} => Receipt(p).state \in {"prepared", "complete"}
  /\ pc[p] # "back" => job[p].free = {}
  /\ pc[p] = "move" =>
       /\ \A n \in Receipt(p).files : n.kind # "profile" => IsLive(n) # In(n, Receipt(p).stored)
       /\ HasManifests(Receipt(p))
       /\ Receipt(p).files \ job[p].todo \subseteq Names(Receipt(p).stored)
  /\ pc[p] = "relock" => Receipt(p).state \in {"complete", "restoring"} /\ HasManifests(Receipt(p))
  /\ pc[p] = "back" =>
       /\ Receipt(p).state = "restoring" /\ HasManifests(Receipt(p))
       /\ \A n \in Receipt(p).files \ job[p].todo : IsLive(n) /\ ~In(n, Receipt(p).stored)
       /\ job[p].free \subseteq job[p].todo
       /\ \A n \in job[p].free : /\ IsNext(p, n) /\ In(n, Receipt(p).stored)
                                 /\ n.kind # "profile" => ~IsLive(n)
AllAtWork == \A p \in Proc : AtWork(p)

\* A live lease has its manifest, or is part of an unfinished restore.
NoOrphans ==
  \A x \in live : x.kind = "lease" =>
    \/ Manifest(x.lane, x.gen) \in live
    \/ \E r \in receipts : /\ r.state = "restoring"
                           /\ \E c \in r.candidates : c.lane = x.lane /\ c.gen = x.gen

\* The names on a receipt are those of records that were written, and a batch
\* that has been restored is empty.
PlacesInv ==
  \A r \in receipts : r.files \subseteq Names(Written) /\ (r.state = "restored" => r.stored = {})

ArchiveInv ==
  /\ TypeOK /\ RecordsKept /\ OnlyWritten /\ ActiveIsLive /\ PlansAreExact
  /\ AllAtWork /\ NoOrphans /\ CompleteIsStored
=============================================================================
