------------------------------ MODULE LaneSetup ------------------------------
(***************************************************************************)
(* `wip init` (cmd/wip/init.go executeInit, init_intent.go) with the lane   *)
(* creation of internal/store/store.go (Create, finishCreate): six          *)
(* idempotent steps, each recorded in a durable intent after it is done.    *)
(* The same setup may be run by two commands at once, stopped anywhere and  *)
(* run again; other setups want the same lane, checkout, profile or install *)
(* targets.                                                                *)
(*                                                                         *)
(* A setup names one base commit; a checkout is at it or not.  Claims are   *)
(* one step: LeaseRegistry has their detail.  The lane and registry locks   *)
(* die with their holder, so they are held exactly by the commands inside   *)
(* Create.  Archiving a lane away is left to Archive.                        *)
(***************************************************************************)
EXTENDS Naturals, Sequences, FiniteSets

CONSTANTS Proc,        \* running commands
          Setup,       \* requested setups
          Lane, Agent, Tree, Path,
          SkillFiles,  \* number of files of the skill bundle
          MaxStops,    \* bound on stopped commands
          MaxEdits,    \* bound on changes from outside
          None         \* an absent record, no setup

Modes == {"shared", "worktree"}

\* Lane manifests and profiles.
LaneRecord == [agent : Agent, mode : Modes, tree : Tree, state : {"creating", "active", "closed"}]
ProfileRecord == [agent : Agent, mode : Modes, tree : Tree]

ASSUME SetupAssumption ==
  /\ \A s \in Setup : /\ s.lane \in Lane /\ s.agent \in Agent /\ s.tree \in Tree /\ s.mode \in Modes
                      /\ s.paths \subseteq Path /\ s.paths # {}
                      /\ s.create \in BOOLEAN /\ s.install \in BOOLEAN
  /\ \A s \in Setup : s.create => s.mode = "worktree"
  /\ SkillFiles \in Nat \ {0} /\ {MaxStops, MaxEdits} \subseteq Nat
  /\ None \notin Setup /\ None \notin Nat /\ None \notin LaneRecord /\ None \notin ProfileRecord

VARIABLES intents,   \* recorded steps of each setup, or None
          trees,     \* checkouts: absent, at the base, elsewhere
          lanes,     \* lane manifests
          refs,      \* lane refs, by agent and lane: absent, base, other
          leases,    \* leased paths of each lane
          profiles,  \* lane profiles
          binary,    \* what is at the install path
          skill,     \* files of the skill bundle that are in place
          pc, job,   \* where each command is, its setup and the step to record
          stops, edits

records == <<intents, lanes, leases, profiles>>
targets == <<trees, refs, binary, skill>>
vars == <<records, targets, pc, job, stops, edits>>

Steps == <<"worktree", "lane", "lease", "profile", "binary", "skill">>
Points == {"idle", "create", "ref", "activate", "mark"} \cup {Steps[n] : n \in 1..Len(Steps)}
Idle == [setup |-> None, step |-> 0]

\* What a lane manifest and its profile say of their setup.
LaneOf(s, state) == [agent |-> s.agent, mode |-> s.mode, tree |-> s.tree, state |-> state]
ProfileOf(s) == [agent |-> s.agent, mode |-> s.mode, tree |-> s.tree]
RefOf(s) == <<s.agent, s.lane>>
-----------------------------------------------------------------------------
Init ==
  /\ intents = [s \in Setup |-> None]
  /\ trees = [t \in Tree |-> IF \E s \in Setup : s.tree = t /\ s.create THEN "absent" ELSE "base"]
  /\ lanes = [l \in Lane |-> None]
  /\ refs = [r \in Agent \X Lane |-> "absent"]
  /\ leases = [l \in Lane |-> {}]
  /\ profiles = [l \in Lane |-> None]
  /\ binary = "absent"
  /\ skill = 0
  /\ pc = [p \in Proc |-> "idle"]
  /\ job = [p \in Proc |-> Idle]
  /\ stops = 0 /\ edits = 0

Goto(p, point) == pc' = [pc EXCEPT ![p] = point]
End(p) == Goto(p, "idle") /\ job' = [job EXCEPT ![p] = Idle]
ToMark(p) == Goto(p, "mark") /\ UNCHANGED job
Quiet == UNCHANGED <<stops, edits>>

\* Create holds the lane lock and the registry lock from its conflict check to
\* the active manifest.
RegistryFree == \A p \in Proc : pc[p] \notin {"ref", "activate"}

\* inspectSelfInstall: the install path is free or has this binary.
BinaryOK(s) == s.install => binary \in {"absent", "ours"}

\* Without --create-worktree the command runs in the checkout.  The install path
\* is looked at first.  beginInitIntent: an intent of the same setup is taken up,
\* never replaced.
Begin(p, s) ==
  /\ pc[p] = "idle"
  /\ s.create \/ trees[s.tree] # "absent"
  /\ BinaryOK(s)
  /\ intents' = [intents EXCEPT ![s] = IF @ = None THEN 0 ELSE @]
  /\ job' = [job EXCEPT ![p] = [setup |-> s, step |-> 1]]
  /\ Goto(p, "worktree")
  /\ Quiet /\ UNCHANGED <<lanes, leases, profiles, targets>>

\* Mutant: the step is recorded without looking at what is recorded already.
Mark_Overwrite(p) ==
  LET s == job[p].setup
      n == job[p].step IN
  /\ pc[p] = "mark"
  /\ intents' = [intents EXCEPT ![s] = n]
  /\ IF n = Len(Steps)
       THEN End(p)
       ELSE /\ job' = [job EXCEPT ![p].step = n + 1]
            /\ Goto(p, Steps[n + 1])
  /\ Quiet /\ UNCHANGED <<lanes, leases, profiles, targets>>

\* markInitStep, under the intent lock: the next step is appended, an earlier
\* one is left as it is.
Mark(p) ==
  LET s == job[p].setup
      n == job[p].step IN
  /\ pc[p] = "mark"
  /\ n <= intents[s] + 1
  /\ intents' = [intents EXCEPT ![s] = IF n = @ + 1 THEN n ELSE @]
  /\ IF n = Len(Steps)
       THEN End(p)
       ELSE /\ job' = [job EXCEPT ![p].step = n + 1]
            /\ Goto(p, Steps[n + 1])
  /\ Quiet /\ UNCHANGED <<lanes, leases, profiles, targets>>
-----------------------------------------------------------------------------
(* The checkout and the lane. *)

\* ensureWorktree: an existing linked worktree must be at the base.
TreeOK(s) == s.create => trees[s.tree] \in {"absent", "base"}

Worktree(p) ==
  LET s == job[p].setup IN
  /\ pc[p] = "worktree"
  /\ TreeOK(s)
  /\ trees' = [trees EXCEPT ![s.tree] = IF s.create /\ @ = "absent" THEN "base" ELSE @]
  /\ ToMark(p)
  /\ Quiet /\ UNCHANGED <<records, refs, binary, skill>>

\* ensureLane: without a lock, an existing lane must be active and that of the
\* setup, its checkout at the base.
EnsureLaneOK(s) ==
  /\ trees[s.tree] = "base"
  /\ lanes[s.lane] \in {None, LaneOf(s, "active")}

EnsureLane(p) ==
  LET s == job[p].setup IN
  /\ pc[p] = "lane"
  /\ EnsureLaneOK(s)
  /\ IF lanes[s.lane] = None
       THEN Goto(p, "create") /\ UNCHANGED job
       ELSE ToMark(p)
  /\ Quiet /\ UNCHANGED <<records, targets>>

\* Mutant: a lane that is still being created does not occupy its checkout.
WorktreeConflict_ActiveOnly(s) ==
  \E l \in Lane \ {s.lane} :
    /\ lanes[l] # None /\ lanes[l].state = "active"
    /\ lanes[l].tree = s.tree
    /\ "worktree" \in {s.mode, lanes[l].mode}

\* Two lanes share a checkout only if both are in shared mode.
WorktreeConflict(s) ==
  \E l \in Lane \ {s.lane} :
    /\ lanes[l] # None /\ lanes[l].state \in {"creating", "active"}
    /\ lanes[l].tree = s.tree
    /\ "worktree" \in {s.mode, lanes[l].mode}

\* Under the locks: a new lane whose ref does not exist, or the unfinished
\* creation of the same lane.
CreateOK(s) ==
  /\ ~WorktreeConflict(s)
  /\ \/ lanes[s.lane] = None /\ refs[RefOf(s)] = "absent"
     \/ lanes[s.lane] = LaneOf(s, "creating")

CreateLane(p) ==
  LET s == job[p].setup IN
  /\ pc[p] = "create" /\ RegistryFree
  /\ CreateOK(s)
  /\ lanes' = [lanes EXCEPT ![s.lane] = LaneOf(s, "creating")]
  /\ Goto(p, "ref")
  /\ Quiet /\ UNCHANGED <<intents, leases, profiles, targets, job>>

\* finishCreate: update-ref expects no ref, or finds its own of an earlier run.
CreateRef(p) ==
  LET s == job[p].setup IN
  /\ pc[p] = "ref"
  /\ refs[RefOf(s)] \in {"absent", "base"}
  /\ refs' = [refs EXCEPT ![RefOf(s)] = "base"]
  /\ Goto(p, "activate")
  /\ Quiet /\ UNCHANGED <<records, trees, binary, skill, job>>

Activate(p) ==
  LET s == job[p].setup IN
  /\ pc[p] = "activate"
  /\ lanes' = [lanes EXCEPT ![s.lane] = LaneOf(s, "active")]
  /\ ToMark(p)
  /\ Quiet /\ UNCHANGED <<intents, leases, profiles, targets>>
-----------------------------------------------------------------------------
(* Lease, profile and installation. *)

ClaimOK(s) ==
  /\ lanes[s.lane] # None
  /\ lanes[s.lane].agent = s.agent /\ lanes[s.lane].state = "active"
  /\ \A l \in Lane \ {s.lane} : leases[l] \cap s.paths = {}

Claim(p) ==
  LET s == job[p].setup IN
  /\ pc[p] = "lease" /\ RegistryFree
  /\ ClaimOK(s)
  /\ leases' = [leases EXCEPT ![s.lane] = @ \cup s.paths]
  /\ ToMark(p)
  /\ Quiet /\ UNCHANGED <<intents, lanes, profiles, targets>>

WriteProfile(p) ==
  LET s == job[p].setup IN
  /\ pc[p] = "profile"
  /\ profiles[s.lane] \in {None, ProfileOf(s)}
  /\ profiles' = [profiles EXCEPT ![s.lane] = ProfileOf(s)]
  /\ ToMark(p)
  /\ Quiet /\ UNCHANGED <<intents, lanes, leases, targets>>

InstallBinary(p) ==
  LET s == job[p].setup IN
  /\ pc[p] = "binary"
  /\ BinaryOK(s)
  /\ binary' = IF s.install THEN "ours" ELSE binary
  /\ ToMark(p)
  /\ Quiet /\ UNCHANGED <<records, trees, refs, skill>>

\* Mutant: a bundle that has been begun counts as installed.
InstallSkill_Begun(p) ==
  LET s == job[p].setup IN
  /\ pc[p] = "skill"
  /\ IF s.install /\ skill = 0
       THEN skill' = skill + 1 /\ UNCHANGED <<pc, job>>
       ELSE ToMark(p) /\ UNCHANGED skill
  /\ Quiet /\ UNCHANGED <<records, trees, refs, binary>>

\* Mutant: one file more than the bundle has.
InstallSkill_Extra(p) ==
  LET s == job[p].setup IN
  /\ pc[p] = "skill"
  /\ IF s.install /\ skill <= SkillFiles
       THEN skill' = skill + 1 /\ UNCHANGED <<pc, job>>
       ELSE ToMark(p) /\ UNCHANGED skill
  /\ Quiet /\ UNCHANGED <<records, trees, refs, binary>>

\* One file of the bundle after the other; those in place are kept.
InstallSkill(p) ==
  LET s == job[p].setup IN
  /\ pc[p] = "skill"
  /\ IF s.install /\ skill < SkillFiles
       THEN skill' = skill + 1 /\ UNCHANGED <<pc, job>>
       ELSE ToMark(p) /\ UNCHANGED skill
  /\ Quiet /\ UNCHANGED <<records, trees, refs, binary>>
-----------------------------------------------------------------------------
\* A check fails; the intent stays as it is.
Refused(p) ==
  LET s == job[p].setup IN
  /\ \/ pc[p] = "worktree" /\ ~TreeOK(s)
     \/ pc[p] = "lane" /\ ~EnsureLaneOK(s)
     \/ pc[p] = "create" /\ RegistryFree /\ ~CreateOK(s)
     \/ pc[p] = "ref" /\ refs[RefOf(s)] = "other"
     \/ pc[p] = "lease" /\ RegistryFree /\ ~ClaimOK(s)
     \/ pc[p] = "profile" /\ profiles[s.lane] \notin {None, ProfileOf(s)}
     \/ pc[p] = "binary" /\ ~BinaryOK(s)
  /\ End(p)
  /\ Quiet /\ UNCHANGED <<records, targets>>

Stop(p) ==
  /\ pc[p] # "idle"
  /\ stops < MaxStops /\ stops' = stops + 1
  /\ End(p)
  /\ UNCHANGED <<records, targets, edits>>

\* The lane is released, a checkout or a lane ref moves, another program takes
\* the install path.
Release(l) ==
  /\ RegistryFree
  /\ lanes[l] # None /\ lanes[l].state = "active"
  /\ lanes' = [lanes EXCEPT ![l].state = "closed"]
  /\ leases' = [leases EXCEPT ![l] = {}]
  /\ UNCHANGED <<intents, profiles, targets>>
MoveHead(t) ==
  /\ trees[t] = "base"
  /\ trees' = [trees EXCEPT ![t] = "elsewhere"]
  /\ UNCHANGED <<records, refs, binary, skill>>
MoveRef(r) ==
  /\ refs' = [refs EXCEPT ![r] = "other"]
  /\ UNCHANGED <<records, trees, binary, skill>>
PutBinary ==
  /\ binary = "absent"
  /\ binary' = "other"
  /\ UNCHANGED <<records, trees, refs, skill>>

Outside ==
  /\ edits < MaxEdits /\ edits' = edits + 1
  /\ \/ \E l \in Lane : Release(l)
     \/ \E t \in Tree : MoveHead(t)
     \/ \E r \in Agent \X Lane : MoveRef(r)
     \/ PutBinary
  /\ UNCHANGED <<pc, job, stops>>

Running(p) ==
  \/ Mark(p) \/ Worktree(p) \/ EnsureLane(p)
  \/ CreateLane(p) \/ CreateRef(p) \/ Activate(p)
  \/ Claim(p) \/ WriteProfile(p) \/ InstallBinary(p) \/ InstallSkill(p)

Next ==
  \/ Outside
  \/ \E p \in Proc : (\E s \in Setup : Begin(p, s)) \/ Running(p) \/ Refused(p) \/ Stop(p)

Spec == Init /\ [][Next]_vars
-----------------------------------------------------------------------------
(* Properties. *)

\* Every variable has its type.
TypeOK ==
  /\ intents \in [Setup -> {None} \cup 0..Len(Steps)]
  /\ trees \in [Tree -> {"absent", "base", "elsewhere"}]
  /\ refs \in [Agent \X Lane -> {"absent", "base", "other"}]
  /\ leases \in [Lane -> SUBSET Path]
  /\ lanes \in [Lane -> {None} \cup LaneRecord]
  /\ profiles \in [Lane -> {None} \cup ProfileRecord]
  /\ binary \in {"absent", "ours", "other"} /\ skill \in 0..SkillFiles
  /\ pc \in [Proc -> Points]
  /\ job \in [Proc -> [setup : Setup \cup {None}, step : 0..Len(Steps)]]
  /\ stops \in Nat /\ edits \in Nat

\* A checkout that a worktree-mode lane has, also one whose creation stopped, is
\* no other lane's.
WorktreeExclusive ==
  \A l, m \in Lane : l # m /\ lanes[l] # None /\ lanes[m] # None =>
    ~(/\ {lanes[l].state, lanes[m].state} \subseteq {"creating", "active"}
      /\ lanes[l].tree = lanes[m].tree
      /\ "worktree" \in {lanes[l].mode, lanes[m].mode})

\* What a recorded step stands for: the checkout, the lane of the setup, its
\* leases, its profile, the binary, the whole bundle.
Done(s, n) ==
  /\ n = 1 => trees[s.tree] # "absent"
  /\ n = 2 => lanes[s.lane] \in {LaneOf(s, "active"), LaneOf(s, "closed")}
  /\ n = 3 => \/ lanes[s.lane] = LaneOf(s, "active") /\ s.paths \subseteq leases[s.lane]
              \/ lanes[s.lane] = LaneOf(s, "closed")
  /\ n = 4 => profiles[s.lane] = ProfileOf(s)
  /\ n = 5 => (s.install => binary = "ours")
  /\ n = 6 => (s.install => skill = SkillFiles)

\* What an intent records is there, whoever did it and whatever stopped.
RecordedIsDone ==
  \A s \in Setup : intents[s] # None => \A n \in 1..intents[s] : Done(s, n)

\* Concurrent and repeated runs never take a recorded step back.
NoRegression ==
  [][\A s \in Setup : intents[s] # None => intents'[s] # None /\ intents'[s] >= intents[s]]_vars

\* What one setup wrote is never replaced by another: its profile, its lane's
\* identity, a foreign binary.
NothingReplaced ==
  [][/\ \A l \in Lane : profiles[l] # None => profiles'[l] = profiles[l]
     /\ \A l \in Lane : lanes[l] # None =>
          lanes'[l] # None /\ lanes'[l] = [lanes[l] EXCEPT !.state = lanes'[l].state]
     /\ binary = "other" => binary' = "other"]_vars

\* The records of every setup come about as SetupLedger says: in its order, each
\* once, and none in the ledger before it is there.
Ledger == INSTANCE SetupLedger WITH ledger <- intents
LedgerSpec == Ledger!Spec

\* ARCHITECTURE.md: an exact retry finishes a matching `creating` lane.
CreatingCanFinish ==
  \A s \in Setup :
    /\ lanes[s.lane] = LaneOf(s, "creating") /\ RegistryFree
    /\ trees[s.tree] = "base" /\ refs[RefOf(s)] # "other"
    => EnsureLaneOK(s)
-----------------------------------------------------------------------------
(* The inductive invariant behind the safety properties. *)

\* A running command has a setup with an intent, and is in the step it works on.
InStep ==
  \A p \in Proc : pc[p] # "idle" =>
    /\ job[p].setup \in Setup /\ intents[job[p].setup] # None
    /\ job[p].step \in 1..Len(Steps)
    /\ pc[p] = Steps[job[p].step] \/ pc[p] = "mark"
         \/ (job[p].step = 2 /\ pc[p] \in {"create", "ref", "activate"})

\* The lane that a command inside Create is about to activate.
Creating ==
  \A p \in Proc : pc[p] \in {"ref", "activate"} =>
    /\ lanes[job[p].setup.lane] = LaneOf(job[p].setup, "creating")
    /\ \A q \in Proc \ {p} : pc[q] \notin {"ref", "activate"}

\* A command that makes no checkout has one, and the steps before its own are
\* recorded.
Prepared ==
  \A p \in Proc : pc[p] # "idle" =>
    /\ job[p].setup.create \/ trees[job[p].setup.tree] # "absent"
    /\ job[p].step <= intents[job[p].setup] + 1

\* A step is done before it is recorded.
DoneBeforeMark == \A p \in Proc : pc[p] = "mark" => Done(job[p].setup, job[p].step)

SetupInv ==
  /\ TypeOK /\ InStep /\ Prepared /\ Creating
  /\ WorktreeExclusive /\ DoneBeforeMark /\ RecordedIsDone
=============================================================================
