--------------------------- MODULE LaneSetupProofs ---------------------------
(***************************************************************************)
(* The properties of LaneSetup for any number of commands, setups, lanes    *)
(* and checkouts.  First what a step can do to each record; from that, that *)
(* a step once done stays done; then one lemma per part of SetupInv.        *)
(***************************************************************************)
EXTENDS LaneSetup, TLAPS

LEMMA StepNames ==
  /\ Len(Steps) = 6
  /\ Steps[1] = "worktree" /\ Steps[2] = "lane" /\ Steps[3] = "lease"
  /\ Steps[4] = "profile" /\ Steps[5] = "binary" /\ Steps[6] = "skill"
  /\ Points = {"idle", "create", "ref", "activate", "mark",
               "worktree", "lane", "lease", "profile", "binary", "skill"}
<1>1. /\ Len(Steps) = 6
      /\ Steps[1] = "worktree" /\ Steps[2] = "lane" /\ Steps[3] = "lease"
      /\ Steps[4] = "profile" /\ Steps[5] = "binary" /\ Steps[6] = "skill"
  BY DEF Steps
<1>2. {Steps[n] : n \in 1..Len(Steps)} = {"worktree", "lane", "lease", "profile", "binary", "skill"}
  <2>1. 1..Len(Steps) = {1, 2, 3, 4, 5, 6}
    BY <1>1
  <2>. QED BY <1>1, <2>1
<1>. QED BY <1>1, <1>2 DEF Points

LEMMA SetupFields ==
  \A s \in Setup :
    /\ s.lane \in Lane /\ s.agent \in Agent /\ s.tree \in Tree /\ s.mode \in Modes
    /\ s.paths \subseteq Path /\ s.create \in BOOLEAN /\ s.install \in BOOLEAN
    /\ \A state \in {"creating", "active", "closed"} :
         LaneOf(s, state) \in LaneRecord /\ LaneOf(s, state) # None
         /\ LaneOf(s, state).state = state
    /\ ProfileOf(s) \in ProfileRecord /\ ProfileOf(s) # None
    /\ RefOf(s) \in Agent \X Lane
BY SetupAssumption DEF LaneOf, ProfileOf, RefOf, LaneRecord, ProfileRecord

\* A command that ends without a further write.
Ending(p) == End(p) /\ UNCHANGED <<records, targets>>

LEMMA StepCases ==
  ASSUME [Next]_vars
  PROVE  \/ UNCHANGED vars \/ Outside
         \/ \E p \in Proc : (\E s \in Setup : Begin(p, s)) \/ Running(p) \/ Ending(p)
BY DEF Next, Refused, Stop, Ending
-----------------------------------------------------------------------------
(* What a step can do to each record. *)

\* The setup of a running command.
LEMMA JobSetup ==
  ASSUME TypeOK, InStep, NEW p \in Proc, pc[p] # "idle"
  PROVE  /\ job[p].setup \in Setup /\ job[p].setup.lane \in Lane /\ job[p].setup.tree \in Tree
         /\ job[p].step \in 1..6
         /\ pc[p] = "worktree" => job[p].step = 1
         /\ pc[p] \in {"lane", "create", "ref", "activate"} => job[p].step = 2
         /\ pc[p] = "lease" => job[p].step = 3
         /\ pc[p] = "profile" => job[p].step = 4
         /\ pc[p] = "binary" => job[p].step = 5
         /\ pc[p] = "skill" => job[p].step = 6
<1>1. job[p].setup \in Setup /\ job[p].step \in 1..6
  BY StepNames DEF InStep
<1>2. /\ pc[p] = Steps[job[p].step] \/ pc[p] = "mark"
           \/ (job[p].step = 2 /\ pc[p] \in {"create", "ref", "activate"})
  BY DEF InStep
<1>3. job[p].step \in {1, 2, 3, 4, 5, 6}
  BY <1>1
<1>. QED BY <1>1, <1>2, <1>3, StepNames, SetupFields

\* The lane manifest of a running setup is made, activated and closed, and never
\* given to another setup.
LEMMA LaneFrame ==
  ASSUME TypeOK, InStep, Creating, [Next]_vars, NEW l \in Lane
  PROVE  \/ lanes'[l] = lanes[l]
         \/ \E p \in Proc : /\ CreateLane(p) /\ job[p].setup.lane = l
                            /\ lanes[l] \in {None, LaneOf(job[p].setup, "creating")}
                            /\ lanes'[l] = LaneOf(job[p].setup, "creating")
         \/ \E p \in Proc : /\ Activate(p) /\ job[p].setup.lane = l
                            /\ lanes[l] = LaneOf(job[p].setup, "creating")
                            /\ lanes'[l] = LaneOf(job[p].setup, "active")
         \/ /\ Release(l) /\ lanes[l] \in LaneRecord /\ lanes[l].state = "active"
            /\ lanes'[l] = [lanes[l] EXCEPT !.state = "closed"]
<1>1. CASE lanes' = lanes
  BY <1>1
<1>2. ASSUME NEW p \in Proc, CreateLane(p), lanes'[l] # lanes[l]
      PROVE  /\ job[p].setup.lane = l
             /\ lanes[l] \in {None, LaneOf(job[p].setup, "creating")}
             /\ lanes'[l] = LaneOf(job[p].setup, "creating")
  BY <1>2, JobSetup DEF CreateLane, CreateOK, TypeOK
<1>3. ASSUME NEW p \in Proc, Activate(p), lanes'[l] # lanes[l]
      PROVE  /\ job[p].setup.lane = l
             /\ lanes[l] = LaneOf(job[p].setup, "creating")
             /\ lanes'[l] = LaneOf(job[p].setup, "active")
  BY <1>3, JobSetup DEF Activate, Creating, TypeOK
<1>4. ASSUME NEW m \in Lane, Release(m), lanes'[l] # lanes[l]
      PROVE  /\ Release(l) /\ lanes[l] \in LaneRecord /\ lanes[l].state = "active"
             /\ lanes'[l] = [lanes[l] EXCEPT !.state = "closed"]
  BY <1>4 DEF Release, TypeOK
<1>5. CASE Outside
  BY <1>1, <1>4, <1>5 DEF Outside, MoveHead, MoveRef, PutBinary, records
<1>6. ASSUME NEW p \in Proc, (\E s \in Setup : Begin(p, s)) \/ Running(p) \/ Ending(p)
      PROVE  lanes' = lanes \/ CreateLane(p) \/ Activate(p)
  BY <1>6 DEF Begin, Running, Ending, Mark, Worktree, EnsureLane, CreateRef, Claim, WriteProfile,
     InstallBinary, InstallSkill, records
<1>7. CASE UNCHANGED vars
  BY <1>1, <1>7 DEF vars, records
<1>. QED BY <1>1, <1>2, <1>3, <1>5, <1>6, <1>7, StepCases

\* Leases of a lane only go with its release.
LEMMA LeaseFrame ==
  ASSUME TypeOK, InStep, [Next]_vars, NEW l \in Lane
  PROVE  leases[l] \subseteq leases'[l] \/ Release(l)
<1>1. CASE leases' = leases
  BY <1>1
<1>2. ASSUME NEW p \in Proc, Claim(p) PROVE leases[l] \subseteq leases'[l]
  BY <1>2, JobSetup DEF Claim, TypeOK
<1>3. ASSUME NEW m \in Lane, Release(m) PROVE leases[l] \subseteq leases'[l] \/ Release(l)
  BY <1>3 DEF Release, TypeOK
<1>4. CASE Outside
  BY <1>1, <1>3, <1>4 DEF Outside, MoveHead, MoveRef, PutBinary, records
<1>5. ASSUME NEW p \in Proc, (\E s \in Setup : Begin(p, s)) \/ Running(p) \/ Ending(p)
      PROVE  leases' = leases \/ Claim(p)
  BY <1>5 DEF Begin, Running, Ending, Mark, Worktree, EnsureLane, CreateLane, CreateRef, Activate,
     WriteProfile, InstallBinary, InstallSkill, records
<1>6. CASE UNCHANGED vars
  BY <1>1, <1>6 DEF vars, records
<1>. QED BY <1>1, <1>2, <1>4, <1>5, <1>6, StepCases

\* A checkout stays, a profile is never replaced, a binary of ours or of somebody
\* else is never replaced, the bundle only grows.
TargetsKept ==
  /\ \A t \in Tree : trees[t] # "absent" => trees'[t] # "absent"
  /\ \A l \in Lane : profiles[l] # None => profiles'[l] = profiles[l]
  /\ binary # "absent" => binary' = binary
  /\ skill <= skill' /\ skill' \in 0..SkillFiles

LEMMA TargetFrame ==
  ASSUME TypeOK, InStep, [Next]_vars
  PROVE  TargetsKept
<1>0. SkillFiles \in Nat /\ skill \in 0..SkillFiles
  BY SetupAssumption DEF TypeOK
<1>1. CASE UNCHANGED <<trees, profiles, binary, skill>>
  BY <1>0, <1>1 DEF TargetsKept
<1>2. ASSUME NEW p \in Proc, Worktree(p) PROVE TargetsKept
  BY <1>0, <1>2, JobSetup DEF Worktree, records, TargetsKept, TypeOK
<1>3. ASSUME NEW t \in Tree, MoveHead(t) PROVE TargetsKept
  BY <1>0, <1>3 DEF MoveHead, records, TargetsKept, TypeOK
<1>4. ASSUME NEW p \in Proc, WriteProfile(p) PROVE TargetsKept
  BY <1>0, <1>4, JobSetup, SetupFields DEF WriteProfile, targets, TargetsKept, TypeOK
<1>5. ASSUME NEW p \in Proc, InstallBinary(p) PROVE TargetsKept
  BY <1>0, <1>5, JobSetup, SetupFields DEF InstallBinary, BinaryOK, records, TargetsKept, TypeOK
<1>6. CASE PutBinary
  BY <1>0, <1>6 DEF PutBinary, records, TargetsKept
<1>7. ASSUME NEW p \in Proc, InstallSkill(p) PROVE TargetsKept
  <2>1. UNCHANGED <<trees, profiles, binary>>
    BY <1>7 DEF InstallSkill, records
  <2>2. skill' = skill \/ (skill < SkillFiles /\ skill' = skill + 1)
    BY <1>7 DEF InstallSkill
  <2>3. skill <= skill' /\ skill' \in 0..SkillFiles
    BY <1>0, <2>2
  <2>. QED BY <2>1, <2>3 DEF TargetsKept
<1>8. CASE Outside
  BY <1>1, <1>3, <1>6, <1>8 DEF Outside, Release, MoveRef, records, targets
<1>9. ASSUME NEW p \in Proc, (\E s \in Setup : Begin(p, s)) \/ Running(p) \/ Ending(p)
      PROVE  TargetsKept
  BY <1>1, <1>2, <1>4, <1>5, <1>7, <1>9 DEF Begin, Running, Ending, Mark, EnsureLane, CreateLane,
     CreateRef, Activate, Claim, records, targets
<1>10. CASE UNCHANGED vars
  BY <1>1, <1>10 DEF vars, records, targets
<1>. QED BY <1>8, <1>9, <1>10, StepCases

\* Recorded steps are only added to, one after the other.
LEMMA IntentFrame ==
  ASSUME TypeOK, InStep, [Next]_vars, NEW s \in Setup
  PROVE  \/ intents'[s] = intents[s]
         \/ intents[s] = None /\ intents'[s] = 0
         \/ \E p \in Proc : /\ Mark(p) /\ job[p].setup = s /\ intents[s] \in Nat
                            /\ intents'[s] = intents[s] + 1 /\ intents'[s] = job[p].step
<1>1. CASE intents' = intents
  BY <1>1
<1>2. ASSUME NEW p \in Proc, NEW t \in Setup, Begin(p, t)
      PROVE  intents'[s] = intents[s] \/ (intents[s] = None /\ intents'[s] = 0)
  BY <1>2 DEF Begin, TypeOK
<1>3. ASSUME NEW p \in Proc, Mark(p), intents'[s] # intents[s]
      PROVE  /\ job[p].setup = s /\ intents[s] \in Nat
             /\ intents'[s] = intents[s] + 1 /\ intents'[s] = job[p].step
  <2>1. pc[p] = "mark"
    BY <1>3 DEF Mark
  <2>2. job[p].setup \in Setup /\ intents[job[p].setup] # None
    BY <2>1 DEF InStep
  <2>3. intents' = [intents EXCEPT ![job[p].setup] =
                      IF job[p].step = @ + 1 THEN job[p].step ELSE @]
    BY <1>3 DEF Mark
  <2>4. job[p].setup = s /\ intents'[s] = job[p].step /\ job[p].step = intents[s] + 1
    BY <1>3, <2>2, <2>3 DEF TypeOK
  <2>5. intents[s] \in Nat
    BY <2>2, <2>4, StepNames DEF TypeOK
  <2>. QED BY <2>4, <2>5
<1>4. CASE Outside
  BY <1>1, <1>4 DEF Outside, Release, MoveHead, MoveRef, PutBinary, records
<1>5. ASSUME NEW p \in Proc, Running(p) \/ Ending(p)
      PROVE  intents' = intents \/ Mark(p)
  BY <1>5 DEF Running, Ending, Worktree, EnsureLane, CreateLane, CreateRef, Activate, Claim,
     WriteProfile, InstallBinary, InstallSkill, records
<1>6. CASE UNCHANGED vars
  BY <1>1, <1>6 DEF vars, records
<1>. QED BY <1>1, <1>2, <1>3, <1>4, <1>5, <1>6, StepCases

\* A step once done stays done, whatever any command does.
LEMMA DoneStays ==
  ASSUME TypeOK, InStep, Creating, [Next]_vars, NEW s \in Setup, NEW n, Done(s, n)
  PROVE  Done(s, n)'
<1>1. s.lane \in Lane /\ s.tree \in Tree
  BY SetupFields
<1>2. TargetsKept
  BY TargetFrame
<1>3. ProfileOf(s) # None /\ SkillFiles \in Nat /\ skill \in 0..SkillFiles
  BY SetupFields, SetupAssumption DEF TypeOK
<1>4. ASSUME lanes[s.lane] \in {LaneOf(s, "active"), LaneOf(s, "closed")}
      PROVE  \/ lanes'[s.lane] = lanes[s.lane] /\ ~Release(s.lane)
             \/ lanes'[s.lane] = LaneOf(s, "closed")
  <2>1. lanes[s.lane] # None /\ lanes[s.lane].state # "creating"
    BY <1>4, SetupFields
  <2>2. \A t \in Setup : lanes[s.lane] # LaneOf(t, "creating")
    BY <2>1, SetupFields
  <2>3. \A p \in Proc : CreateLane(p) \/ Activate(p) => job[p].setup \in Setup
    BY JobSetup DEF CreateLane, Activate
  <2>4. \/ lanes'[s.lane] = lanes[s.lane]
        \/ Release(s.lane) /\ lanes'[s.lane] = [lanes[s.lane] EXCEPT !.state = "closed"]
    BY <1>1, <2>1, <2>2, <2>3, LaneFrame
  <2>5. Release(s.lane) => lanes'[s.lane] = [lanes[s.lane] EXCEPT !.state = "closed"]
    BY <1>1 DEF Release, TypeOK
  <2>6. [lanes[s.lane] EXCEPT !.state = "closed"] = LaneOf(s, "closed")
    BY <1>4 DEF LaneOf
  <2>. QED BY <2>4, <2>5, <2>6
<1>5. leases[s.lane] \subseteq leases'[s.lane] \/ Release(s.lane)
  BY <1>1, LeaseFrame
<1>6. CASE n = 1
  BY <1>1, <1>2, <1>6 DEF Done, TargetsKept
<1>7. CASE n = 2
  BY <1>4, <1>7 DEF Done
<1>8. CASE n = 3
  BY <1>4, <1>5, <1>8 DEF Done
<1>9. CASE n = 4
  BY <1>1, <1>2, <1>3, <1>9 DEF Done, TargetsKept
<1>10. CASE n = 5
  BY <1>2, <1>10 DEF Done, TargetsKept
<1>11. CASE n = 6
  BY <1>2, <1>3, <1>11 DEF Done, TargetsKept
<1>. QED BY <1>6, <1>7, <1>8, <1>9, <1>10, <1>11 DEF Done
-----------------------------------------------------------------------------
(* The parts of the invariant. *)

LEMMA SetupInvInit == Init => SetupInv
<1>. SUFFICES ASSUME Init PROVE SetupInv
  OBVIOUS
<1>1. TypeOK
  BY StepNames, SetupAssumption DEF Init, TypeOK, Idle
<1>2. InStep /\ Prepared /\ Creating /\ WorktreeExclusive /\ DoneBeforeMark
  BY DEF Init, InStep, Prepared, Creating, WorktreeExclusive, DoneBeforeMark
<1>3. RecordedIsDone
  BY DEF Init, RecordedIsDone
<1>. QED BY <1>1, <1>2, <1>3 DEF SetupInv

\* The program counters and jobs keep their types.
JobTypes ==
  /\ pc' \in [Proc -> Points]
  /\ job' \in [Proc -> [setup : Setup \cup {None}, step : 0..Len(Steps)]]
  /\ stops' \in Nat /\ edits' \in Nat

LEMMA JobStep == TypeOK /\ InStep /\ [Next]_vars => JobTypes
<1>. SUFFICES ASSUME TypeOK, InStep, [Next]_vars PROVE JobTypes
  OBVIOUS
<1>. USE StepNames DEF TypeOK, JobTypes
<1>1. ASSUME NEW p \in Proc, NEW s \in Setup, Begin(p, s) PROVE JobTypes
  BY <1>1 DEF Begin, Goto, Quiet
<1>2. ASSUME NEW p \in Proc, End(p), stops' \in Nat, edits' \in Nat PROVE JobTypes
  BY <1>2 DEF End, Goto, Idle
<1>3. ASSUME NEW p \in Proc, Mark(p) PROVE JobTypes
  <2>1. CASE job[p].step = Len(Steps)
    BY <1>2, <1>3, <2>1 DEF Mark, Quiet
  <2>2. CASE job[p].step # Len(Steps)
    <3>1. pc[p] # "idle"
      BY <1>3 DEF Mark
    <3>2. job[p].step \in 1..5
      BY <2>2, <3>1, JobSetup
    <3>3. job[p].step + 1 \in {2, 3, 4, 5, 6} /\ Steps[job[p].step + 1] \in Points
      BY <3>2
    <3>4. pc' \in [Proc -> Points]
      BY <1>3, <2>2, <3>3 DEF Mark, Goto
    <3>5. job' = [job EXCEPT ![p].step = job[p].step + 1]
      BY <1>3, <2>2 DEF Mark
    <3>6. job' \in [Proc -> [setup : Setup \cup {None}, step : 0..Len(Steps)]]
      <4>1. job[p].step + 1 \in 0..Len(Steps)
        BY <3>3
      <4>. QED BY <3>5, <4>1
    <3>. QED BY <1>3, <3>4, <3>6 DEF Mark, Quiet
  <2>. QED BY <2>1, <2>2
<1>4. ASSUME NEW p \in Proc, Worktree(p) \/ Activate(p) \/ Claim(p) \/ WriteProfile(p) \/ InstallBinary(p)
      PROVE  JobTypes
  BY <1>4 DEF Worktree, Activate, Claim, WriteProfile, InstallBinary, ToMark, Goto, Quiet
<1>5. ASSUME NEW p \in Proc, EnsureLane(p) \/ CreateLane(p) \/ CreateRef(p) PROVE JobTypes
  BY <1>5 DEF EnsureLane, CreateLane, CreateRef, ToMark, Goto, Quiet
<1>6. ASSUME NEW p \in Proc, InstallSkill(p) PROVE JobTypes
  BY <1>6 DEF InstallSkill, ToMark, Goto, Quiet
<1>7. CASE UNCHANGED vars \/ Outside
  BY <1>7 DEF vars, Outside
<1>8. ASSUME NEW p \in Proc, Refused(p) \/ Stop(p) PROVE JobTypes
  BY <1>2, <1>8 DEF Refused, Stop, Quiet
<1>. QED BY <1>1, <1>3, <1>4, <1>5, <1>6, <1>7, <1>8 DEF Next, Running

\* The records that every step leaves within their types.
RecordTypes ==
  /\ trees' \in [Tree -> {"absent", "base", "elsewhere"}]
  /\ refs' \in [Agent \X Lane -> {"absent", "base", "other"}]
  /\ leases' \in [Lane -> SUBSET Path]
  /\ profiles' \in [Lane -> {None} \cup ProfileRecord]
  /\ binary' \in {"absent", "ours", "other"}

LEMMA TypeStep == TypeOK /\ InStep /\ Creating /\ [Next]_vars => TypeOK'
<1>. SUFFICES ASSUME TypeOK, InStep, Creating, [Next]_vars PROVE TypeOK'
  OBVIOUS
<1>1. JobTypes
  BY JobStep
<1>2. intents' \in [Setup -> {None} \cup 0..Len(Steps)]
  <2>1. intents' = [s \in Setup |-> intents'[s]]
    <3>1. ASSUME NEW p \in Proc, (\E s \in Setup : Begin(p, s)) \/ Mark(p)
          PROVE  intents' = [s \in Setup |-> intents'[s]]
      BY <3>1 DEF Begin, Mark, TypeOK
    <3>2. CASE intents' = intents
      BY <3>2 DEF TypeOK
    <3>3. ASSUME NEW p \in Proc, (\E s \in Setup : Begin(p, s)) \/ Running(p) \/ Ending(p)
          PROVE  intents' = intents \/ (\E s \in Setup : Begin(p, s)) \/ Mark(p)
      BY <3>3 DEF Running, Ending, Worktree, EnsureLane, CreateLane, CreateRef, Activate, Claim,
         WriteProfile, InstallBinary, InstallSkill, records
    <3>4. CASE UNCHANGED vars \/ Outside
      BY <3>2, <3>4 DEF vars, Outside, Release, MoveHead, MoveRef, PutBinary, records
    <3>. QED BY <3>1, <3>2, <3>3, <3>4, StepCases
  <2>2. ASSUME NEW s \in Setup PROVE intents'[s] \in {None} \cup 0..Len(Steps)
    <3>1. \A p \in Proc : Mark(p) => job[p].step \in 0..Len(Steps)
      BY DEF TypeOK
    <3>. QED BY <3>1, IntentFrame, StepNames DEF TypeOK
  <2>. QED BY <2>1, <2>2
<1>3. lanes' \in [Lane -> {None} \cup LaneRecord]
  <2>1. CASE lanes' = lanes
    BY <2>1 DEF TypeOK
  <2>2. ASSUME NEW p \in Proc, CreateLane(p) \/ Activate(p)
        PROVE  lanes' \in [Lane -> {None} \cup LaneRecord]
    BY <2>2, JobSetup, SetupFields DEF CreateLane, Activate, TypeOK
  <2>3. ASSUME NEW l \in Lane, Release(l) PROVE lanes' \in [Lane -> {None} \cup LaneRecord]
    <3>1. lanes[l] \in LaneRecord
      BY <2>3 DEF Release, TypeOK
    <3>2. [lanes[l] EXCEPT !.state = "closed"] \in LaneRecord
      BY <3>1 DEF LaneRecord
    <3>. QED BY <2>3, <3>2 DEF Release, TypeOK
  <2>4. CASE UNCHANGED vars \/ Outside
    BY <2>1, <2>3, <2>4 DEF vars, Outside, MoveHead, MoveRef, PutBinary, records
  <2>5. ASSUME NEW p \in Proc, (\E s \in Setup : Begin(p, s)) \/ Running(p) \/ Ending(p)
        PROVE  lanes' = lanes \/ CreateLane(p) \/ Activate(p)
    BY <2>5 DEF Begin, Running, Ending, Mark, Worktree, EnsureLane, CreateRef, Claim, WriteProfile,
       InstallBinary, InstallSkill, records
  <2>. QED BY <2>1, <2>2, <2>4, <2>5, StepCases
<1>4. RecordTypes
  <2>1. CASE UNCHANGED <<trees, refs, leases, profiles, binary>>
    BY <2>1 DEF TypeOK, RecordTypes
  <2>2. ASSUME NEW p \in Proc, Worktree(p) \/ CreateRef(p) PROVE RecordTypes
    <3>1. pc[p] # "idle"
      BY <2>2 DEF Worktree, CreateRef
    <3>2. job[p].setup \in Setup
      BY <3>1, JobSetup
    <3>3. CASE Worktree(p)
      BY <3>2, <3>3, SetupFields DEF Worktree, records, TypeOK, RecordTypes
    <3>4. CASE CreateRef(p)
      BY <3>2, <3>4, SetupFields DEF CreateRef, records, TypeOK, RecordTypes
    <3>. QED BY <2>2, <3>3, <3>4
  <2>3. ASSUME NEW p \in Proc, Claim(p) PROVE RecordTypes
    BY <2>3, JobSetup, SetupFields DEF Claim, targets, TypeOK, RecordTypes
  <2>4. ASSUME NEW p \in Proc, WriteProfile(p) \/ InstallBinary(p) PROVE RecordTypes
    BY <2>4, JobSetup, SetupFields DEF WriteProfile, InstallBinary, targets, records, TypeOK, RecordTypes
  <2>5. CASE Outside
    <3>1. ASSUME NEW l \in Lane, Release(l) PROVE RecordTypes
      BY <3>1 DEF Release, targets, TypeOK, RecordTypes
    <3>2. ASSUME NEW t \in Tree, MoveHead(t) PROVE RecordTypes
      BY <3>2 DEF MoveHead, records, TypeOK, RecordTypes
    <3>3. ASSUME NEW r \in Agent \X Lane, MoveRef(r) PROVE RecordTypes
      BY <3>3 DEF MoveRef, records, TypeOK, RecordTypes
    <3>4. CASE PutBinary
      BY <3>4 DEF PutBinary, records, TypeOK, RecordTypes
    <3>. QED BY <2>5, <3>1, <3>2, <3>3, <3>4 DEF Outside
  <2>6. ASSUME NEW p \in Proc, (\E s \in Setup : Begin(p, s)) \/ Running(p) \/ Ending(p)
        PROVE  RecordTypes
    BY <2>1, <2>2, <2>3, <2>4, <2>6 DEF Begin, Running, Ending, Mark, EnsureLane, CreateLane, Activate,
       InstallSkill, records, targets
  <2>7. CASE UNCHANGED vars
    BY <2>1, <2>7 DEF vars, records, targets
  <2>. QED BY <2>5, <2>6, <2>7, StepCases
<1>5. skill' \in 0..SkillFiles
  BY TargetFrame DEF TargetsKept
<1>. QED BY <1>1, <1>2, <1>3, <1>4, <1>5 DEF TypeOK, JobTypes, RecordTypes

\* A step of one command leaves the others where they are.
LEMMA OtherJob ==
  ASSUME TypeOK, NEW p \in Proc, NEW q \in Proc, p # q,
         (\E s \in Setup : Begin(p, s)) \/ Running(p) \/ Ending(p)
  PROVE  job'[q] = job[q] /\ pc'[q] = pc[q]
BY DEF Begin, Running, Ending, Mark, Worktree, EnsureLane, CreateLane, CreateRef, Activate,
   Claim, WriteProfile, InstallBinary, InstallSkill, ToMark, End, Goto, TypeOK

LEMMA InStepStep == TypeOK /\ InStep /\ [Next]_vars => InStep'
<1>. SUFFICES ASSUME TypeOK, InStep, [Next]_vars, NEW q \in Proc, pc'[q] # "idle"
              PROVE  /\ job'[q].setup \in Setup /\ intents'[job'[q].setup] # None
                     /\ job'[q].step \in 1..Len(Steps)
                     /\ pc'[q] = Steps[job'[q].step] \/ pc'[q] = "mark"
                          \/ (job'[q].step = 2 /\ pc'[q] \in {"create", "ref", "activate"})
  BY DEF InStep
<1>. USE StepNames
<1>0. \A s \in Setup : intents[s] # None => intents'[s] # None
  <2>. SUFFICES ASSUME NEW s \in Setup, intents[s] # None PROVE intents'[s] # None
    OBVIOUS
  <2>1. \A k \in Nat : k + 1 # None
    BY SetupAssumption
  <2>. QED BY <2>1, IntentFrame
<1>1. CASE job'[q] = job[q] /\ pc'[q] = pc[q]
  BY <1>0, <1>1 DEF InStep
<1>2. CASE job'[q] = job[q] /\ pc'[q] = "mark" /\ pc[q] # "idle"
  BY <1>0, <1>2 DEF InStep
<1>3. ASSUME NEW s \in Setup, Begin(q, s)
      PROVE  job'[q].setup = s /\ intents'[s] # None /\ job'[q].step = 1 /\ pc'[q] = "worktree"
  BY <1>3, SetupAssumption DEF Begin, Goto, TypeOK
<1>4. CASE Mark(q)
  <2>1. pc[q] = "mark" /\ job[q].setup \in Setup /\ intents[job[q].setup] # None
    BY <1>4 DEF Mark, InStep
  <2>2. CASE job[q].step = Len(Steps)
    BY <1>4, <2>2 DEF Mark, End, Goto, TypeOK
  <2>3. CASE job[q].step # Len(Steps)
    <3>1. job[q].step \in 1..5
      BY <2>1, <2>3, JobSetup
    <3>2. job'[q].setup = job[q].setup /\ job'[q].step = job[q].step + 1
          /\ pc'[q] = Steps[job[q].step + 1]
      BY <1>4, <2>3 DEF Mark, Goto, TypeOK
    <3>. QED BY <1>0, <2>1, <3>1, <3>2
  <2>. QED BY <2>2, <2>3
<1>5. CASE EnsureLane(q) \/ CreateLane(q) \/ CreateRef(q)
  <2>1. pc[q] \in {"lane", "create", "ref"} /\ job'[q] = job[q]
        /\ pc'[q] \in {"mark", "create", "ref", "activate"}
    BY <1>5 DEF EnsureLane, CreateLane, CreateRef, ToMark, Goto, TypeOK
  <2>2. job[q].step = 2
    BY <2>1, JobSetup
  <2>. QED BY <1>0, <2>1, <2>2 DEF InStep
<1>6. ASSUME Worktree(q) \/ Activate(q) \/ Claim(q) \/ WriteProfile(q) \/ InstallBinary(q) \/ InstallSkill(q)
      PROVE  job'[q] = job[q] /\ pc[q] # "idle" /\ (pc'[q] = "mark" \/ pc'[q] = pc[q])
  BY <1>6 DEF Worktree, Activate, Claim, WriteProfile, InstallBinary, InstallSkill, ToMark, Goto, TypeOK
<1>7. ASSUME Ending(q) PROVE FALSE
  BY <1>7 DEF Ending, End, Goto, TypeOK
<1>8. ASSUME NEW p \in Proc, p # q, (\E s \in Setup : Begin(p, s)) \/ Running(p) \/ Ending(p)
      PROVE  job'[q] = job[q] /\ pc'[q] = pc[q]
  BY <1>8, OtherJob
<1>9. CASE UNCHANGED vars \/ Outside
  BY <1>1, <1>9 DEF vars, Outside
<1>. QED BY <1>1, <1>2, <1>3, <1>4, <1>5, <1>6, <1>7, <1>8, <1>9, StepCases DEF Running

\* How a command gets to be inside Create.
LEMMA Inside ==
  ASSUME TypeOK, InStep, [Next]_vars, NEW q \in Proc, pc'[q] \in {"ref", "activate"}
  PROVE  /\ job'[q] = job[q]
         /\ ~Activate(q)
         /\ pc[q] \in {"ref", "activate"} \/ CreateLane(q)
<1>5. ASSUME Activate(q) PROVE FALSE
  BY <1>5 DEF Activate, ToMark, Goto, TypeOK
<1>1. ASSUME NEW p \in Proc, p # q, (\E s \in Setup : Begin(p, s)) \/ Running(p) \/ Ending(p)
      PROVE  job'[q] = job[q] /\ pc'[q] = pc[q]
  BY <1>1, OtherJob
<1>2. ASSUME (\E s \in Setup : Begin(q, s)) \/ Ending(q) PROVE FALSE
  BY <1>2 DEF Begin, Ending, End, Goto, TypeOK
<1>3. CASE UNCHANGED vars \/ Outside
  BY <1>3, <1>5 DEF vars, Outside
<1>4. ASSUME Mark(q) PROVE FALSE
  <2>1. pc[q] = "mark"
    BY <1>4 DEF Mark
  <2>2. job[q].step \in {1, 2, 3, 4, 5, 6}
    BY <2>1, JobSetup
  <2>3. pc'[q] = "idle" \/ (job[q].step # 6 /\ pc'[q] = Steps[job[q].step + 1])
    BY <1>4, StepNames DEF Mark, End, Goto, TypeOK
  <2>4. CASE job[q].step # 6 /\ pc'[q] = Steps[job[q].step + 1]
    <3>1. job[q].step + 1 \in {2, 3, 4, 5, 6}
      BY <2>2, <2>4
    <3>. QED BY <2>4, <3>1, StepNames
  <2>. QED BY <2>3, <2>4
<1>6. ASSUME Worktree(q) \/ Claim(q) \/ WriteProfile(q) \/ InstallBinary(q) \/ InstallSkill(q)
      PROVE  FALSE
  BY <1>6 DEF Worktree, Claim, WriteProfile, InstallBinary, InstallSkill, ToMark, Goto, TypeOK
<1>7. ASSUME EnsureLane(q) PROVE FALSE
  BY <1>7 DEF EnsureLane, ToMark, Goto, TypeOK
<1>8. CASE CreateLane(q) \/ CreateRef(q)
  BY <1>5, <1>8 DEF CreateLane, CreateRef
<1>. QED BY <1>1, <1>2, <1>3, <1>4, <1>5, <1>6, <1>7, <1>8, StepCases DEF Running, Activate

\* The lane that a command is creating is not disturbed until it is active.
LEMMA CreatingStep == TypeOK /\ InStep /\ Creating /\ [Next]_vars => Creating'
<1>. SUFFICES ASSUME TypeOK, InStep, Creating, [Next]_vars,
                     NEW q \in Proc, pc'[q] \in {"ref", "activate"}
              PROVE  /\ lanes'[job'[q].setup.lane] = LaneOf(job'[q].setup, "creating")
                     /\ \A r \in Proc \ {q} : pc'[r] \notin {"ref", "activate"}
  BY DEF Creating
<1>. DEFINE s == job[q].setup
<1>1. job'[q] = job[q] /\ ~Activate(q) /\ (pc[q] \in {"ref", "activate"} \/ CreateLane(q))
  BY Inside
<1>2. pc[q] # "idle"
  BY <1>1 DEF CreateLane
<1>3. s \in Setup /\ s.lane \in Lane
  BY <1>2, JobSetup
<1>4. ASSUME pc[q] \in {"ref", "activate"}
      PROVE  /\ lanes[s.lane] = LaneOf(s, "creating") /\ ~RegistryFree
             /\ \A r \in Proc \ {q} : pc[r] \notin {"ref", "activate"}
  BY <1>4 DEF Creating, RegistryFree
<1>5. lanes'[s.lane] = LaneOf(s, "creating")
  <2>1. CASE CreateLane(q)
    BY <1>3, <2>1 DEF CreateLane, TypeOK
  <2>2. CASE pc[q] \in {"ref", "activate"}
    <3>1. \A p \in Proc : ~CreateLane(p)
      BY <1>4, <2>2 DEF CreateLane
    <3>2. \A p \in Proc : ~Activate(p)
      BY <1>1, <1>4, <2>2 DEF Activate
    <3>3. ~Release(s.lane)
      BY <1>4, <2>2 DEF Release
    <3>. HIDE DEF s
    <3>. QED BY <1>3, <1>4, <2>2, <3>1, <3>2, <3>3, LaneFrame
  <2>. QED BY <1>1, <2>1, <2>2
<1>6. ASSUME NEW r \in Proc \ {q}, pc'[r] \in {"ref", "activate"}
      PROVE  FALSE
  <2>1. pc[r] \in {"ref", "activate"} \/ CreateLane(r)
    BY <1>6, Inside
  <2>2. ASSUME NEW p \in Proc, NEW o \in Proc \ {p}, CreateLane(p)
        PROVE  pc[o] \notin {"ref", "activate"} /\ pc'[o] = pc[o]
    BY <2>2, OtherJob DEF CreateLane, RegistryFree, Running
  <2>3. CASE CreateLane(q)
    BY <1>6, <2>2, <2>3
  <2>4. CASE CreateLane(r)
    BY <2>2, <2>4
  <2>. QED BY <1>1, <1>4, <2>1, <2>3, <2>4
<1>. QED BY <1>1, <1>5, <1>6

\* Create looks at every other lane of the checkout under the registry lock.
LEMMA WorktreeStep == TypeOK /\ InStep /\ Creating /\ WorktreeExclusive /\ [Next]_vars => WorktreeExclusive'
<1>. SUFFICES ASSUME TypeOK, InStep, Creating, WorktreeExclusive, [Next]_vars,
                     NEW l \in Lane, NEW m \in Lane, l # m, lanes'[l] # None, lanes'[m] # None,
                     {lanes'[l].state, lanes'[m].state} \subseteq {"creating", "active"},
                     lanes'[l].tree = lanes'[m].tree,
                     "worktree" \in {lanes'[l].mode, lanes'[m].mode}
              PROVE  FALSE
  BY DEF WorktreeExclusive
<1>1. ASSUME NEW k \in Lane, lanes'[k] # None, lanes'[k].state \in {"creating", "active"},
             \A p \in Proc : CreateLane(p) => job[p].setup.lane # k
      PROVE  /\ lanes[k] # None /\ lanes[k].state \in {"creating", "active"}
             /\ lanes[k].tree = lanes'[k].tree /\ lanes[k].mode = lanes'[k].mode
  <2>1. \A p \in Proc : Activate(p) => job[p].setup \in Setup
    BY JobSetup DEF Activate
  <2>2. \A s \in Setup : /\ LaneOf(s, "creating") # None
                         /\ LaneOf(s, "creating").state = "creating"
                         /\ LaneOf(s, "creating").tree = LaneOf(s, "active").tree
                         /\ LaneOf(s, "creating").mode = LaneOf(s, "active").mode
    BY SetupFields DEF LaneOf
  <2>3. \A x \in LaneRecord : [x EXCEPT !.state = "closed"].state = "closed"
    BY DEF LaneRecord
  <2>4. CASE lanes'[k] = lanes[k]
    BY <1>1, <2>4
  <2>5. ASSUME NEW p \in Proc, Activate(p), lanes[k] = LaneOf(job[p].setup, "creating"),
               lanes'[k] = LaneOf(job[p].setup, "active")
        PROVE  /\ lanes[k] # None /\ lanes[k].state \in {"creating", "active"}
               /\ lanes[k].tree = lanes'[k].tree /\ lanes[k].mode = lanes'[k].mode
    BY <2>1, <2>2, <2>5
  <2>6. ASSUME lanes[k] \in LaneRecord, lanes'[k] = [lanes[k] EXCEPT !.state = "closed"]
        PROVE  FALSE
    BY <1>1, <2>3, <2>6
  <2>. QED BY <1>1, <2>4, <2>5, <2>6, LaneFrame
<1>2. ASSUME NEW p \in Proc, CreateLane(p), NEW k \in Lane, NEW o \in Lane, k # o,
             job[p].setup.lane = k,
             lanes'[k] # None, lanes'[o] # None, lanes'[o].state \in {"creating", "active"},
             lanes'[k].tree = lanes'[o].tree, "worktree" \in {lanes'[k].mode, lanes'[o].mode}
      PROVE  FALSE
  <2>. DEFINE s == job[p].setup
  <2>1. s \in Setup /\ ~WorktreeConflict(s)
    BY <1>2, JobSetup DEF CreateLane, CreateOK
  <2>2. lanes'[k] = LaneOf(s, "creating") /\ lanes'[o] = lanes[o]
    BY <1>2 DEF CreateLane, TypeOK
  <2>3. LaneOf(s, "creating").tree = s.tree /\ LaneOf(s, "creating").mode = s.mode
    BY DEF LaneOf
  <2>. HIDE DEF s
  <2>. QED BY <1>2, <2>1, <2>2, <2>3 DEF WorktreeConflict, s
<1>3. CASE \E p \in Proc : CreateLane(p) /\ job[p].setup.lane \in {l, m}
  BY <1>2, <1>3
<1>4. CASE \A p \in Proc : CreateLane(p) => job[p].setup.lane \notin {l, m}
  BY <1>1, <1>4 DEF WorktreeExclusive
<1>. QED BY <1>3, <1>4

\* What a command is prepared for stays so.
LEMMA PreparedStep == TypeOK /\ InStep /\ Prepared /\ InStep' /\ [Next]_vars => Prepared'
<1>. SUFFICES ASSUME TypeOK, InStep, Prepared, InStep', [Next]_vars,
                     NEW q \in Proc, pc'[q] # "idle",
                     NEW s \in Setup, job'[q].setup = s
              PROVE  (s.create \/ trees'[s.tree] # "absent") /\ job'[q].step <= intents'[s] + 1
  BY DEF Prepared, InStep
<1>1. s.tree \in Tree /\ s.create \in BOOLEAN /\ TargetsKept
  BY SetupFields, TargetFrame
<1>2. intents[s] \in Nat => intents'[s] \in Nat /\ intents[s] <= intents'[s]
  BY IntentFrame, SetupAssumption
<1>3. \A r \in Proc : pc[r] # "idle" => job[r].setup \in Setup /\ intents[job[r].setup] \in 0..6
                                        /\ job[r].step \in 1..6
  BY StepNames DEF InStep, TypeOK
<1>4. CASE job'[q] = job[q] /\ pc[q] # "idle"
  <2>1. s.create \/ trees'[s.tree] # "absent"
    BY <1>1, <1>4 DEF Prepared, TargetsKept
  <2>2. intents[s] \in Nat /\ job[q].step \in Nat /\ job[q].step <= intents[s] + 1
    BY <1>3, <1>4 DEF Prepared
  <2>. QED BY <1>2, <1>4, <2>1, <2>2
<1>5. ASSUME NEW t \in Setup, Begin(q, t) PROVE s = t /\ (s.create \/ trees'[s.tree] # "absent")
  BY <1>1, <1>5 DEF Begin, TypeOK, TargetsKept
<1>6. CASE \E t \in Setup : Begin(q, t)
  <2>1. PICK t \in Setup : Begin(q, t)
    BY <1>6
  <2>2. s = t /\ job'[q].step = 1 /\ trees' = trees
        /\ (t.create \/ trees[t.tree] # "absent")
        /\ intents'[t] = (IF intents[t] = None THEN 0 ELSE intents[t])
    BY <2>1 DEF Begin, TypeOK, targets
  <2>3. intents'[t] \in Nat
    BY <2>2, StepNames DEF TypeOK
  <2>. QED BY <2>2, <2>3
<1>7. CASE Mark(q)
  <2>1. pc[q] = "mark"
    BY <1>7 DEF Mark
  <2>2. job[q].step # Len(Steps)
    BY <1>7 DEF Mark, End, Goto, TypeOK
  <2>3. s = job[q].setup /\ job'[q].step = job[q].step + 1 /\ trees' = trees
    BY <1>7, <2>2 DEF Mark, TypeOK, targets
  <2>4. job[q].step \in Nat /\ intents[s] \in Nat /\ job[q].step <= intents[s] + 1
    BY <1>3, <2>1, <2>3 DEF Prepared
  <2>5. intents'[s] = IF job[q].step = intents[s] + 1 THEN job[q].step ELSE intents[s]
    BY <1>7, <2>3 DEF Mark, TypeOK
  <2>6. s.create \/ trees'[s.tree] # "absent"
    BY <2>1, <2>3 DEF Prepared
  <2>. QED BY <2>3, <2>4, <2>5, <2>6
<1>8. ASSUME Running(q), ~Mark(q) PROVE job'[q] = job[q] /\ pc[q] # "idle"
  BY <1>8 DEF Running, Worktree, EnsureLane, CreateLane, CreateRef, Activate, Claim, WriteProfile,
     InstallBinary, InstallSkill, ToMark, Goto
<1>9. ASSUME Ending(q) PROVE FALSE
  BY <1>9 DEF Ending, End, Goto, TypeOK
<1>10. ASSUME NEW p \in Proc, p # q, (\E t \in Setup : Begin(p, t)) \/ Running(p) \/ Ending(p)
       PROVE  job'[q] = job[q] /\ pc'[q] = pc[q]
  BY <1>10, OtherJob
<1>11. CASE UNCHANGED vars \/ Outside
  BY <1>4, <1>11 DEF vars, Outside
<1>. QED BY <1>4, <1>6, <1>7, <1>8, <1>9, <1>10, <1>11, StepCases

\* The effect of each step of the setup is there when the command goes on to
\* record it.
LEMMA StepDone ==
  ASSUME TypeOK, InStep, Prepared, Creating, RecordedIsDone, [Next]_vars, TypeOK',
         NEW q \in Proc, Running(q), ~Mark(q), pc'[q] = "mark",
         NEW s \in Setup, job[q].setup = s
  PROVE  Done(s, job[q].step)'
<1>1. /\ s.lane \in Lane /\ s.tree \in Tree /\ s.paths \subseteq Path
      /\ s.create \in BOOLEAN /\ s.install \in BOOLEAN /\ SkillFiles \in Nat
  BY SetupFields, SetupAssumption
<1>. DEFINE n == job[q].step
<1>2. CASE Worktree(q)
  <2>1. n = 1
    BY <1>2, JobSetup DEF Worktree
  <2>2. trees'[s.tree] = IF s.create /\ trees[s.tree] = "absent" THEN "base" ELSE trees[s.tree]
    BY <1>1, <1>2 DEF Worktree, TypeOK
  <2>3. s.create \/ trees[s.tree] # "absent"
    BY <1>2 DEF Prepared, Worktree
  <2>4. trees'[s.tree] # "absent"
    BY <2>2, <2>3
  <2>5. job' = job
    BY <1>2 DEF Worktree, ToMark
  <2>. QED BY <2>1, <2>4, <2>5 DEF Done
<1>3. CASE EnsureLane(q)
  <2>1. n = 2
    BY <1>3, JobSetup DEF EnsureLane
  <2>2. lanes'[s.lane] = LaneOf(s, "active")
    BY <1>3 DEF EnsureLane, EnsureLaneOK, Goto, TypeOK, records
  <2>3. job' = job
    BY <1>3 DEF EnsureLane, ToMark
  <2>. QED BY <2>1, <2>2, <2>3 DEF Done
<1>4. CASE Activate(q)
  <2>1. n = 2
    BY <1>4, JobSetup DEF Activate
  <2>2. lanes'[s.lane] = LaneOf(s, "active") /\ job' = job
    BY <1>1, <1>4 DEF Activate, ToMark, TypeOK
  <2>. QED BY <2>1, <2>2 DEF Done
<1>5. CASE Claim(q)
  <2>1. n = 3
    BY <1>5, JobSetup DEF Claim
  <2>2. intents[s] \in 0..6 /\ n <= intents[s] + 1
    BY <1>5, StepNames DEF Prepared, InStep, TypeOK, Claim
  <2>3. 2 \in 1..intents[s] /\ intents[s] # None
    BY <1>5, <2>1, <2>2 DEF InStep, Claim
  <2>4. lanes[s.lane] \in {LaneOf(s, "active"), LaneOf(s, "closed")}
    BY <2>3 DEF RecordedIsDone, Done
  <2>5. lanes[s.lane] = LaneOf(s, "active")
    BY <1>5, <2>4, SetupFields DEF Claim, ClaimOK
  <2>6. lanes' = lanes /\ job' = job /\ s.paths \subseteq leases'[s.lane]
    BY <1>1, <1>5 DEF Claim, ToMark, TypeOK
  <2>. QED BY <2>1, <2>5, <2>6 DEF Done
<1>6. CASE WriteProfile(q)
  <2>1. n = 4
    BY <1>6, JobSetup DEF WriteProfile
  <2>2. profiles'[s.lane] = ProfileOf(s) /\ job' = job
    BY <1>1, <1>6 DEF WriteProfile, ToMark, TypeOK
  <2>. QED BY <2>1, <2>2 DEF Done
<1>7. CASE InstallBinary(q)
  <2>1. n = 5
    BY <1>7, JobSetup DEF InstallBinary
  <2>2. (s.install => binary' = "ours") /\ job' = job
    BY <1>7 DEF InstallBinary, ToMark
  <2>. QED BY <2>1, <2>2 DEF Done
<1>8. CASE InstallSkill(q)
  <2>1. n = 6
    BY <1>8, JobSetup DEF InstallSkill
  <2>2. ~(s.install /\ skill < SkillFiles) /\ skill' = skill /\ job' = job
    BY <1>8 DEF InstallSkill, ToMark
  <2>3. s.install => skill' = SkillFiles
    BY <1>1, <2>2 DEF TypeOK
  <2>. QED BY <2>1, <2>2, <2>3 DEF Done
<1>9. ASSUME CreateLane(q) \/ CreateRef(q) PROVE FALSE
  BY <1>9 DEF CreateLane, CreateRef, Goto, TypeOK
<1>. QED BY <1>2, <1>3, <1>4, <1>5, <1>6, <1>7, <1>8, <1>9 DEF Running

\* The commands that are about to record a step have done it.
LEMMA MarkStep ==
  TypeOK /\ InStep /\ Prepared /\ Creating /\ DoneBeforeMark /\ RecordedIsDone
    /\ [Next]_vars /\ TypeOK' /\ InStep' => DoneBeforeMark'
<1>. SUFFICES ASSUME TypeOK, InStep, Prepared, Creating, DoneBeforeMark, RecordedIsDone,
                     [Next]_vars, TypeOK', InStep', NEW q \in Proc, pc'[q] = "mark"
              PROVE  Done(job[q].setup, job[q].step)'
  BY DEF DoneBeforeMark
<1>1. CASE pc[q] = "mark" /\ job'[q] = job[q]
  <2>1. PICK s \in Setup, n \in 1..6 : job[q].setup = s /\ job[q].step = n
    BY <1>1, JobSetup
  <2>2. Done(s, n)
    BY <1>1, <2>1 DEF DoneBeforeMark
  <2>3. Done(s, n)'
    BY <2>2, DoneStays
  <2>. QED BY <1>1, <2>1, <2>3
<1>2. CASE Running(q) /\ ~Mark(q)
  <2>1. pc[q] # "idle" /\ job' = job
    BY <1>2 DEF Running, Worktree, EnsureLane, CreateLane, CreateRef, Activate, Claim, WriteProfile,
       InstallBinary, InstallSkill, ToMark
  <2>2. PICK s \in Setup : job[q].setup = s
    BY <2>1, JobSetup
  <2>3. Done(s, job[q].step)'
    BY <1>2, <2>2, StepDone
  <2>. QED BY <2>1, <2>2, <2>3
<1>3. ASSUME Mark(q) PROVE FALSE
  <2>1. pc[q] = "mark"
    BY <1>3 DEF Mark
  <2>2. job[q].step \in {1, 2, 3, 4, 5, 6}
    BY <2>1, JobSetup
  <2>3. pc'[q] = "idle" \/ (job[q].step # 6 /\ pc'[q] = Steps[job[q].step + 1])
    BY <1>3, StepNames DEF Mark, End, Goto, TypeOK
  <2>4. CASE job[q].step # 6 /\ pc'[q] = Steps[job[q].step + 1]
    <3>1. job[q].step + 1 \in {2, 3, 4, 5, 6}
      BY <2>2, <2>4
    <3>. QED BY <2>4, <3>1, StepNames
  <2>. QED BY <2>3, <2>4
<1>4. ASSUME (\E s \in Setup : Begin(q, s)) \/ Ending(q) PROVE FALSE
  BY <1>4 DEF Begin, Ending, End, Goto, TypeOK
<1>5. ASSUME NEW p \in Proc, p # q, (\E s \in Setup : Begin(p, s)) \/ Running(p) \/ Ending(p)
      PROVE  job'[q] = job[q] /\ pc'[q] = pc[q]
  BY <1>5, OtherJob
<1>6. CASE UNCHANGED vars \/ Outside
  BY <1>1, <1>6 DEF vars, Outside
<1>. QED BY <1>1, <1>2, <1>3, <1>4, <1>5, <1>6, StepCases

\* The recorded steps are done, the newly recorded one because it was done before.
LEMMA RecordedStep ==
  TypeOK /\ InStep /\ Creating /\ DoneBeforeMark /\ RecordedIsDone /\ [Next]_vars => RecordedIsDone'
<1>. SUFFICES ASSUME TypeOK, InStep, Creating, DoneBeforeMark, RecordedIsDone, [Next]_vars,
                     NEW s \in Setup, intents'[s] # None, NEW n \in 1..intents'[s]
              PROVE  Done(s, n)'
  BY DEF RecordedIsDone
<1>1. CASE intents[s] # None /\ n \in 1..intents[s]
  <2>1. Done(s, n)
    BY <1>1 DEF RecordedIsDone
  <2>. QED BY <2>1, DoneStays
<1>2. CASE \E p \in Proc : Mark(p) /\ job[p].setup = s /\ job[p].step = n
  <2>1. Done(s, n)
    BY <1>2 DEF DoneBeforeMark, Mark
  <2>. QED BY <2>1, DoneStays
<1>3. CASE intents'[s] = intents[s]
  BY <1>1, <1>3
<1>4. CASE intents'[s] = 0
  BY <1>4
<1>5. ASSUME NEW p \in Proc, Mark(p), job[p].setup = s, intents[s] \in Nat,
             intents'[s] = intents[s] + 1, intents'[s] = job[p].step
      PROVE  Done(s, n)'
  <2>1. intents[s] # None
    BY <1>5, SetupAssumption
  <2>2. n = intents[s] + 1 \/ n \in 1..intents[s]
    BY <1>5
  <2>. QED BY <1>1, <1>2, <1>5, <2>1, <2>2
<1>. QED BY <1>3, <1>4, <1>5, IntentFrame
-----------------------------------------------------------------------------
(* The theorems. *)

\* However commands of any setups interleave, stop and are run again, the parts
\* of the invariant hold together.
THEOREM SetupInvariant == Spec => []SetupInv
<1>1. Init => SetupInv
  BY SetupInvInit
<1>2. SetupInv /\ [Next]_vars => SetupInv'
  BY TypeStep, InStepStep, PreparedStep, CreatingStep, WorktreeStep, MarkStep, RecordedStep DEF SetupInv
<1>. QED BY <1>1, <1>2, PTL DEF Spec

\* Intents, manifests, profiles and install targets keep their types.
THEOREM TypeCorrect == Spec => []TypeOK
<1>1. SetupInv => TypeOK
  BY DEF SetupInv
<1>. QED BY <1>1, SetupInvariant, PTL

\* No two lanes share a checkout that one of them has in worktree mode, whatever
\* Create calls race or stop.
THEOREM CheckoutsAreExclusive == Spec => []WorktreeExclusive
<1>1. SetupInv => WorktreeExclusive
  BY DEF SetupInv
<1>. QED BY <1>1, SetupInvariant, PTL

\* A durable intent never claims more than what is there.
THEOREM IntentsAreTrue == Spec => []RecordedIsDone
<1>1. SetupInv => RecordedIsDone
  BY DEF SetupInv
<1>. QED BY <1>1, SetupInvariant, PTL

\* A recorded step is never taken back by a late or repeated run.
THEOREM IntentsOnlyGrow == Spec => NoRegression
<1>1. SetupInv /\ [Next]_vars =>
        \A s \in Setup : intents[s] # None => intents'[s] # None /\ intents'[s] >= intents[s]
  <2>. SUFFICES ASSUME SetupInv, [Next]_vars, NEW s \in Setup, intents[s] # None
                PROVE  intents'[s] # None /\ intents'[s] >= intents[s]
    OBVIOUS
  <2>1. TypeOK /\ InStep
    BY DEF SetupInv
  <2>2. intents[s] \in Nat /\ \A k \in Nat : k # None
    BY <2>1, SetupAssumption, StepNames DEF TypeOK
  <2>. QED BY <2>1, <2>2, IntentFrame
<1>2. SetupInv /\ [Next]_vars =>
        [\A s \in Setup : intents[s] # None => intents'[s] # None /\ intents'[s] >= intents[s]]_vars
  BY <1>1
<1>. QED BY <1>2, SetupInvariant, PTL DEF Spec, NoRegression

\* No setup replaces the profile, the lane or the binary of another.
THEOREM NothingIsReplaced == Spec => NothingReplaced
<1>1. SetupInv /\ [Next]_vars =>
        [/\ \A l \in Lane : profiles[l] # None => profiles'[l] = profiles[l]
         /\ \A l \in Lane : lanes[l] # None =>
              lanes'[l] # None /\ lanes'[l] = [lanes[l] EXCEPT !.state = lanes'[l].state]
         /\ binary = "other" => binary' = "other"]_vars
  <2>. SUFFICES ASSUME SetupInv, [Next]_vars
                PROVE  /\ \A l \in Lane : profiles[l] # None => profiles'[l] = profiles[l]
                       /\ \A l \in Lane : lanes[l] # None =>
                            lanes'[l] # None /\ lanes'[l] = [lanes[l] EXCEPT !.state = lanes'[l].state]
                       /\ binary = "other" => binary' = "other"
    OBVIOUS
  <2>1. TypeOK /\ InStep /\ Creating
    BY DEF SetupInv
  <2>2. TargetsKept
    BY <2>1, TargetFrame
  <2>3. ASSUME NEW l \in Lane, lanes[l] # None
        PROVE  lanes'[l] # None /\ lanes'[l] = [lanes[l] EXCEPT !.state = lanes'[l].state]
    <3>1. lanes[l] \in LaneRecord
      BY <2>1, <2>3 DEF TypeOK
    <3>2. \A x \in LaneRecord : x = [x EXCEPT !.state = x.state]
      BY DEF LaneRecord
    <3>3. \A p \in Proc : CreateLane(p) \/ Activate(p) => job[p].setup \in Setup
      BY <2>1, JobSetup DEF CreateLane, Activate
    <3>4. \A s \in Setup : /\ LaneOf(s, "active") # None
                           /\ LaneOf(s, "active") =
                                [LaneOf(s, "creating") EXCEPT !.state = LaneOf(s, "active").state]
      <4>1. \A s \in Setup : LaneOf(s, "active") # None
        BY SetupFields
      <4>2. \A s \in Setup : LaneOf(s, "active").state = "active"
                             /\ LaneOf(s, "active") = [LaneOf(s, "creating") EXCEPT !.state = "active"]
        BY DEF LaneOf
      <4>. QED BY <4>1, <4>2
    <3>5. \A x \in LaneRecord : /\ [x EXCEPT !.state = "closed"] # None
                                /\ [x EXCEPT !.state = "closed"] =
                                     [x EXCEPT !.state = [x EXCEPT !.state = "closed"].state]
      BY SetupAssumption DEF LaneRecord
    <3>6. CASE lanes'[l] = lanes[l]
      BY <2>3, <3>1, <3>2, <3>6
    <3>7. CASE lanes'[l] = [lanes[l] EXCEPT !.state = "closed"]
      BY <3>1, <3>5, <3>7
    <3>8. ASSUME NEW s \in Setup, lanes[l] = LaneOf(s, "creating"), lanes'[l] = LaneOf(s, "active")
          PROVE  lanes'[l] # None /\ lanes'[l] = [lanes[l] EXCEPT !.state = lanes'[l].state]
      BY <3>4, <3>8
    <3>. QED BY <2>1, <2>3, <3>3, <3>6, <3>7, <3>8, LaneFrame
  <2>. QED BY <2>2, <2>3 DEF TargetsKept
<1>. QED BY <1>1, SetupInvariant, PTL DEF Spec, NothingReplaced
-----------------------------------------------------------------------------
(* The refinement of SetupLedger. *)

\* The ledger and the records of a setup, seen by both specifications.
LEMMA LedgerFacts ==
  ASSUME SetupInv, NEW s \in Setup
  PROVE  /\ \A state : Ledger!Manifest(s, state) = LaneOf(s, state)
         /\ Ledger!Profile(s) = ProfileOf(s)
         /\ intents[s] # None => intents[s] \in 0..6
BY StepNames DEF SetupInv, TypeOK, Ledger!Manifest, Ledger!Profile, LaneOf, ProfileOf

\* A command in a step has recorded the steps before.
LEMMA EarlierSteps ==
  ASSUME SetupInv, NEW p \in Proc, pc[p] # "idle", NEW s \in Setup, job[p].setup = s
  PROVE  /\ intents[s] # None /\ intents[s] \in 0..6
         /\ \A n \in 1..6 : n < job[p].step => n <= intents[s] /\ Done(s, n)
<1>1. /\ intents[s] # None /\ intents[s] \in 0..6 /\ job[p].step \in 1..6
      /\ job[p].step <= intents[s] + 1
  BY StepNames DEF SetupInv, InStep, Prepared, TypeOK
<1>2. ASSUME NEW n \in 1..6, n < job[p].step PROVE n <= intents[s] /\ Done(s, n)
  <2>1. n <= intents[s]
    BY <1>1, <1>2
  <2>2. n \in 1..intents[s]
    BY <1>1, <2>1
  <2>. QED BY <1>1, <2>1, <2>2 DEF SetupInv, RecordedIsDone
<1>. QED BY <1>1, <1>2

\* A new manifest, or the one of a creation that stopped.
LEMMA CreateLedger ==
  ASSUME SetupInv, NEW p \in Proc, CreateLane(p)
  PROVE  lanes' = lanes \/ \E s \in Setup : Ledger!Create(s)
<1>1. PICK s \in Setup : job[p].setup = s
  BY JobSetup DEF SetupInv, CreateLane
<1>2. /\ CreateOK(s) /\ lanes' = [lanes EXCEPT ![s.lane] = LaneOf(s, "creating")]
      /\ UNCHANGED <<intents, leases, profiles, binary>> /\ intents[s] # None
  BY <1>1, EarlierSteps DEF CreateLane, targets
<1>3. CASE lanes[s.lane] = LaneOf(s, "creating")
  BY <1>2, <1>3 DEF SetupInv, TypeOK
<1>4. CASE lanes[s.lane] = None
  <2>1. \A l \in Lane : lanes[l] # None => lanes[l].state \in {"creating", "active", "closed"}
    BY DEF SetupInv, TypeOK, LaneRecord
  <2>2. ~Ledger!Taken(s)
    BY <1>2, <2>1 DEF CreateOK, WorktreeConflict, Ledger!Taken
  <2>3. lanes' = [lanes EXCEPT ![s.lane] = Ledger!Manifest(s, "creating")]
    BY <1>2, LedgerFacts
  <2>. QED BY <1>2, <1>4, <2>2, <2>3 DEF Ledger!Create
<1>. QED BY <1>2, <1>3, <1>4 DEF CreateOK

\* The claim of a setup, whose lane is recorded and still active.
LEMMA ClaimLedger ==
  ASSUME SetupInv, NEW p \in Proc, Claim(p)
  PROVE  \E s \in Setup : Ledger!Claim(s)
<1>1. PICK s \in Setup : job[p].setup = s
  BY JobSetup DEF SetupInv, Claim
<1>2. /\ ClaimOK(s) /\ leases' = [leases EXCEPT ![s.lane] = @ \cup s.paths]
      /\ UNCHANGED <<intents, lanes, profiles, binary>>
  BY <1>1 DEF Claim, targets
<1>3. job[p].step = 3 /\ pc[p] # "idle"
  BY JobSetup DEF SetupInv, Claim
<1>4. intents[s] # None /\ intents[s] >= 2 /\ Done(s, 2)
  BY <1>1, <1>3, EarlierSteps
<1>5. lanes[s.lane] = Ledger!Manifest(s, "active")
  BY <1>2, <1>4, LedgerFacts, SetupFields DEF Done, ClaimOK
<1>. QED BY <1>2, <1>4, <1>5 DEF ClaimOK, Ledger!Claim

\* The profile of a setup, whose leases are recorded, or the one it has.
LEMMA ProfileLedger ==
  ASSUME SetupInv, NEW p \in Proc, WriteProfile(p)
  PROVE  profiles' = profiles \/ \E s \in Setup : Ledger!Introduce(s)
<1>1. PICK s \in Setup : job[p].setup = s
  BY JobSetup DEF SetupInv, WriteProfile
<1>2. /\ profiles[s.lane] \in {None, ProfileOf(s)} /\ profiles' = [profiles EXCEPT ![s.lane] = ProfileOf(s)]
      /\ UNCHANGED <<intents, lanes, leases, binary>>
  BY <1>1 DEF WriteProfile, targets
<1>3. job[p].step = 4 /\ pc[p] # "idle"
  BY JobSetup DEF SetupInv, WriteProfile
<1>4. intents[s] # None /\ intents[s] >= 3
  BY <1>1, <1>3, EarlierSteps
<1>5. CASE profiles[s.lane] = ProfileOf(s)
  BY <1>2, <1>5 DEF SetupInv, TypeOK
<1>6. CASE profiles[s.lane] = None
  <2>1. profiles' = [profiles EXCEPT ![s.lane] = Ledger!Profile(s)]
    BY <1>2, LedgerFacts
  <2>. QED BY <1>2, <1>4, <1>6, <2>1 DEF Ledger!Introduce
<1>. QED BY <1>2, <1>5, <1>6

\* The binary, where there is none.
LEMMA BinaryLedger ==
  ASSUME SetupInv, NEW p \in Proc, InstallBinary(p)
  PROVE  binary' = binary \/ Ledger!Install
<1>1. PICK s \in Setup : job[p].setup = s
  BY JobSetup DEF SetupInv, InstallBinary
<1>2. /\ BinaryOK(s) /\ binary' = IF s.install THEN "ours" ELSE binary
      /\ UNCHANGED <<intents, lanes, leases, profiles>>
  BY <1>1 DEF InstallBinary, records
<1>3. job[p].step = 5 /\ pc[p] # "idle"
  BY JobSetup DEF SetupInv, InstallBinary
<1>4. intents[s] # None /\ intents[s] >= 4
  BY <1>1, <1>3, EarlierSteps
<1>. QED BY <1>2, <1>4 DEF BinaryOK, Ledger!Install

\* The next step of the ledger, done before it is recorded.
LEMMA MarkLedger ==
  ASSUME SetupInv, NEW p \in Proc, Mark(p)
  PROVE  intents' = intents \/ \E s \in Setup : Ledger!Record(s)
<1>1. PICK s \in Setup : job[p].setup = s
  BY JobSetup DEF SetupInv, Mark
<1>. DEFINE n == job[p].step
<1>2. /\ pc[p] = "mark" /\ intents' = [intents EXCEPT ![s] = IF n = @ + 1 THEN n ELSE @]
      /\ UNCHANGED <<lanes, leases, profiles, binary>>
  BY <1>1 DEF Mark, targets
<1>3. n \in 1..6 /\ intents[s] # None /\ intents[s] \in 0..6
  BY <1>1, <1>2, JobSetup, EarlierSteps DEF SetupInv
<1>4. Done(s, n)
  BY <1>1, <1>2 DEF SetupInv, DoneBeforeMark
<1>5. CASE n # intents[s] + 1
  BY <1>2, <1>5 DEF SetupInv, TypeOK
<1>6. CASE n = intents[s] + 1
  <2>1. intents[s] < 6 /\ intents' = [intents EXCEPT ![s] = @ + 1]
    BY <1>2, <1>3, <1>6
  <2>2. Ledger!Behind(s, n)
    BY <1>4, LedgerFacts DEF Done, Ledger!Behind
  <2>. QED BY <1>2, <1>3, <1>6, <2>1, <2>2 DEF Ledger!Record
<1>. QED BY <1>5, <1>6

\* Every step of a setup writes to the ledger, or nothing that it tells of.
LEMMA LedgerStep ==
  ASSUME SetupInv, [Next]_vars
  PROVE  Ledger!Next \/ UNCHANGED <<intents, lanes, leases, profiles, binary>>
<1>1. ASSUME NEW p \in Proc, NEW s \in Setup, Begin(p, s)
      PROVE  Ledger!Next \/ UNCHANGED <<intents, lanes, leases, profiles, binary>>
  <2>1. /\ intents' = [intents EXCEPT ![s] = IF @ = None THEN 0 ELSE @]
        /\ UNCHANGED <<lanes, leases, profiles, binary>>
    BY <1>1 DEF Begin, targets
  <2>2. CASE intents[s] = None
    BY <2>1, <2>2 DEF Ledger!Open, Ledger!Next
  <2>3. CASE intents[s] # None
    BY <2>1, <2>3 DEF SetupInv, TypeOK
  <2>. QED BY <2>2, <2>3
<1>2. ASSUME NEW p \in Proc, CreateLane(p)
      PROVE  Ledger!Next \/ UNCHANGED <<intents, lanes, leases, profiles, binary>>
  BY <1>2, CreateLedger DEF Ledger!Next, CreateLane, targets
<1>3. ASSUME NEW p \in Proc, Activate(p) PROVE Ledger!Next
  <2>1. PICK s \in Setup : job[p].setup = s
    BY <1>3, JobSetup DEF SetupInv, Activate
  <2>2. /\ lanes[s.lane] = Ledger!Manifest(s, "creating")
        /\ lanes' = [lanes EXCEPT ![s.lane] = Ledger!Manifest(s, "active")]
        /\ UNCHANGED <<intents, leases, profiles, binary>>
    BY <1>3, <2>1, LedgerFacts DEF SetupInv, Creating, Activate, targets
  <2>. QED BY <2>2 DEF Ledger!Activate, Ledger!Next
<1>4. ASSUME NEW p \in Proc, Claim(p) PROVE Ledger!Next
  BY <1>4, ClaimLedger DEF Ledger!Next
<1>5. ASSUME NEW p \in Proc, WriteProfile(p)
      PROVE  Ledger!Next \/ UNCHANGED <<intents, lanes, leases, profiles, binary>>
  BY <1>5, ProfileLedger DEF Ledger!Next, WriteProfile, targets
<1>6. ASSUME NEW p \in Proc, InstallBinary(p)
      PROVE  Ledger!Next \/ UNCHANGED <<intents, lanes, leases, profiles, binary>>
  BY <1>6, BinaryLedger DEF Ledger!Next, InstallBinary, records
<1>7. ASSUME NEW p \in Proc, Mark(p)
      PROVE  Ledger!Next \/ UNCHANGED <<intents, lanes, leases, profiles, binary>>
  BY <1>7, MarkLedger DEF Ledger!Next, Mark, targets
<1>8. ASSUME NEW p \in Proc,
             Worktree(p) \/ EnsureLane(p) \/ CreateRef(p) \/ InstallSkill(p) \/ Ending(p)
      PROVE  UNCHANGED <<intents, lanes, leases, profiles, binary>>
  BY <1>8 DEF Worktree, EnsureLane, CreateRef, InstallSkill, Ending, records, targets
<1>9. CASE Outside
  <2>1. ASSUME NEW l \in Lane, Release(l) PROVE Ledger!Next
    BY <2>1 DEF Release, targets, Ledger!Close, Ledger!Next
  <2>2. CASE PutBinary
    BY <2>2 DEF PutBinary, records, Ledger!Install, Ledger!Next
  <2>3. CASE (\E t \in Tree : MoveHead(t)) \/ (\E r \in Agent \X Lane : MoveRef(r))
    BY <2>3 DEF MoveHead, MoveRef, records
  <2>. QED BY <1>9, <2>1, <2>2, <2>3 DEF Outside
<1>10. CASE UNCHANGED vars
  BY <1>10 DEF vars, records, targets
<1>. QED BY <1>1, <1>2, <1>3, <1>4, <1>5, <1>6, <1>7, <1>8, <1>9, <1>10, StepCases DEF Running

\* `wip init` implements SetupLedger: its interleaved, stopped and repeated runs
\* make one history of records and recorded steps.
THEOREM ImplementsLedger == Spec => LedgerSpec
<1>1. Init => Ledger!Init
  BY DEF Init, Ledger!Init
<1>2. SetupInv /\ [Next]_vars => [Ledger!Next]_<<intents, lanes, leases, profiles, binary>>
  BY LedgerStep
<1>. QED BY <1>1, <1>2, SetupInvariant, PTL DEF Spec, LedgerSpec, Ledger!Spec
=============================================================================
