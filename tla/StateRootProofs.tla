--------------------------- MODULE StateRootProofs ---------------------------
(***************************************************************************)
(* StateRoot for any number of processes, releases, bodies and losses of   *)
(* power.  RecordInv is preserved by every step of RecordFile and RootInv   *)
(* by every step of StateRoot; the refinement of DomainOwner follows.      *)
(***************************************************************************)
EXTENDS StateRoot, TLAPS

USE DEF Body

-----------------------------------------------------------------------------
(* The record. *)

LEMMA RecordInvInit ==
  ASSUME RecordInit, None \notin Proc
  PROVE  RecordInv
<1> USE RecordAssumption DEF RecordInit
<1>1. RecordTypeOK
  BY DEF RecordTypeOK, Steps
<1>2. BodiesInOrder /\ EntryShape
  BY DEF BodiesInOrder, EntryShape
<1>3. FileShape
  BY DEF FileShape, ReadSteps
<1> QED
  BY <1>1, <1>2, <1>3 DEF RecordInv

\* What the name shows is complete.
LEMMA EntryIsWhole ==
  ASSUME RecordInv, entry # 0
  PROVE  entry \in Body /\ entry \in synced /\ content[entry] = "whole"
BY RecordAssumption DEF RecordInv, RecordTypeOK, BodiesInOrder, EntryShape

\* A new body is newer than the record.
LEMMA NewBodyStep ==
  ASSUME RecordInv, NEW p \in Proc, NewBody(p)
  PROVE  \E b \in Body :
           /\ content[b] = "none" /\ entry < b
           /\ content' = [content EXCEPT ![b] = "partial"]
           /\ file' = [file EXCEPT ![p] = b]
           /\ \A c \in Body : c < b => content[c] # "none"
<1>1. PICK b \in Body :
        /\ content[b] = "none" /\ \A c \in Body : c < b => content[c] # "none"
        /\ content' = [content EXCEPT ![b] = "partial"]
        /\ file' = [file EXCEPT ![p] = b]
  BY DEF NewBody
<1>2. entry < b
  <2>1. CASE entry = 0
    BY <2>1
  <2>2. CASE entry # 0
    BY <1>1, <2>2, EntryIsWhole, RecordAssumption DEF RecordInv, BodiesInOrder
  <2> QED
    BY <2>1, <2>2
<1> QED
  BY <1>1, <1>2

\* A writer that begins.
LEMMA BeginStep ==
  ASSUME RecordInv, NEW p \in Proc, None \notin Proc, BeginCreate(p) \/ BeginReplace(p)
  PROVE  RecordInv'
<1> USE RecordAssumption
<1>1. PICK b \in Body :
        /\ content[b] = "none" /\ entry < b
        /\ content' = [content EXCEPT ![b] = "partial"]
        /\ file' = [file EXCEPT ![p] = b]
        /\ \A c \in Body : c < b => content[c] # "none"
  BY NewBodyStep DEF BeginCreate, BeginReplace
<1>2. /\ UNCHANGED <<entry, onDisk, synced, acked>>
      /\ step[p] = "none" /\ step' = [step EXCEPT ![p] = "writing"]
      /\ recordLock' = recordLock \/ (recordLock' = p /\ recordLock = None /\ entry # 0)
  BY DEF BeginCreate, BeginReplace, Moves_
<1>3. RecordTypeOK'
  BY <1>1, <1>2 DEF RecordInv, RecordTypeOK, Steps, WriteSteps
<1>4. BodiesInOrder'
  BY <1>1, <1>2 DEF RecordInv, RecordTypeOK, BodiesInOrder
<1>5. EntryShape'
  BY <1>2 DEF RecordInv, EntryShape
<1>6. FileShape'
  BY <1>1, <1>2 DEF RecordInv, RecordTypeOK, FileShape, WriteSteps, ReadSteps
<1> QED
  BY <1>3, <1>4, <1>5, <1>6 DEF RecordInv

\* The body is written and synced.
LEMMA FillStep ==
  ASSUME RecordInv, NEW p \in Proc, WriteBody(p) \/ SyncBody(p)
  PROVE  RecordInv'
<1> USE RecordAssumption
<1>1. CASE WriteBody(p)
  <2>1. RecordTypeOK' /\ BodiesInOrder' /\ EntryShape'
    BY <1>1 DEF WriteBody, Moves_, RecordInv, RecordTypeOK, BodiesInOrder, EntryShape, FileShape, Steps, WriteSteps
  <2>2. FileShape'
    BY <1>1 DEF WriteBody, Moves_, RecordInv, RecordTypeOK, FileShape, WriteSteps, ReadSteps
  <2> QED
    BY <2>1, <2>2 DEF RecordInv
<1>2. CASE SyncBody(p)
  <2>1. content[file[p]] = "whole"
    BY <1>2 DEF SyncBody, Moves_, RecordInv, FileShape
  <2>2. RecordTypeOK' /\ BodiesInOrder' /\ EntryShape'
    BY <1>2, <2>1 DEF SyncBody, Moves_, RecordInv, RecordTypeOK, BodiesInOrder, EntryShape, FileShape, Steps, WriteSteps
  <2>3. FileShape'
    BY <1>2 DEF SyncBody, Moves_, RecordInv, RecordTypeOK, FileShape, WriteSteps, ReadSteps
  <2> QED
    BY <2>2, <2>3 DEF RecordInv
<1> QED
  BY <1>1, <1>2

\* The body gets its name, or the creator finds the name taken.
LEMMA PublishStep ==
  ASSUME RecordInv, NEW p \in Proc, Publish(p) \/ LinkRefused(p)
  PROVE  RecordInv'
<1> USE RecordAssumption
<1>1. CASE Publish(p)
  <2>1. /\ file[p] \in Body /\ file[p] \in synced /\ entry < file[p]
    BY <1>1 DEF Publish, Moves_, RecordInv, RecordTypeOK, FileShape
  <2>2. RecordTypeOK' /\ BodiesInOrder'
    BY <1>1 DEF Publish, Moves_, RecordInv, RecordTypeOK, BodiesInOrder, Steps, WriteSteps
  <2>3. EntryShape'
    BY <1>1, <2>1 DEF Publish, RecordInv, RecordTypeOK, EntryShape
  <2>4. FileShape'
    BY <1>1, <2>1 DEF Publish, Moves_, RecordInv, RecordTypeOK, FileShape, WriteSteps, ReadSteps
  <2> QED
    BY <2>2, <2>3, <2>4 DEF RecordInv
<1>2. CASE LinkRefused(p)
  BY <1>2 DEF LinkRefused, Moves_, fileVars, RecordInv, RecordTypeOK, BodiesInOrder, EntryShape,
              FileShape, Steps, WriteSteps, ReadSteps
<1> QED
  BY <1>1, <1>2

\* The directory is synced and the writer answered.
LEMMA SettleStep ==
  ASSUME RecordInv, NEW p \in Proc, None \notin Proc, SyncEntry(p)
  PROVE  RecordInv'
<1> USE RecordAssumption
<1>1. acked' <= entry /\ acked' \in 0..MaxBodies
  BY DEF SyncEntry, Answer, Moves_, RecordInv, RecordTypeOK, EntryShape, FileShape
<1>2. RecordTypeOK' /\ BodiesInOrder' /\ EntryShape'
  BY <1>1 DEF SyncEntry, Answer, Moves_, RecordInv, RecordTypeOK, BodiesInOrder, EntryShape, Steps
<1>3. FileShape'
  BY DEF SyncEntry, Answer, Moves_, RecordInv, RecordTypeOK, FileShape, WriteSteps, ReadSteps
<1> QED
  BY <1>2, <1>3 DEF RecordInv

\* A reader changes nothing but its own place.
LEMMA ReadStep ==
  ASSUME RecordInv, NEW p \in Proc, OpenRecord(p) \/ Compare(p) \/ ReadBody(p) \/ EndRead(p)
  PROVE  RecordInv'
<1> USE RecordAssumption
<1>1. UNCHANGED <<entry, onDisk, content, synced, acked, recordLock>>
  BY DEF OpenRecord, Compare, ReadBody, EndRead, fileVars
<1>2. RecordTypeOK' /\ BodiesInOrder' /\ EntryShape'
  <2>1. BodiesInOrder' /\ EntryShape'
    BY <1>1 DEF RecordInv, BodiesInOrder, EntryShape
  <2>2. step' \in [Proc -> Steps]
    BY DEF OpenRecord, Compare, ReadBody, EndRead, Moves_, RecordInv, RecordTypeOK, Steps, ReadSteps
  <2>3. file' \in [Proc -> 0..MaxBodies]
    BY DEF OpenRecord, Compare, ReadBody, EndRead, RecordInv, RecordTypeOK
  <2> QED
    BY <1>1, <2>1, <2>2, <2>3 DEF RecordInv, RecordTypeOK
<1>3. CASE OpenRecord(p)
  <2>1. FileShape'
    BY <1>1, <1>3, EntryIsWhole DEF OpenRecord, Moves_, RecordInv, RecordTypeOK, FileShape, WriteSteps, ReadSteps
  <2> QED
    BY <1>2, <2>1 DEF RecordInv
<1>4. CASE Compare(p) \/ ReadBody(p) \/ EndRead(p)
  <2>1. FileShape'
    BY <1>1, <1>4 DEF Compare, ReadBody, EndRead, Moves_, RecordInv, RecordTypeOK, FileShape, WriteSteps, ReadSteps
  <2> QED
    BY <1>2, <2>1 DEF RecordInv
<1> QED
  BY <1>3, <1>4

LEMMA RecordInvStep ==
  ASSUME RecordInv, NEW p \in Proc, None \notin Proc, RecordStep(p)
  PROVE  RecordInv'
BY BeginStep, FillStep, PublishStep, SettleStep, ReadStep DEF RecordStep

\* A process dies, or all do and the power fails.
LEMMA RecordInvFaults ==
  ASSUME RecordInv, None \notin Proc,
         (\E p \in Proc : RecordDeath(p)) \/ RecordAfterPowerLoss \/ RecordLost
  PROVE  RecordInv'
<1> USE RecordAssumption
<1>1. ASSUME NEW p \in Proc, RecordDeath(p) PROVE RecordInv'
  BY <1>1 DEF RecordDeath, fileVars, RecordInv, RecordTypeOK, BodiesInOrder, EntryShape,
              FileShape, Steps, WriteSteps, ReadSteps
<1>2. CASE RecordAfterPowerLoss
  <2>1. RecordTypeOK' /\ BodiesInOrder' /\ EntryShape'
    BY <1>2 DEF RecordAfterPowerLoss, EverybodyStops, RecordInv, RecordTypeOK, BodiesInOrder, EntryShape, Steps
  <2>2. FileShape'
    BY <1>2 DEF RecordAfterPowerLoss, EverybodyStops, FileShape, ReadSteps
  <2> QED
    BY <2>1, <2>2 DEF RecordInv
<1>3. CASE RecordLost
  BY <1>3 DEF RecordLost, EverybodyStops, RecordInv, RecordTypeOK, BodiesInOrder, EntryShape,
              FileShape, Steps, ReadSteps
<1> QED
  BY <1>1, <1>2, <1>3
-----------------------------------------------------------------------------
(* The bootstrap. *)

\* The types of the variables that StateRoot adds.
RootTypes ==
  /\ present \subseteq Directory
  /\ marker \in Version \cup {None}
  /\ unsynced \subseteq Name
  /\ lock \in Proc \cup {None}
  /\ pc \in [Proc -> Points]
  /\ runs \in [Proc -> Owner \cup {None}]
  /\ creates \subseteq Proc
  /\ losses \in 0..MaxLosses

DomainInv == RootTypes /\ OneDomain /\ Tree /\ BootstrapShape /\ Entitled

LEMMA RootInvParts == RootInv <=> RecordInv /\ DomainInv
BY DEF RootInv, DomainInv, RootTypes, RootTypeOK, RecordInv

\* The names and owners are distinct.
LEMMA RootFacts ==
  /\ MaxLosses \in Nat
  /\ None \notin Proc /\ None \notin Version /\ None # Legacy /\ Legacy \notin Version
  /\ "ndev-wip" \notin Version /\ "wip" \notin Version /\ "records" \notin Version /\ "marker" \notin Version
BY RootAssumption DEF Owner

LEMMA RecordUntouched ==
  ASSUME RecordInv, UNCHANGED recordVars
  PROVE  RecordInv'
BY DEF recordVars, RecordInv, RecordTypeOK, BodiesInOrder, EntryShape, FileShape

LEMMA RootInvInit == Init => RootInv
<1> SUFFICES ASSUME Init PROVE RecordInv /\ DomainInv
  BY RootInvParts
<1>1. RecordInv
  BY RecordInvInit, RootFacts DEF Init
<1>2. RootTypes
  BY RootFacts DEF Init, RootTypes, Points
<1>3. OneDomain /\ Tree /\ BootstrapShape /\ Entitled
  BY RootFacts DEF Init, OneDomain, Tree, BootstrapShape, Entitled, UnderLock
<1> QED
  BY <1>1, <1>2, <1>3 DEF DomainInv

\* A command starts, inspects, or waits for and takes the coordination lock.
LEMMA ApproachStep ==
  ASSUME DomainInv, NEW p \in Proc,
         \/ \E o \in Owner : StartCreate(p, o)
         \/ \E v \in Version : StartOther(p, v)
         \/ InspectDirectories(p) \/ InspectMarker(p) \/ Acquire(p)
  PROVE  DomainInv'
<1> USE RootFacts
<1>1. ASSUME NEW o \in Owner, StartCreate(p, o) PROVE DomainInv'
  BY <1>1 DEF StartCreate, Goes, fsVars, DomainInv, RootTypes, OneDomain, Tree, BootstrapShape,
              Entitled, UnderLock, Points, Owner, Foreign
<1>2. ASSUME NEW v \in Version, StartOther(p, v) PROVE DomainInv'
  BY <1>2 DEF StartOther, Goes, fsVars, DomainInv, RootTypes, OneDomain, Tree, BootstrapShape,
              Entitled, UnderLock, Points, Owner, Foreign
<1>3. CASE InspectDirectories(p)
  BY <1>3 DEF InspectDirectories, Goes, fsVars, workVars, DomainInv, RootTypes, OneDomain, Tree,
              BootstrapShape, Entitled, UnderLock, Points, Foreign
<1>4. CASE InspectMarker(p)
  <2>1. RootTypes' /\ OneDomain' /\ Tree'
    BY <1>4 DEF InspectMarker, Goes, fsVars, workVars, DomainInv, RootTypes, OneDomain, Tree, Points
  <2>2. BootstrapShape'
    BY <1>4 DEF InspectMarker, Goes, fsVars, workVars, DomainInv, RootTypes, BootstrapShape, UnderLock, Foreign
  <2>3. runs[p] # Legacy
    BY <1>4 DEF InspectMarker, Goes, DomainInv, BootstrapShape
  <2>4. Entitled'
    BY <1>4, <2>3 DEF InspectMarker, Goes, fsVars, workVars, DomainInv, RootTypes, Entitled
  <2> QED
    BY <2>1, <2>2, <2>4 DEF DomainInv
<1>5. CASE Acquire(p)
  BY <1>5 DEF Acquire, Goes, fsVars, workVars, DomainInv, RootTypes, OneDomain, Tree,
              BootstrapShape, Entitled, UnderLock, Points, Foreign
<1> QED
  BY <1>1, <1>2, <1>3, <1>4, <1>5

\* Under the coordination lock: the directories.
LEMMA DirectoryStep ==
  ASSUME DomainInv, NEW p \in Proc,
         EnsureRoot(p) \/ LegacyRoot(p) \/ LegacyOpen(p) \/ Scan(p) \/ MakeVersion(p)
  PROVE  DomainInv'
<1> USE RootFacts
<1>1. CASE EnsureRoot(p)
  <2>1. RootTypes'
    BY <1>1 DEF EnsureRoot, Goes, workVars, DomainInv, RootTypes, Directory, Name, Points
  <2>2. OneDomain' /\ Tree' /\ Entitled'
    BY <1>1 DEF EnsureRoot, Goes, workVars, DomainInv, RootTypes, OneDomain, Tree, Entitled
  <2>3. BootstrapShape'
    BY <1>1 DEF EnsureRoot, Goes, workVars, DomainInv, RootTypes, BootstrapShape, UnderLock, Foreign
  <2> QED
    BY <2>1, <2>2, <2>3 DEF DomainInv
<1>2. CASE LegacyRoot(p)
  <2>1. RootTypes'
    BY <1>2 DEF LegacyRoot, Goes, workVars, DomainInv, RootTypes, Directory, Name, Points
  <2>2. OneDomain' /\ Tree' /\ Entitled'
    BY <1>2 DEF LegacyRoot, Goes, workVars, DomainInv, RootTypes, OneDomain, Tree, Entitled
  <2>3. BootstrapShape'
    BY <1>2 DEF LegacyRoot, Goes, workVars, DomainInv, RootTypes, BootstrapShape, UnderLock, Foreign
  <2> QED
    BY <2>1, <2>2, <2>3 DEF DomainInv
<1>3. CASE LegacyOpen(p)
  BY <1>3 DEF LegacyOpen, Goes, workVars, fsVars, DomainInv, RootTypes, OneDomain, Tree,
              BootstrapShape, Entitled, UnderLock, Points, Foreign
<1>4. CASE Scan(p)
  BY <1>4 DEF Scan, Goes, workVars, fsVars, DomainInv, RootTypes, OneDomain, Tree,
              BootstrapShape, Entitled, UnderLock, Points, Foreign
<1>5. CASE MakeVersion(p)
  <2>1. /\ runs[p] \in Version /\ marker = runs[p] /\ "wip" \in present /\ ~Foreign(p) /\ lock = p
    BY <1>5 DEF MakeVersion, Goes, DomainInv, BootstrapShape, UnderLock
  <2>2. RootTypes'
    BY <1>5, <2>1 DEF MakeVersion, Goes, workVars, DomainInv, RootTypes, Directory, Name, Points
  <2>3. OneDomain'
    BY <1>5, <2>1 DEF MakeVersion, Goes, workVars, DomainInv, RootTypes, OneDomain, Foreign
  <2>4. Tree' /\ Entitled'
    BY <1>5, <2>1 DEF MakeVersion, Goes, workVars, DomainInv, RootTypes, Tree, Entitled
  <2>5. BootstrapShape'
    BY <1>5, <2>1 DEF MakeVersion, Goes, workVars, DomainInv, RootTypes, BootstrapShape, UnderLock, Foreign
  <2> QED
    BY <2>2, <2>3, <2>4, <2>5 DEF DomainInv
<1> QED
  BY <1>1, <1>2, <1>3, <1>4, <1>5

\* Under the coordination lock: the marker.
LEMMA MarkerStep ==
  ASSUME DomainInv, NEW p \in Proc, ReadMarker(p) \/ LinkMarker(p) \/ SyncMarker(p)
  PROVE  DomainInv'
<1> USE RootFacts
<1>1. CASE ReadMarker(p)
  BY <1>1 DEF ReadMarker, Goes, workVars, fsVars, DomainInv, RootTypes, OneDomain, Tree,
              BootstrapShape, Entitled, UnderLock, Points, Foreign
<1>2. CASE LinkMarker(p)
  <2>1. /\ runs[p] \in Version /\ "wip" \in present /\ ~Foreign(p) /\ lock = p
    BY <1>2 DEF LinkMarker, Goes, DomainInv, BootstrapShape, UnderLock
  <2>2. RootTypes'
    BY <1>2, <2>1 DEF LinkMarker, Goes, workVars, DomainInv, RootTypes, Name, Points
  <2>3. OneDomain'
    <3>1. marker = None /\ marker' = runs[p] /\ UNCHANGED <<present, runs>>
      BY <1>2 DEF LinkMarker, workVars
    <3>2. \A q \in Proc : pc'[q] = "open" => pc[q] = "open" /\ runs[q] \in Owner
      BY <1>2 DEF LinkMarker, Goes, DomainInv, RootTypes, BootstrapShape
    <3> QED
      BY <2>1, <3>1, <3>2 DEF DomainInv, OneDomain, Foreign, Owner
  <2>4. Tree' /\ Entitled'
    BY <1>2, <2>1 DEF LinkMarker, Goes, workVars, DomainInv, RootTypes, Tree, Entitled
  <2>5. BootstrapShape'
    BY <1>2, <2>1 DEF LinkMarker, Goes, workVars, DomainInv, RootTypes, BootstrapShape, UnderLock, Foreign
  <2> QED
    BY <2>2, <2>3, <2>4, <2>5 DEF DomainInv
<1>3. CASE SyncMarker(p)
  BY <1>3 DEF SyncMarker, Goes, workVars, DomainInv, RootTypes, OneDomain, Tree,
              BootstrapShape, Entitled, UnderLock, Points, Foreign
<1> QED
  BY <1>1, <1>2, <1>3

\* A command ends.
LEMMA EndStep ==
  ASSUME DomainInv, NEW p \in Proc, End(p), UNCHANGED <<fsVars, losses>>
  PROVE  DomainInv'
BY RootFacts DEF End, fsVars, DomainInv, RootTypes, OneDomain, Tree, BootstrapShape, Entitled,
                 UnderLock, Points, Foreign

\* The power fails: what is left of the names is still one domain.
LEMMA PowerLossStep ==
  ASSUME DomainInv, PowerLoss
  PROVE  DomainInv'
<1> USE RootFacts
<1>1. PICK lost \in SUBSET unsynced :
        /\ present' = present \ Gone(lost)
        /\ marker' = IF "marker" \in Gone(lost) THEN None ELSE marker
  BY DEF PowerLoss
<1>2. /\ pc' = [p \in Proc |-> "idle"] /\ runs' = [p \in Proc |-> None]
      /\ lock' = None /\ creates' = {} /\ unsynced' = {} /\ losses' = losses + 1 /\ losses < MaxLosses
  BY DEF PowerLoss
<1>3. RootTypes'
  BY <1>1, <1>2 DEF DomainInv, RootTypes, Points
<1>4. OneDomain'
  BY <1>1, <1>2 DEF DomainInv, RootTypes, OneDomain
<1>5. Tree'
  BY <1>1 DEF DomainInv, Tree, Gone
<1>6. BootstrapShape' /\ Entitled'
  BY <1>2 DEF BootstrapShape, Entitled, UnderLock
<1> QED
  BY <1>3, <1>4, <1>5, <1>6 DEF DomainInv

LEMMA RootInvStep == RootInv /\ [Next]_vars => RootInv'
<1> SUFFICES ASSUME RecordInv, DomainInv, [Next]_vars PROVE RecordInv' /\ DomainInv'
  BY RootInvParts DEF RootInv, DomainInv, RootTypes, RootTypeOK, RecordInv
<1> USE RootFacts
<1>1. ASSUME NEW p \in Proc,
             \/ \E o \in Owner : StartCreate(p, o)
             \/ \E v \in Version : StartOther(p, v)
             \/ Bootstrap(p)
      PROVE  RecordInv' /\ DomainInv'
  <2>1. UNCHANGED recordVars
    BY <1>1 DEF Bootstrap, StartCreate, StartOther, InspectDirectories, InspectMarker, Acquire, EnsureRoot,
                LegacyRoot, LegacyOpen, Scan, ReadMarker, LinkMarker, SyncMarker, MakeVersion, workVars
  <2>2. DomainInv'
    BY <1>1, ApproachStep, DirectoryStep, MarkerStep DEF Bootstrap
  <2> QED
    BY <2>1, <2>2, RecordUntouched
<1>2. ASSUME NEW p \in Proc, Use(p) PROVE RecordInv' /\ DomainInv'
  <2>1. RecordInv'
    BY <1>2, RecordInvStep DEF Use
  <2>2. UNCHANGED rootVars
    BY <1>2 DEF Use
  <2>3. DomainInv'
    BY <2>2 DEF rootVars, DomainInv, RootTypes, OneDomain, Tree, BootstrapShape, Entitled, Foreign
  <2> QED
    BY <2>1, <2>3
<1>3. ASSUME NEW p \in Proc, Stops(p) PROVE RecordInv' /\ DomainInv'
  BY <1>3, EndStep, RecordUntouched DEF Stops
<1>4. ASSUME NEW p \in Proc, Die(p) PROVE RecordInv' /\ DomainInv'
  BY <1>4, EndStep, RecordInvFaults DEF Die
<1>5. CASE PowerLoss
  <2>1. RecordAfterPowerLoss \/ RecordLost
    BY <1>5 DEF PowerLoss
  <2> QED
    BY <1>5, <2>1, PowerLossStep, RecordInvFaults
<1>6. CASE UNCHANGED vars
  <2>1. UNCHANGED recordVars /\ UNCHANGED rootVars
    BY <1>6 DEF vars
  <2>2. DomainInv'
    BY <2>1 DEF rootVars, DomainInv, RootTypes, OneDomain, Tree, BootstrapShape, Entitled, Foreign
  <2> QED
    BY <2>1, <2>2, RecordUntouched
<1> QED
  BY <1>1, <1>2, <1>3, <1>4, <1>5, <1>6 DEF Next, Command

\* RootInv is an invariant.
THEOREM RootInvariant == Spec => []RootInv
BY RootInvInit, RootInvStep, PTL DEF Spec

\* Type correctness of the state root and its record.
THEOREM RootTypeCorrect == Spec => []RootTypeOK
<1>1. RootInv => RootTypeOK
  BY DEF RootInv
<1> QED
  BY <1>1, RootInvariant, PTL

\* One coordination domain, for any number of racing commands, releases,
\* deaths and losses of power.
THEOREM DomainIsOne == Spec => []OneDomain
<1>1. RootInv => OneDomain
  BY DEF RootInv
<1> QED
  BY <1>1, RootInvariant, PTL

\* No reader ever meets a partial record.
THEOREM RecordsAreWhole == Spec => []NothingTorn
<1>1. RootInv => NothingTorn
  <2> SUFFICES ASSUME RootInv PROVE NothingTorn
    OBVIOUS
  <2>1. RecordInv
    BY DEF RootInv
  <2> QED
    BY <2>1, EntryIsWhole DEF NothingTorn, RecordInv, FileShape
<1> QED
  BY <1>1, RootInvariant, PTL

\* What a writer was told is durable stays.
THEOREM AcknowledgedStays == Spec => []AckedKept
<1>1. RootInv => AckedKept
  BY DEF RootInv, RecordInv, EntryShape, AckedKept
<1> QED
  BY <1>1, RootInvariant, PTL
-----------------------------------------------------------------------------
(* The refinement of DomainOwner. *)

Using == [p \in Proc |-> IF pc[p] = "open" THEN runs[p] ELSE None]

\* TheOwner without its CHOOSE.
LEMMA OwnerFacts ==
  ASSUME DomainInv
  PROVE  /\ "ndev-wip" \in present => TheOwner = Legacy
         /\ "ndev-wip" \notin present /\ marker # None => TheOwner = marker
         /\ "ndev-wip" \notin present /\ marker = None =>
              /\ \A v \in Version \cap present : TheOwner = v
              /\ Version \cap present = {} => TheOwner = None
BY DEF TheOwner, DomainInv, OneDomain

\* The same of the next state.
LEMMA OwnerFactsNext ==
  ASSUME DomainInv'
  PROVE  /\ "ndev-wip" \in present' => TheOwner' = Legacy
         /\ "ndev-wip" \notin present' /\ marker' # None => TheOwner' = marker'
         /\ "ndev-wip" \notin present' /\ marker' = None =>
              /\ \A v \in Version \cap present' : TheOwner' = v
              /\ Version \cap present' = {} => TheOwner' = None
BY DEF TheOwner, DomainInv, OneDomain

\* With the same names there is the same owner.
LEMMA OwnerKept ==
  ASSUME UNCHANGED <<present, marker>>
  PROVE  UNCHANGED TheOwner
BY DEF TheOwner

\* A step of a command that neither opens nor ends nor makes a name.
LEMMA QuietStep ==
  ASSUME DomainInv, NEW p \in Proc,
         \/ \E v \in Version : StartOther(p, v)
         \/ InspectDirectories(p) \/ InspectMarker(p) \/ Acquire(p)
         \/ Scan(p) \/ ReadMarker(p) \/ SyncMarker(p)
  PROVE  UNCHANGED <<TheOwner, creates, Using>>
<1>1. UNCHANGED <<present, marker, creates>>
  BY DEF StartOther, InspectDirectories, InspectMarker, Acquire, Scan, ReadMarker, SyncMarker, workVars, fsVars
<1>2. \A q \in Proc : pc'[q] = "open" <=> pc[q] = "open"
  BY DEF StartOther, InspectDirectories, InspectMarker, Acquire, Scan, ReadMarker, SyncMarker, Goes, DomainInv, RootTypes
<1>3. \A q \in Proc : pc[q] = "open" => runs'[q] = runs[q]
  BY DEF StartOther, InspectDirectories, InspectMarker, Acquire, Scan, ReadMarker, SyncMarker, Goes, workVars, DomainInv, RootTypes
<1> QED
  BY <1>1, <1>2, <1>3, OwnerKept DEF Using

\* Names are made: nothing becomes owned, or a creation claims it.
LEMMA ClaimStep ==
  ASSUME DomainInv, DomainInv', NEW p \in Proc, EnsureRoot(p) \/ LegacyRoot(p) \/ LinkMarker(p)
  PROVE  /\ UNCHANGED <<creates, Using>>
         /\ \/ UNCHANGED TheOwner
            \/ TheOwner = None /\ creates # {} /\ TheOwner' \in Owner
<1> USE RootFacts, OwnerFacts, OwnerFactsNext
<1>1. UNCHANGED <<creates, Using>>
  <2>1. UNCHANGED <<creates, runs>>
    BY DEF EnsureRoot, LegacyRoot, LinkMarker, workVars
  <2>2. \A q \in Proc : pc'[q] = "open" <=> pc[q] = "open"
    BY DEF EnsureRoot, LegacyRoot, LinkMarker, Goes, DomainInv, RootTypes
  <2> QED
    BY <2>1, <2>2 DEF Using
<1>2. CASE EnsureRoot(p)
  <2>1. /\ marker' = marker /\ Version \cap present' = Version \cap present
        /\ "ndev-wip" \in present' <=> "ndev-wip" \in present
    BY <1>2 DEF EnsureRoot
  <2>2. UNCHANGED TheOwner
    BY <2>1 DEF TheOwner
  <2> QED
    BY <1>1, <2>2
<1>3. CASE LegacyRoot(p)
  <2>1. /\ TheOwner' = Legacy /\ marker = None /\ Version \cap present = {}
    BY <1>3 DEF LegacyRoot, DomainInv, Tree
  <2>2. TheOwner \in {Legacy, None}
    BY <2>1
  <2>3. p \in creates
    BY <1>3 DEF LegacyRoot, Goes, DomainInv, Entitled
  <2> QED
    BY <1>1, <2>1, <2>2, <2>3 DEF Owner
<1>4. CASE LinkMarker(p)
  <2>1. /\ runs[p] \in Version /\ ~Foreign(p) /\ "wip" \in present
    BY <1>4 DEF LinkMarker, Goes, DomainInv, BootstrapShape
  <2>2. "ndev-wip" \notin present /\ marker = None /\ marker' = runs[p] /\ present' = present
    BY <1>4, <2>1 DEF LinkMarker, DomainInv, OneDomain
  <2>3. TheOwner' = runs[p]
    BY <2>1, <2>2
  <2>4. CASE runs[p] \in present
    BY <1>1, <2>1, <2>2, <2>3, <2>4
  <2>5. CASE runs[p] \notin present
    <3>1. TheOwner = None
      BY <2>1, <2>2, <2>5 DEF Foreign
    <3>2. p \in creates
      BY <1>4, <2>1, <2>2, <2>5 DEF LinkMarker, Goes, DomainInv, Entitled
    <3> QED
      BY <1>1, <2>1, <2>3, <3>1, <3>2 DEF Owner
  <2> QED
    BY <2>4, <2>5
<1> QED
  BY <1>2, <1>3, <1>4

\* A command that opens the store works for the owner there is.
LEMMA EnterStep ==
  ASSUME DomainInv, DomainInv', NEW p \in Proc, MakeVersion(p) \/ LegacyOpen(p)
  PROVE  /\ UNCHANGED <<TheOwner, creates>> /\ TheOwner # None
         /\ Using' = [Using EXCEPT ![p] = TheOwner]
<1> USE RootFacts, OwnerFacts, OwnerFactsNext
<1>1. UNCHANGED <<marker, runs, creates>> /\ pc' = [pc EXCEPT ![p] = "open"]
  BY DEF MakeVersion, LegacyOpen, workVars, fsVars, Goes
<1>2. TheOwner = runs[p] /\ TheOwner' = runs[p] /\ runs[p] # None
  <2>1. CASE MakeVersion(p)
    <3>1. runs[p] \in Version /\ marker = runs[p] /\ "wip" \in present
      BY <2>1 DEF MakeVersion, Goes, DomainInv, BootstrapShape
    <3>2. "ndev-wip" \notin present /\ "ndev-wip" \notin present'
      BY <2>1, <3>1 DEF MakeVersion, DomainInv, OneDomain
    <3> QED
      BY <1>1, <3>1, <3>2
  <2>2. CASE LegacyOpen(p)
    BY <2>2 DEF LegacyOpen, Goes, fsVars, DomainInv, BootstrapShape
  <2> QED
    BY <2>1, <2>2
<1>3. Using' = [Using EXCEPT ![p] = TheOwner]
  BY <1>1, <1>2 DEF Using, DomainInv, RootTypes
<1> QED
  BY <1>1, <1>2, <1>3

\* A command that ends works for nobody.
LEMMA LeaveStep ==
  ASSUME DomainInv, NEW p \in Proc, End(p), UNCHANGED fsVars
  PROVE  /\ UNCHANGED TheOwner
         /\ creates' = creates \ {p}
         /\ Using' = [Using EXCEPT ![p] = None]
<1>1. \A q \in Proc : pc'[q] = (IF q = p THEN "idle" ELSE pc[q]) /\ (q # p => runs'[q] = runs[q])
  BY DEF End, DomainInv, RootTypes
<1>2. Using' = [Using EXCEPT ![p] = None]
  BY <1>1 DEF Using
<1> QED
  BY <1>2, OwnerKept DEF End, fsVars

\* A loss of power keeps the owner or leaves nothing of it.
LEMMA OwnerAfterPowerLoss ==
  ASSUME DomainInv, DomainInv', PowerLoss
  PROVE  /\ TheOwner' \in {TheOwner, None}
         /\ creates' = {} /\ Using' = [p \in Proc |-> None]
<1> USE RootFacts, OwnerFacts, OwnerFactsNext
<1>1. PICK lost \in SUBSET unsynced :
        /\ present' = present \ Gone(lost)
        /\ marker' = IF "marker" \in Gone(lost) THEN None ELSE marker
  BY DEF PowerLoss
<1>2. creates' = {} /\ Using' = [p \in Proc |-> None]
  BY DEF PowerLoss, Using
<1>3. CASE "ndev-wip" \in present
  <2>1. marker = None /\ Version \cap present = {}
    BY <1>3 DEF DomainInv, OneDomain, Tree
  <2> QED
    BY <1>1, <1>2, <1>3, <2>1
<1>4. CASE "ndev-wip" \notin present /\ marker # None
  <2>1. "ndev-wip" \notin present' /\ marker' \in {marker, None} /\ Version \cap present' \subseteq {marker}
    BY <1>1, <1>4 DEF DomainInv, OneDomain
  <2> QED
    BY <1>2, <1>4, <2>1
<1>5. CASE "ndev-wip" \notin present /\ marker = None
  <2>1. "ndev-wip" \notin present' /\ marker' = None /\ Version \cap present' \subseteq Version \cap present
    BY <1>1, <1>5
  <2> QED
    BY <1>2, <1>5, <2>1
<1> QED
  BY <1>3, <1>4, <1>5

\* Every step of StateRoot is a step of DomainOwner, or none.
LEMMA DomainStep ==
  ASSUME RootInv, RootInv', [Next]_vars
  PROVE  [Domain!Next]_<<TheOwner, creates, Using>>
<1>1. DomainInv /\ DomainInv'
  BY DEF RootInv, RootTypeOK, DomainInv, RootTypes
<1>2. ASSUME NEW p \in Proc,
             \/ \E v \in Version : StartOther(p, v)
             \/ InspectDirectories(p) \/ InspectMarker(p) \/ Acquire(p)
             \/ Scan(p) \/ ReadMarker(p) \/ SyncMarker(p)
      PROVE  UNCHANGED <<TheOwner, creates, Using>>
  BY <1>1, <1>2, QuietStep
<1>3. ASSUME NEW p \in Proc, NEW o \in Owner, StartCreate(p, o)
      PROVE  Domain!Begin(p)
  <2>1. \A q \in Proc : (IF pc'[q] = "open" THEN runs'[q] ELSE None)
                           = (IF pc[q] = "open" THEN runs[q] ELSE None)
    BY <1>1, <1>3 DEF StartCreate, Goes, DomainInv, RootTypes
  <2>2. UNCHANGED Using
    BY <2>1 DEF Using
  <2> QED
    BY <1>3, <2>2, OwnerKept DEF StartCreate, fsVars, Domain!Begin, Using
<1>4. ASSUME NEW p \in Proc, EnsureRoot(p) \/ LegacyRoot(p) \/ LinkMarker(p)
      PROVE  UNCHANGED <<TheOwner, creates, Using>> \/ \E o \in Owner : Domain!Claim(o)
  BY <1>1, <1>4, ClaimStep DEF Domain!Claim, Using
<1>5. ASSUME NEW p \in Proc, MakeVersion(p) \/ LegacyOpen(p)
      PROVE  Domain!Enter(p)
  BY <1>1, <1>5, EnterStep DEF Domain!Enter, Using
<1>6. ASSUME NEW p \in Proc, Stops(p) \/ Die(p)
      PROVE  Domain!Leave(p)
  BY <1>1, <1>6, LeaveStep DEF Stops, Die, Domain!Leave, Using
<1>7. ASSUME NEW p \in Proc, Use(p)
      PROVE  UNCHANGED <<TheOwner, creates, Using>>
  BY <1>7, OwnerKept DEF Use, rootVars, Using
<1>8. CASE PowerLoss
  BY <1>1, <1>8, OwnerAfterPowerLoss DEF Domain!PowerLoss, Domain!Next, Using
<1>9. CASE UNCHANGED vars
  BY <1>9, OwnerKept DEF vars, rootVars, Using
<1> QED
  BY <1>2, <1>3, <1>4, <1>5, <1>6, <1>7, <1>8, <1>9 DEF Next, Command, Bootstrap, Domain!Next

\* The bootstrap implements DomainOwner: only a creation claims, nothing is
\* handed over, and every command works for the owner there is.
THEOREM DomainImplemented == Spec => DomainSpec
<1>1. Init => Domain!Init
  BY RootFacts DEF Init, TheOwner, Domain!Init
<1>2. RootInv /\ RootInv' /\ [Next]_vars => [Domain!Next]_<<TheOwner, creates, Using>>
  BY DomainStep
<1>3. Using = [p \in Proc |-> IF pc[p] = "open" THEN runs[p] ELSE None]
  BY DEF Using
<1> QED
  BY <1>1, <1>2, RootInvariant, PTL DEF Spec, DomainSpec, Domain!Spec, Using
=============================================================================
