------------------------------ MODULE StateRoot ------------------------------
(***************************************************************************)
(* The bootstrap of the state directory, `wip` in the common directory of  *)
(* the repository (store.Open, store.Inspect, prepareStateRoot), and one   *)
(* record in it.  Commands of different releases start at any time, and so *)
(* does the legacy tool, which takes the same coordination lock; they die  *)
(* at any step; and the power fails.                                       *)
(*                                                                         *)
(* A loss of power keeps what a directory sync has put on disk and any     *)
(* part of the rest.  The code syncs the directory of a file it publishes, *)
(* never the parent of a directory it makes.  Names are only ever created, *)
(* so the file system is a set of names and the set of those not yet       *)
(* synced.                                                                 *)
(***************************************************************************)
EXTENDS RecordFile

CONSTANTS Version,   \* state versions, one per release
          Legacy,    \* the legacy tool
          MaxLosses  \* bound on the losses of power

Owner == Version \cup {Legacy}

\* The legacy state directory; ours; its version directories; the directory of
\* the record (the seven subdirectories of a version are made together); and
\* domain.json.
Directory == {"ndev-wip", "wip", "records"} \cup Version
Name == Directory \cup {"marker"}

ASSUME RootAssumption ==
  /\ MaxLosses \in Nat
  /\ Legacy \notin Version /\ None \notin Owner \cup Proc
  /\ {"ndev-wip", "wip", "records", "marker"} \cap Version = {}

VARIABLES present,   \* directories that exist
          marker,    \* state version in domain.json, or None
          unsynced,  \* names a loss of power may take
          lock,      \* holder of wip-coordination.lock
          pc,        \* where each process is
          runs,      \* the tool each process runs
          creates,   \* processes running a command that may claim the domain
          losses     \* losses of power so far

rootVars == <<present, marker, unsynced, lock, pc, runs, creates, losses>>
vars == <<recordVars, rootVars>>

fsVars == <<present, marker, unsynced>>
workVars == <<recordVars, runs, creates, losses>>

Points == {"idle", "look", "lookMarker", "acquire", "legacy", "scan", "marker", "link",
           "sync", "version", "legacyMade", "open"}
-----------------------------------------------------------------------------
Init ==
  /\ RecordInit
  /\ present = {} /\ marker = None /\ unsynced = {}
  /\ lock = None
  /\ pc = [p \in Proc |-> "idle"]
  /\ runs = [p \in Proc |-> None]
  /\ creates = {}
  /\ losses = 0

Goes(p, from, to) == pc[p] = from /\ pc' = [pc EXCEPT ![p] = to]

\* The command of p ends, with or without success.
End(p) ==
  /\ pc' = [pc EXCEPT ![p] = "idle"]
  /\ runs' = [runs EXCEPT ![p] = None]
  /\ creates' = creates \ {p}
  /\ lock' = IF lock = p THEN None ELSE lock

Foreign(p) == \E v \in Version \ {runs[p]} : v \in present

\* `wip init`, or creation with the legacy tool.
StartCreate(p, o) ==
  /\ Goes(p, "idle", "acquire")
  /\ runs' = [runs EXCEPT ![p] = o]
  /\ creates' = creates \cup {p}
  /\ UNCHANGED <<recordVars, fsVars, lock, losses>>

\* Every other command inspects the state first.
StartOther(p, v) ==
  /\ Goes(p, "idle", "look")
  /\ runs' = [runs EXCEPT ![p] = v]
  /\ UNCHANGED <<recordVars, fsVars, lock, creates, losses>>

\* store.Inspect, without a lock: the directories, then the marker.
InspectDirectories(p) ==
  /\ "ndev-wip" \notin present /\ ~Foreign(p)
  /\ Goes(p, "look", "lookMarker")
  /\ UNCHANGED <<workVars, fsVars, lock>>

\* Mutant: a command goes on where nothing is initialized.
InspectMarker_Any(p) ==
  /\ marker \in {runs[p], None}
  /\ Goes(p, "lookMarker", "acquire")
  /\ UNCHANGED <<workVars, fsVars, lock>>

\* An initialized state has a marker or its version directory.
InspectMarker(p) ==
  /\ marker \in {runs[p], None}
  /\ marker # None \/ runs[p] \in present
  /\ Goes(p, "lookMarker", "acquire")
  /\ UNCHANGED <<workVars, fsVars, lock>>

\* Every check of store.Inspect and store.Open may end the command, as may an
\* error or the end of its work; a command between two uses of the record may.
Stops(p) ==
  /\ pc[p] # "idle" /\ step[p] = "none"
  /\ End(p)
  /\ UNCHANGED <<recordVars, fsVars, losses>>
-----------------------------------------------------------------------------
(* store.Open *)

Acquire(p) ==
  /\ lock = None
  /\ Goes(p, "acquire", "legacy")
  /\ lock' = p
  /\ UNCHANGED <<workVars, fsVars>>

\* Mutant: the legacy directory is not looked for.
EnsureRoot_NoLegacyCheck(p) ==
  /\ runs[p] \in Version
  /\ Goes(p, "legacy", "scan")
  /\ present' = present \cup {"wip"}
  /\ unsynced' = unsynced \cup ({"wip"} \ present)
  /\ UNCHANGED <<workVars, marker, lock>>

EnsureRoot(p) ==
  /\ runs[p] \in Version /\ "ndev-wip" \notin present
  /\ Goes(p, "legacy", "scan")
  /\ present' = present \cup {"wip"}
  /\ unsynced' = unsynced \cup ({"wip"} \ present)
  /\ UNCHANGED <<workVars, marker, lock>>

\* The legacy tool takes the same lock and refuses the other domain.
LegacyRoot(p) ==
  /\ runs[p] = Legacy /\ "wip" \notin present
  /\ Goes(p, "legacy", "legacyMade")
  /\ present' = present \cup {"ndev-wip"}
  /\ unsynced' = unsynced \cup ({"ndev-wip"} \ present)
  /\ UNCHANGED <<workVars, marker, lock>>

LegacyOpen(p) ==
  /\ Goes(p, "legacyMade", "open")
  /\ lock' = None
  /\ UNCHANGED <<workVars, fsVars>>

\* Mutant: the version directories are not looked at.
Scan_Not(p) ==
  /\ Goes(p, "scan", "marker")
  /\ UNCHANGED <<workVars, fsVars, lock>>

\* validateStateDirectories
Scan(p) ==
  /\ ~Foreign(p)
  /\ Goes(p, "scan", "marker")
  /\ UNCHANGED <<workVars, fsVars, lock>>

ReadMarker(p) ==
  /\ \/ marker = None /\ Goes(p, "marker", "link")
     \/ marker = runs[p] /\ Goes(p, "marker", "version")
  /\ UNCHANGED <<workVars, fsVars, lock>>

\* atomicfile.Create of a body that is synced before it gets its name.  The
\* lock keeps everybody else from creating the marker between the two steps, so
\* ErrExists, which the code tolerates, does not come up.
LinkMarker(p) ==
  /\ marker = None
  /\ Goes(p, "link", "sync")
  /\ marker' = runs[p]
  /\ unsynced' = unsynced \cup {"marker"}
  /\ UNCHANGED <<workVars, present, lock>>

\* syncDirectory of `wip`; then the marker is read again.
SyncMarker(p) ==
  /\ Goes(p, "sync", "version")
  /\ marker = runs[p]
  /\ unsynced' = unsynced \ (Version \cup {"marker"})
  /\ UNCHANGED <<workVars, present, marker, lock>>

\* Mutant: a directory is made that belongs to no state version.
MakeVersion_Unnamed(p) ==
  /\ Goes(p, "version", "open")
  /\ present' = present \cup {None, "records"}
  /\ unsynced' = unsynced \cup ({runs[p], "records"} \ present)
  /\ lock' = None
  /\ UNCHANGED <<workVars, marker>>

\* The version directory and those in it, each made if it does not exist.
MakeVersion(p) ==
  /\ Goes(p, "version", "open")
  /\ present' = present \cup {runs[p], "records"}
  /\ unsynced' = unsynced \cup ({runs[p], "records"} \ present)
  /\ lock' = None
  /\ UNCHANGED <<workVars, marker>>

Bootstrap(p) ==
  \/ InspectDirectories(p) \/ InspectMarker(p) \/ Acquire(p) \/ EnsureRoot(p) \/ LegacyRoot(p)
  \/ LegacyOpen(p) \/ Scan(p) \/ ReadMarker(p) \/ LinkMarker(p) \/ SyncMarker(p) \/ MakeVersion(p)
-----------------------------------------------------------------------------
\* A command that has opened the store uses the record.
Use(p) ==
  /\ pc[p] = "open" /\ runs[p] \in Version
  /\ RecordStep(p)
  /\ UNCHANGED rootVars

\* A process dies at any step; its locks are freed.
Die(p) ==
  /\ pc[p] # "idle"
  /\ End(p)
  /\ RecordDeath(p)
  /\ UNCHANGED <<fsVars, losses>>

\* What goes with a lost name: everything below it.
Gone(lost) ==
  lost \cup (IF "wip" \in lost THEN Version \cup {"marker", "records"} ELSE {})
       \cup (IF lost \cap Version # {} THEN {"records"} ELSE {})

PowerLoss ==
  /\ losses < MaxLosses
  /\ losses' = losses + 1
  /\ \E lost \in SUBSET unsynced :
       /\ present' = present \ Gone(lost)
       /\ marker' = IF "marker" \in Gone(lost) THEN None ELSE marker
       /\ IF "records" \in Gone(lost) THEN RecordLost ELSE RecordAfterPowerLoss
  /\ unsynced' = {}
  /\ lock' = None
  /\ pc' = [p \in Proc |-> "idle"]
  /\ runs' = [p \in Proc |-> None]
  /\ creates' = {}

Command(p) ==
  \/ \E o \in Owner : StartCreate(p, o)
  \/ \E v \in Version : StartOther(p, v)
  \/ Bootstrap(p) \/ Use(p) \/ Stops(p)

Next == (\E p \in Proc : Command(p) \/ Die(p)) \/ PowerLoss

Spec == Init /\ [][Next]_vars
-----------------------------------------------------------------------------
(* Properties. *)

RootTypeOK ==
  /\ RecordTypeOK
  /\ present \subseteq Directory
  /\ marker \in Version \cup {None}
  /\ unsynced \subseteq Name
  /\ lock \in Proc \cup {None}
  /\ pc \in [Proc -> Points]
  /\ runs \in [Proc -> Owner \cup {None}]
  /\ creates \subseteq Proc
  /\ losses \in 0..MaxLosses

\* There is one coordination domain (docs/OSS-PUBLIC-BETA.requirements.yaml,
\* OSS-017; STATE-COMPATIBILITY.md): never the legacy state beside this one, never
\* two state versions, in directories or marker, whoever raced, stopped halfway
\* or lost what part of the bootstrap to a loss of power; and a command works
\* only on the state version of its own release.
OneDomain ==
  /\ ~({"ndev-wip", "wip"} \subseteq present)
  /\ \A v, w \in Version \cap present : v = w
  /\ marker # None => Version \cap present \subseteq {marker}
  /\ \A p \in Proc : pc[p] = "open" =>
       IF runs[p] = Legacy THEN "ndev-wip" \in present
       ELSE marker = runs[p] /\ runs[p] \in present

\* Who owns the state: the tool whose directory, marker or version directory is
\* there.
TheOwner ==
  IF "ndev-wip" \in present THEN Legacy
  ELSE IF marker # None THEN marker
  ELSE IF Version \cap present # {} THEN CHOOSE v \in Version : v \in present
  ELSE None

Domain == INSTANCE DomainOwner WITH
  owner <- TheOwner,
  claimers <- creates,
  using <- [p \in Proc |-> IF pc[p] = "open" THEN runs[p] ELSE None]

\* The bootstrap implements DomainOwner: only `wip init` claims an unowned
\* repository, a claim passes to no other owner, and a command works for the
\* owner there is.
DomainSpec == Domain!Spec
-----------------------------------------------------------------------------
(* The inductive invariant behind them. *)

UnderLock == {"legacy", "scan", "marker", "link", "sync", "version", "legacyMade"}

\* Everything of the domain lies below `wip`.
Tree == marker # None \/ Version \cap present # {} => "wip" \in present

\* What a command has found out on its way through store.Open still holds,
\* because it holds the lock.
BootstrapShape ==
  \A p \in Proc :
    /\ pc[p] \in UnderLock => lock = p
    /\ pc[p] # "idle" => runs[p] \in Owner
    /\ pc[p] \in {"look", "lookMarker"} => runs[p] \in Version
    /\ pc[p] \in {"scan", "marker", "link", "sync", "version"} =>
         "wip" \in present /\ runs[p] \in Version
    /\ pc[p] \in {"marker", "link", "sync", "version"} => ~Foreign(p)
    /\ pc[p] = "link" => marker = None
    /\ pc[p] \in {"sync", "version"} => marker = runs[p]
    /\ pc[p] = "legacyMade" => runs[p] = Legacy /\ "ndev-wip" \in present

\* A command that found the domain initialized may go on where it is; every
\* other one is a creation.
Entitled ==
  \A p \in Proc : pc[p] \notin {"idle", "look", "lookMarker"} =>
    p \in creates \/ (runs[p] # Legacy /\ (marker # None \/ runs[p] \in present))

RootInv == RootTypeOK /\ RecordInv /\ OneDomain /\ Tree /\ BootstrapShape /\ Entitled
=============================================================================
