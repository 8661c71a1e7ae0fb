----------------------------- MODULE RecordFile -----------------------------
(***************************************************************************)
(* How one record of the store is published and read.  Writers go through  *)
(* atomicfile.Create (hard link, never replaces) or atomicfile.Write       *)
(* (rename, replaces); readers take no lock and go through                 *)
(* safeio.ReadRegular, which compares the open file with the name before   *)
(* and after it reads.  StateRoot puts these steps into the life of a      *)
(* command and adds the loss of power.                                     *)
(*                                                                         *)
(* A body is the file one writer fills and publishes; bodies are numbered  *)
(* in the order in which writers begin them.                               *)
(***************************************************************************)
EXTENDS Naturals

CONSTANTS Proc,      \* processes
          MaxBodies, \* bound on the bodies ever begun
          None       \* no process, no release

ASSUME RecordAssumption == MaxBodies \in Nat

VARIABLES entry,     \* body the record's name shows, 0 for none
          onDisk,    \* bodies the name may show after a loss of power
          content,   \* what reading a body returns
          synced,    \* bodies whose content is on disk
          acked,     \* last body whose writer was told that it is durable
          recordLock,  \* holder of the lock under which the record is replaced
          step,      \* where each process is in publishing or reading
          file       \* the body it has open

recordVars == <<entry, onDisk, content, synced, acked, recordLock, step, file>>
fileVars == <<entry, onDisk, content, synced, acked>>

Body == 1..MaxBodies

\* A process is not at the record; it writes, syncs, publishes and settles a
\* body; it reads.  A writer that replaces holds the record's lock (that of the
\* lane, or of the initialization intent), a creator does not.
WriteSteps == {"writing", "syncing", "publishing", "settling"}
ReadSteps == {"opened", "checked", "read"}
Steps == {"none"} \cup WriteSteps \cup ReadSteps
-----------------------------------------------------------------------------
RecordInit ==
  /\ entry = 0 /\ onDisk = {0} /\ acked = 0
  /\ content = [b \in Body |-> "none"] /\ synced = {}
  /\ recordLock = None
  /\ step = [p \in Proc |-> "none"]
  /\ file = [p \in Proc |-> 0]

Moves_(p, from, to) == step[p] = from /\ step' = [step EXCEPT ![p] = to]

\* The temporary file is created: the next number, its content still partial.
NewBody(p) ==
  \E b \in Body :
    /\ content[b] = "none" /\ \A c \in Body : c < b => content[c] # "none"
    /\ content' = [content EXCEPT ![b] = "partial"]
    /\ file' = [file EXCEPT ![p] = b]

\* A new record may need no lock: initialization intents and profiles are
\* created without one.
BeginCreate(p) ==
  /\ Moves_(p, "none", "writing")
  /\ NewBody(p)
  /\ UNCHANGED <<entry, onDisk, synced, acked, recordLock>>

\* A record is replaced by a holder of its lock that has loaded it.
BeginReplace(p) ==
  /\ entry # 0 /\ recordLock = None
  /\ Moves_(p, "none", "writing")
  /\ recordLock' = p
  /\ NewBody(p)
  /\ UNCHANGED <<entry, onDisk, synced, acked>>

WriteBody(p) ==
  /\ Moves_(p, "writing", "syncing")
  /\ content' = [content EXCEPT ![file[p]] = "whole"]
  /\ UNCHANGED <<entry, onDisk, synced, acked, recordLock, file>>

\* Mutant: the temporary file is not synced.
SyncBody_Not(p) ==
  /\ Moves_(p, "syncing", "publishing")
  /\ UNCHANGED <<fileVars, recordLock, file>>

SyncBody(p) ==
  /\ Moves_(p, "syncing", "publishing")
  /\ synced' = synced \cup {file[p]}
  /\ UNCHANGED <<entry, onDisk, content, acked, recordLock, file>>

\* os.Link gives the record its name unless it has one; a replacing writer
\* renames over the name it has.
Publish(p) ==
  /\ recordLock = p \/ entry = 0
  /\ Moves_(p, "publishing", "settling")
  /\ entry' = file[p]
  /\ onDisk' = onDisk \cup {file[p]}
  /\ UNCHANGED <<content, synced, acked, recordLock, file>>

\* ErrExists: the temporary file is removed; the caller reads what is there.
LinkRefused(p) ==
  /\ recordLock # p /\ entry # 0
  /\ Moves_(p, "publishing", "none")
  /\ file' = [file EXCEPT ![p] = 0]
  /\ UNCHANGED <<fileVars, recordLock>>

\* The caller is told that its body is durable; the lock goes back.
Answer(p) ==
  /\ acked' = IF file[p] > acked THEN file[p] ELSE acked
  /\ recordLock' = IF recordLock = p THEN None ELSE recordLock
  /\ file' = [file EXCEPT ![p] = 0]

\* Mutant: the caller is answered before the directory is synced.
SyncEntry_Not(p) ==
  /\ Moves_(p, "settling", "none")
  /\ Answer(p)
  /\ UNCHANGED <<entry, onDisk, content, synced>>

\* syncDirectory, then the return to the caller.
SyncEntry(p) ==
  /\ Moves_(p, "settling", "none")
  /\ onDisk' = {entry}
  /\ Answer(p)
  /\ UNCHANGED <<entry, content, synced>>
-----------------------------------------------------------------------------
(* safeio.ReadRegular *)

OpenRecord(p) ==
  /\ entry # 0
  /\ Moves_(p, "none", "opened")
  /\ file' = [file EXCEPT ![p] = entry]
  /\ UNCHANGED <<fileVars, recordLock>>

\* Lstat and SameFile, before and after the body is read.
Compare(p) ==
  /\ file[p] = entry
  /\ Moves_(p, "opened", "checked")
  /\ UNCHANGED <<fileVars, recordLock, file>>

\* The body is read; the record is returned when the name still shows it.
ReadBody(p) ==
  /\ Moves_(p, "checked", "read")
  /\ UNCHANGED <<fileVars, recordLock, file>>

\* The record is returned, or refused with STORE_FAILED because a writer has
\* replaced it meanwhile.
EndRead(p) ==
  /\ \/ Moves_(p, "read", "none")
     \/ Moves_(p, "opened", "none") /\ file[p] # entry
  /\ file' = [file EXCEPT ![p] = 0]
  /\ UNCHANGED <<fileVars, recordLock>>

RecordStep(p) ==
  \/ BeginCreate(p) \/ BeginReplace(p) \/ WriteBody(p) \/ SyncBody(p)
  \/ Publish(p) \/ LinkRefused(p) \/ SyncEntry(p)
  \/ OpenRecord(p) \/ Compare(p) \/ ReadBody(p) \/ EndRead(p)
-----------------------------------------------------------------------------
(* Faults.  A process that dies leaves its temporary file behind, which    *)
(* nobody reads; its lock is freed.                                        *)

RecordDeath(p) ==
  /\ step' = [step EXCEPT ![p] = "none"]
  /\ file' = [file EXCEPT ![p] = 0]
  /\ recordLock' = IF recordLock = p THEN None ELSE recordLock
  /\ UNCHANGED fileVars

\* Nothing runs any more and no lock is held.
EverybodyStops ==
  /\ step' = [p \in Proc |-> "none"]
  /\ file' = [p \in Proc |-> 0]
  /\ recordLock' = None

\* The name shows one of the bodies it may show; what was not synced of a
\* body may be missing.
RecordAfterPowerLoss ==
  /\ entry' \in onDisk
  /\ onDisk' = {entry'}
  /\ content' = [b \in Body |->
                  IF content[b] = "whole" /\ b \notin synced THEN "partial" ELSE content[b]]
  /\ UNCHANGED <<synced, acked>>
  /\ EverybodyStops

\* The directory of the record is gone, and all that was in it.
RecordLost ==
  /\ entry' = 0 /\ onDisk' = {0} /\ acked' = 0
  /\ UNCHANGED <<content, synced>>
  /\ EverybodyStops
-----------------------------------------------------------------------------
RecordTypeOK ==
  /\ entry \in 0..MaxBodies
  /\ onDisk \subseteq 0..MaxBodies
  /\ content \in [Body -> {"none", "partial", "whole"}]
  /\ synced \subseteq Body
  /\ acked \in 0..MaxBodies
  /\ recordLock \in Proc \cup {None}
  /\ step \in [Proc -> Steps]
  /\ file \in [Proc -> 0..MaxBodies]

\* Whoever looks at the record, also after a loss of power, finds a complete
\* body, and so does a lock-free reader in the file it has opened, whatever
\* is published meanwhile.
NothingTorn ==
  /\ entry # 0 => content[entry] = "whole"
  /\ \A p \in Proc : step[p] \in ReadSteps => content[file[p]] = "whole"

\* What a writer was told is durable is not taken back by a later writer, by a
\* creator that lost the race or by a loss of power that spares the directory:
\* the name shows that body or a later one.  A loser of the race is told nothing:
\* it goes on with a record that may not be on disk yet.
AckedKept == acked <= entry
-----------------------------------------------------------------------------
(* The inductive invariant behind them. *)

\* Bodies are begun in the order of their numbers; a synced body is complete.
BodiesInOrder ==
  /\ \A b, c \in Body : b < c /\ content[b] = "none" => content[c] = "none"
  /\ \A b \in synced : content[b] = "whole"

\* The name shows, now or after a loss of power, a synced body no older than
\* the last one acknowledged, or nothing as long as nothing was.
EntryShape ==
  /\ entry \in onDisk
  /\ \A b \in onDisk : acked <= b /\ (b # 0 => b \in synced)

\* What each process knows of the body it has open.  The holder of the lock
\* is about to publish a body newer than the record, a creator that has
\* published is no newer than it.
FileShape ==
  \A p \in Proc :
    /\ step[p] # "none" => file[p] \in Body /\ content[file[p]] # "none"
    /\ step[p] \in {"publishing", "settling"} => file[p] \in synced
    /\ step[p] \in {"syncing"} \cup ReadSteps => content[file[p]] = "whole"
    /\ step[p] = "settling" => file[p] <= entry
    /\ recordLock = p => step[p] \in WriteSteps
    /\ recordLock = p /\ step[p] # "settling" => entry # 0 /\ entry < file[p]

RecordInv == RecordTypeOK /\ BodiesInOrder /\ EntryShape /\ FileShape
=============================================================================
