---------------------------- MODULE CommandLocks ----------------------------
(***************************************************************************)
(* The file locks of all wip commands together, and the heartbeat thread   *)
(* of a capture.  filelock.Acquire polls a lock file without queueing until *)
(* it owns it or its deadline passes; locks go back when the command       *)
(* returns, and the operating system frees those of a dead process.        *)
(*                                                                         *)
(* What the commands do under their locks is left to the modules of the    *)
(* components; here only the order of acquiring, waiting and giving back   *)
(* counts.  `init` is a series of the commands below: it gives back each   *)
(* lock before it takes the next.  Locks are numbered in the order of      *)
(* ARCHITECTURE.md, the initialization-intent lock last.                   *)
(***************************************************************************)
EXTENDS Naturals

CONSTANTS Command,   \* processes, each running one command at a time
          NLanes,    \* number of lanes, in the order of their identifiers
          Free       \* owner of a lock nobody holds

ASSUME LocksAssumption == NLanes \in Nat \ {0} /\ Free \notin Command \X {"main", "beat"}

Coordination == 0
ArchiveLock == 1
LaneLock == 2 .. NLanes + 1
Registry == NLanes + 2
Intent == NLanes + 3
Lock == 0 .. NLanes + 3

\* A capture has a second thread, its lease heartbeat.
Main(p) == <<p, "main">>
Beat(p) == <<p, "beat">>
Thread == Command \X {"main", "beat"}

VARIABLES owner,      \* holder of each lock file
          pc,         \* where the main thread of each process is
          capturing,  \* whether its command is a capture
          todo,       \* locks the command still has to take
          beat        \* where its heartbeat thread is

vars == <<owner, pc, capturing, todo, beat>>

\* Taking locks; waiting for, and in, the registry for the first fence and for
\* the last one before publication; capture work; waiting for the heartbeat.
Points == {"idle", "take", "fence", "fenced", "work", "publish", "published", "stop"}
Beats == {"off", "tick", "wait", "refresh", "done"}

\* The locks of each command but a capture: store.Open; an intent update;
\* create, claim, renew and release; reconcile; archive, resume and restore.
Scripts ==
  {{Coordination}, {Intent}}
    \cup {{l, Registry} : l \in LaneLock} \cup {{l} : l \in LaneLock}
    \cup {{ArchiveLock, Registry} \cup L : L \in (SUBSET LaneLock) \ {{}}}
-----------------------------------------------------------------------------
Init ==
  /\ owner = [k \in Lock |-> Free]
  /\ pc = [p \in Command |-> "idle"]
  /\ capturing = [p \in Command |-> FALSE]
  /\ todo = [p \in Command |-> {}]
  /\ beat = [p \in Command |-> "off"]

\* Mutant: a command takes its locks in any order.
Next_AnyOrder(p, k) == k \in todo[p]

\* Locks are taken in ascending order: program order in Create, Claim, Renew,
\* Release and the archive commands, candidate order for the lanes of a batch.
NextLock(p, k) == k \in todo[p] /\ \A j \in todo[p] : k <= j

\* The main thread of p moves from one point to another.
Moves(p, from, to) == pc[p] = from /\ pc' = [pc EXCEPT ![p] = to]

\* The command of p returns: its deferred calls give back every lock.
Return(p) ==
  /\ pc' = [pc EXCEPT ![p] = "idle"]
  /\ capturing' = [capturing EXCEPT ![p] = FALSE]
  /\ todo' = [todo EXCEPT ![p] = {}]
  /\ beat' = [beat EXCEPT ![p] = "off"]
  /\ owner' = [k \in Lock |-> IF owner[k] \in {Main(p), Beat(p)} THEN Free ELSE owner[k]]

Start(p, S) ==
  /\ Moves(p, "idle", "take")
  /\ todo' = [todo EXCEPT ![p] = S]
  /\ UNCHANGED <<owner, capturing, beat>>

StartCapture(p, l) ==
  /\ Moves(p, "idle", "take")
  /\ capturing' = [capturing EXCEPT ![p] = TRUE]
  /\ todo' = [todo EXCEPT ![p] = {l}]
  /\ UNCHANGED <<owner, beat>>

\* One poll of Acquire that finds the lock free.
Take(p) ==
  /\ pc[p] = "take"
  /\ \E k \in Lock :
       /\ NextLock(p, k)
       /\ owner[k] = Free
       /\ owner' = [owner EXCEPT ![k] = Main(p)]
       /\ todo' = [todo EXCEPT ![p] = @ \ {k}]
  /\ UNCHANGED <<pc, capturing, beat>>

\* The command is done under all its locks.
Finish(p) == pc[p] = "take" /\ todo[p] = {} /\ ~capturing[p] /\ Return(p)

\* A deadline passes, or a check between two locks refuses the command.
GiveUp(p) == pc[p] \in {"take", "fence", "fenced"} /\ Return(p)
-----------------------------------------------------------------------------
(* A capture holds its lane lock and enters the registry for each fence. *)

FirstFence(p) ==
  /\ todo[p] = {} /\ capturing[p]
  /\ Moves(p, "take", "fence")
  /\ UNCHANGED <<owner, capturing, todo, beat>>

EnterRegistry(p) ==
  /\ \/ Moves(p, "fence", "fenced")
     \/ Moves(p, "publish", "published")
  /\ owner[Registry] = Free
  /\ owner' = [owner EXCEPT ![Registry] = Main(p)]
  /\ UNCHANGED <<capturing, todo, beat>>

\* startLeaseHeartbeat after the first refresh.
StartBeat(p) ==
  /\ Moves(p, "fenced", "work")
  /\ owner' = [owner EXCEPT ![Registry] = Free]
  /\ beat' = [beat EXCEPT ![p] = "tick"]
  /\ UNCHANGED <<capturing, todo>>

\* BeforePublish asks for the last refresh.
Publish(p) ==
  /\ Moves(p, "work", "publish")
  /\ UNCHANGED <<owner, capturing, todo, beat>>

\* Mutant: the last fence keeps the registry until the capture is over.
Published_KeepsRegistry(p) ==
  /\ Moves(p, "published", "stop")
  /\ UNCHANGED <<owner, capturing, todo, beat>>

Published(p) ==
  /\ Moves(p, "published", "stop")
  /\ owner' = [owner EXCEPT ![Registry] = Free]
  /\ UNCHANGED <<capturing, todo, beat>>

\* A dry run, a failed gate, or the last fence timed out waiting.
StopEarly(p) ==
  /\ Moves(p, "work", "stop") \/ Moves(p, "publish", "stop")
  /\ UNCHANGED <<owner, capturing, todo, beat>>

\* Mutant: the capture returns without waiting for its heartbeat.
Stopped_NoWait(p) ==
  /\ Moves(p, "stop", "idle")
  /\ capturing' = [capturing EXCEPT ![p] = FALSE]
  /\ owner' = [k \in Lock |-> IF owner[k] = Main(p) THEN Free ELSE owner[k]]
  /\ UNCHANGED <<todo, beat>>

\* stop() returns what the heartbeat left in its channel; then the cursor is
\* recorded under the lane lock and the capture is over.
Stopped(p) == pc[p] = "stop" /\ beat[p] = "done" /\ Return(p)
-----------------------------------------------------------------------------
(* The heartbeat thread. *)

Beats_(p, from, to) == beat[p] = from /\ beat' = [beat EXCEPT ![p] = to]

BeatTick(p) == Beats_(p, "tick", "wait") /\ UNCHANGED <<owner, pc, capturing, todo>>

BeatEnter(p) ==
  /\ Beats_(p, "wait", "refresh")
  /\ owner[Registry] = Free
  /\ owner' = [owner EXCEPT ![Registry] = Beat(p)]
  /\ UNCHANGED <<pc, capturing, todo>>

\* The refresh went well, or it failed and the heartbeat ends with its error.
BeatLeave(p) ==
  /\ Beats_(p, "refresh", "tick") \/ Beats_(p, "refresh", "done")
  /\ owner' = [owner EXCEPT ![Registry] = Free]
  /\ UNCHANGED <<pc, capturing, todo>>

BeatTimeout(p) == Beats_(p, "wait", "done") /\ UNCHANGED <<owner, pc, capturing, todo>>

\* heartbeatCtx is done once stop() was called; the parent context of the
\* program (main.go, context.Background) is never done.
BeatStop(p) ==
  /\ pc[p] = "stop"
  /\ Beats_(p, "tick", "done")
  /\ UNCHANGED <<owner, pc, capturing, todo>>
-----------------------------------------------------------------------------
\* The process dies with both threads.
Die(p) == pc[p] # "idle" /\ Return(p)

Starts(p) == (\E S \in Scripts : Start(p, S)) \/ (\E l \in LaneLock : StartCapture(p, l))

MainStep(p) ==
  \/ Finish(p) \/ FirstFence(p) \/ StartBeat(p) \/ Publish(p) \/ Published(p)
  \/ StopEarly(p) \/ Stopped(p)

BeatStep(p) == BeatTick(p) \/ BeatLeave(p) \/ BeatTimeout(p)

Next ==
  \E p \in Command :
    \/ Starts(p) \/ Take(p) \/ EnterRegistry(p) \/ MainStep(p) \/ GiveUp(p)
    \/ BeatStep(p) \/ BeatEnter(p) \/ BeatStop(p)
    \/ Die(p)

Spec == Init /\ [][Next]_vars

\* A thread goes on when it can: hooks and tests have timeouts, and a user asked
\* for groups is taken to answer.  A lock that is free again and again is met
\* free by one of the polls, and select takes a closed channel some time.  No
\* deadline has to pass and nothing has to die.
Fairness ==
  \A p \in Command :
    /\ WF_vars(Finish(p)) /\ WF_vars(FirstFence(p)) /\ WF_vars(StartBeat(p))
    /\ WF_vars(Publish(p) \/ StopEarly(p)) /\ WF_vars(Published(p)) /\ WF_vars(Stopped(p))
    /\ SF_vars(Take(p)) /\ SF_vars(EnterRegistry(p))
    /\ WF_vars(BeatLeave(p)) /\ SF_vars(BeatEnter(p)) /\ SF_vars(BeatStop(p))

FairSpec == Spec /\ Fairness
-----------------------------------------------------------------------------
(* Properties. *)

LocksTypeOK ==
  /\ owner \in [Lock -> Thread \cup {Free}]
  /\ pc \in [Command -> Points]
  /\ capturing \in [Command -> BOOLEAN]
  /\ todo \in [Command -> SUBSET Lock]
  /\ beat \in [Command -> Beats]

\* No lease is extended for a capture that has given up its lane: its heartbeat
\* thread is over before the lane lock is free, on every way out.
BeatUnderLaneLock ==
  \A p \in Command : beat[p] \in {"tick", "wait", "refresh"} =>
    \E l \in LaneLock : owner[l] = Main(p)

\* ARCHITECTURE.md, "Lock order": a thread that waits for a lock holds only
\* earlier ones, and nobody waits, for a lock or for its heartbeat, inside the
\* registry.  No chain of waiting commands is a circle.
WaitsInOrder ==
  \A p \in Command, j \in Lock :
    /\ owner[j] = Main(p) =>
         /\ pc[p] = "take" => \A k \in todo[p] : j < k
         /\ pc[p] \in {"fence", "publish", "work", "stop"} => j < Registry
    /\ owner[j] = Beat(p) => beat[p] = "refresh"

\* What a running command can do at once, with no deadline passing and nothing
\* dying: take its next lock, enter the registry for a fence, go on under the locks
\* it has, or end the heartbeat it waits for.
CanGo(p) ==
  \/ pc[p] = "take" /\ todo[p] = {}
  \/ pc[p] = "take" /\ \E k \in Lock : NextLock(p, k) /\ owner[k] = Free
  \/ pc[p] \in {"fence", "publish"} /\ owner[Registry] = Free
  \/ pc[p] \in {"fenced", "work", "published"}
  \/ pc[p] = "stop" /\ beat[p] \in {"tick", "done"}
  \/ pc[p] = "stop" /\ beat[p] = "wait" /\ owner[Registry] = Free
  \/ beat[p] = "refresh"

\* The waits for lock files, and of stop() for its heartbeat, never close a
\* circle: while any command runs, one of them can go on, although no poll of
\* filelock.Acquire knows who holds the lock.
NobodyStuck == (\E p \in Command : pc[p] # "idle") => \E p \in Command : CanGo(p)

\* Every command comes to its end without a deadline having to pass: nobody
\* waits for ever, not for the other commands and not for its own heartbeat.
EveryCommandEnds == \A p \in Command : pc[p] # "idle" ~> pc[p] = "idle"
-----------------------------------------------------------------------------
(* The inductive invariant behind the properties. *)

\* What the point a command has reached says about it: only a capture comes
\* past "take", with no lock left to take; from the end of its first fence to
\* its own a heartbeat runs; from its first lock on a capture owns a lane.
CommandShape ==
  \A p \in Command :
    /\ pc[p] = "idle" => beat[p] = "off" /\ ~capturing[p]
    /\ pc[p] = "take" /\ capturing[p] => todo[p] \subseteq LaneLock
    /\ pc[p] \notin {"idle", "take"} => capturing[p] /\ todo[p] = {}
    /\ pc[p] \in {"take", "fence", "fenced"} => beat[p] = "off"
    /\ pc[p] \in {"work", "publish", "published", "stop"} => beat[p] # "off"
    /\ capturing[p] => \E l \in LaneLock :
         owner[l] = Main(p) \/ (pc[p] = "take" /\ todo[p] = {l})

\* Which locks a thread can own at that point.
OwnedShape ==
  \A p \in Command, j \in Lock :
    /\ owner[j] = Main(p) =>
         /\ pc[p] # "idle"
         /\ pc[p] = "take" /\ capturing[p] => j \in LaneLock
         /\ pc[p] # "take" => j <= Registry
    /\ owner[j] = Beat(p) => j = Registry

LocksInv == LocksTypeOK /\ CommandShape /\ OwnedShape /\ WaitsInOrder
=============================================================================
