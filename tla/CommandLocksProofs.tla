------------------------- MODULE CommandLocksProofs -------------------------
(***************************************************************************)
(* The lock order of CommandLocks holds for any number of commands and     *)
(* lanes.  The proof that a step preserves the invariant goes action by    *)
(* action; LocksInv says why each action keeps the order.                  *)
(***************************************************************************)
EXTENDS CommandLocks, FiniteSets, FiniteSetTheorems, TLAPS

\* The shape of the lock numbers, and that threads and Free are all distinct.
LEMMA LockFacts ==
  /\ NLanes \in Nat \ {0}
  /\ Lock \subseteq Nat /\ LaneLock \subseteq Lock
  /\ Registry \in Lock /\ Coordination \in Lock /\ ArchiveLock \in Lock /\ Intent \in Lock
  /\ \A l \in LaneLock : l < Registry
  /\ Thread = {Main(p) : p \in Command} \cup {Beat(p) : p \in Command}
  /\ \A p \in Command : Main(p) # Free /\ Beat(p) # Free
  /\ \A p, q \in Command : Main(p) # Beat(q)
  /\ \A p, q \in Command : p # q => Main(p) # Main(q) /\ Beat(p) # Beat(q)
<1>1. NLanes \in Nat \ {0} /\ Free \notin Command \X {"main", "beat"}
  BY LocksAssumption
<1>2. \A p \in Command : Main(p) # Free /\ Beat(p) # Free
  BY <1>1 DEF Main, Beat
<1>3. Thread = {Main(p) : p \in Command} \cup {Beat(p) : p \in Command}
  BY DEF Thread, Main, Beat
<1>4. \A p, q \in Command : Main(p) # Beat(q)
  BY DEF Main, Beat
<1>5. \A p, q \in Command : p # q => Main(p) # Main(q) /\ Beat(p) # Beat(q)
  BY DEF Main, Beat
<1> QED
  BY <1>1, <1>2, <1>3, <1>4, <1>5
  DEF Lock, LaneLock, Registry, Coordination, ArchiveLock, Intent

\* Every command's set of locks is a set of locks.
LEMMA ScriptsAreLocks == \A S \in Scripts : S \subseteq Lock
BY LockFacts DEF Scripts

LEMMA LocksInvInit == Init => LocksInv
BY LockFacts DEF Init, LocksInv, LocksTypeOK, CommandShape, OwnedShape, WaitsInOrder, Points, Beats

\* A command that returns, at whatever point, leaves nothing behind.
LEMMA ReturnStep ==
  ASSUME LocksInv, NEW p \in Command, Return(p)
  PROVE  LocksInv'
<1> USE LockFacts
<1>1. \A j \in Lock : owner'[j] = IF owner[j] \in {Main(p), Beat(p)} THEN Free ELSE owner[j]
  BY DEF Return
<1>2. LocksTypeOK'
  BY DEF LocksInv, LocksTypeOK, Return, Points, Beats
<1>3. CommandShape'
  BY <1>1 DEF LocksInv, LocksTypeOK, CommandShape, Return
<1>4. OwnedShape'
  BY <1>1 DEF LocksInv, LocksTypeOK, OwnedShape, Return
<1>5. WaitsInOrder'
  BY <1>1 DEF LocksInv, LocksTypeOK, WaitsInOrder, Return
<1> QED
  BY <1>2, <1>3, <1>4, <1>5 DEF LocksInv

\* Starting a command, a capture among them.
LEMMA StartStep ==
  ASSUME LocksInv, NEW p \in Command, Starts(p)
  PROVE  LocksInv'
<1> USE LockFacts
<1>1. ASSUME NEW S \in Scripts, Start(p, S) PROVE LocksInv'
  <2>1. S \subseteq Lock
    BY ScriptsAreLocks
  <2>2. LocksTypeOK'
    BY <1>1, <2>1 DEF LocksInv, LocksTypeOK, Start, Moves, Points
  <2>3. CommandShape' /\ OwnedShape' /\ WaitsInOrder'
    BY <1>1, <2>1 DEF LocksInv, LocksTypeOK, CommandShape, OwnedShape, WaitsInOrder, Start, Moves
  <2> QED
    BY <2>2, <2>3 DEF LocksInv
<1>2. ASSUME NEW l \in LaneLock, StartCapture(p, l) PROVE LocksInv'
  <2>1. LocksTypeOK'
    BY <1>2 DEF LocksInv, LocksTypeOK, StartCapture, Moves, Points
  <2>2. CommandShape'
    BY <1>2 DEF LocksInv, LocksTypeOK, CommandShape, StartCapture, Moves
  <2>3. OwnedShape' /\ WaitsInOrder'
    BY <1>2 DEF LocksInv, LocksTypeOK, OwnedShape, WaitsInOrder, StartCapture, Moves
  <2> QED
    BY <2>1, <2>2, <2>3 DEF LocksInv
<1> QED
  BY <1>1, <1>2 DEF Starts

\* A lock is taken in its place in the order.
LEMMA TakeStep ==
  ASSUME LocksInv, NEW p \in Command, Take(p)
  PROVE  LocksInv'
<1> USE LockFacts
<1>1. PICK k \in Lock :
        /\ NextLock(p, k) /\ owner[k] = Free
        /\ owner' = [owner EXCEPT ![k] = Main(p)]
        /\ todo' = [todo EXCEPT ![p] = @ \ {k}]
  BY DEF Take
<1>2. pc[p] = "take" /\ UNCHANGED <<pc, capturing, beat>>
  BY DEF Take
<1>3. LocksTypeOK'
  BY <1>1, <1>2 DEF LocksInv, LocksTypeOK
<1>4. CommandShape'
  <2>1. ASSUME NEW q \in Command, capturing[q]
        PROVE  \E l \in LaneLock : owner'[l] = Main(q) \/ (pc[q] = "take" /\ todo'[q] = {l})
    <3>1. PICK l \in LaneLock : owner[l] = Main(q) \/ (pc[q] = "take" /\ todo[q] = {l})
      BY <2>1 DEF LocksInv, CommandShape
    <3>2. CASE owner[l] = Main(q)
      BY <1>1, <3>2 DEF LocksInv, LocksTypeOK
    <3>3. CASE pc[q] = "take" /\ todo[q] = {l} /\ q = p
      BY <1>1, <3>3 DEF LocksInv, LocksTypeOK, NextLock
    <3>4. CASE pc[q] = "take" /\ todo[q] = {l} /\ q # p
      BY <1>1, <3>4 DEF LocksInv, LocksTypeOK
    <3> QED
      BY <3>1, <3>2, <3>3, <3>4
  <2> QED
    BY <1>1, <1>2, <2>1 DEF LocksInv, LocksTypeOK, CommandShape
<1>5. OwnedShape'
  BY <1>1, <1>2 DEF LocksInv, LocksTypeOK, CommandShape, OwnedShape, NextLock
<1>6. WaitsInOrder'
  BY <1>1, <1>2 DEF LocksInv, LocksTypeOK, WaitsInOrder, NextLock
<1> QED
  BY <1>3, <1>4, <1>5, <1>6 DEF LocksInv

\* The capture's own thread, between its lane lock and its end.
LEMMA CaptureStep ==
  ASSUME LocksInv, NEW p \in Command,
         \/ FirstFence(p) \/ EnterRegistry(p) \/ StartBeat(p)
         \/ Publish(p) \/ Published(p) \/ StopEarly(p)
  PROVE  LocksInv'
<1> USE LockFacts
<1>1. CASE FirstFence(p)
  <2>1. LocksTypeOK' /\ CommandShape'
    BY <1>1 DEF FirstFence, Moves, LocksInv, LocksTypeOK, CommandShape, Points
  <2>2. OwnedShape' /\ WaitsInOrder'
    BY <1>1 DEF FirstFence, Moves, LocksInv, LocksTypeOK, CommandShape, OwnedShape, WaitsInOrder
  <2> QED
    BY <2>1, <2>2 DEF LocksInv
<1>2. CASE EnterRegistry(p)
  <2>1. LocksTypeOK' /\ CommandShape'
    BY <1>2 DEF EnterRegistry, Moves, LocksInv, LocksTypeOK, CommandShape, Points
  <2>2. OwnedShape' /\ WaitsInOrder'
    BY <1>2 DEF EnterRegistry, Moves, LocksInv, LocksTypeOK, OwnedShape, WaitsInOrder
  <2> QED
    BY <2>1, <2>2 DEF LocksInv
<1>3. CASE StartBeat(p)
  <2>1. LocksTypeOK' /\ CommandShape'
    BY <1>3 DEF StartBeat, Moves, LocksInv, LocksTypeOK, CommandShape, Points, Beats
  <2>2. OwnedShape' /\ WaitsInOrder'
    BY <1>3, SMTT(30) DEF StartBeat, Moves, LocksInv, LocksTypeOK, CommandShape, OwnedShape, WaitsInOrder
  <2> QED
    BY <2>1, <2>2 DEF LocksInv
<1>4. CASE Publish(p)
  <2>1. LocksTypeOK' /\ CommandShape'
    BY <1>4 DEF Publish, Moves, LocksInv, LocksTypeOK, CommandShape, Points
  <2>2. OwnedShape' /\ WaitsInOrder'
    BY <1>4 DEF Publish, Moves, LocksInv, LocksTypeOK, CommandShape, OwnedShape, WaitsInOrder
  <2> QED
    BY <2>1, <2>2 DEF LocksInv
<1>5. CASE Published(p)
  <2>1. LocksTypeOK' /\ CommandShape'
    BY <1>5 DEF Published, Moves, LocksInv, LocksTypeOK, CommandShape, Points
  <2>2. OwnedShape' /\ WaitsInOrder'
    BY <1>5 DEF Published, Moves, LocksInv, LocksTypeOK, OwnedShape, WaitsInOrder
  <2> QED
    BY <2>1, <2>2 DEF LocksInv
<1>6. CASE StopEarly(p)
  <2>1. LocksTypeOK' /\ CommandShape'
    BY <1>6 DEF StopEarly, Moves, LocksInv, LocksTypeOK, CommandShape, Points
  <2>2. OwnedShape' /\ WaitsInOrder'
    BY <1>6 DEF StopEarly, Moves, LocksInv, LocksTypeOK, CommandShape, OwnedShape, WaitsInOrder
  <2> QED
    BY <2>1, <2>2 DEF LocksInv
<1> QED
  BY <1>1, <1>2, <1>3, <1>4, <1>5, <1>6

\* The heartbeat thread beside it.
LEMMA BeatSteps ==
  ASSUME LocksInv, NEW p \in Command,
         BeatStep(p) \/ BeatEnter(p) \/ BeatStop(p)
  PROVE  LocksInv'
<1> USE LockFacts
<1>1. CASE BeatTick(p) \/ BeatTimeout(p) \/ BeatStop(p)
  BY <1>1 DEF BeatTick, BeatTimeout, BeatStop, Beats_, LocksInv, LocksTypeOK, CommandShape,
              OwnedShape, WaitsInOrder, Beats
<1>2. CASE BeatEnter(p)
  <2>1. LocksTypeOK' /\ CommandShape'
    BY <1>2 DEF BeatEnter, Beats_, LocksInv, LocksTypeOK, CommandShape, Beats
  <2>2. OwnedShape' /\ WaitsInOrder'
    BY <1>2 DEF BeatEnter, Beats_, LocksInv, LocksTypeOK, OwnedShape, WaitsInOrder
  <2> QED
    BY <2>1, <2>2 DEF LocksInv
<1>3. CASE BeatLeave(p)
  <2>1. LocksTypeOK' /\ CommandShape'
    BY <1>3 DEF BeatLeave, Beats_, LocksInv, LocksTypeOK, CommandShape, Beats
  <2>2. OwnedShape' /\ WaitsInOrder'
    BY <1>3 DEF BeatLeave, Beats_, LocksInv, LocksTypeOK, OwnedShape, WaitsInOrder
  <2> QED
    BY <2>1, <2>2 DEF LocksInv
<1> QED
  BY <1>1, <1>2, <1>3 DEF BeatStep

\* LocksInv is an invariant.
THEOREM LocksInvariant == Spec => []LocksInv
<1>1. Init => LocksInv
  BY LocksInvInit
<1>2. LocksInv /\ [Next]_vars => LocksInv'
  <2> SUFFICES ASSUME LocksInv, [Next]_vars PROVE LocksInv'
    OBVIOUS
  <2>1. ASSUME NEW p \in Command,
               \/ Starts(p) \/ Take(p) \/ EnterRegistry(p) \/ MainStep(p) \/ GiveUp(p)
               \/ BeatStep(p) \/ BeatEnter(p) \/ BeatStop(p) \/ Die(p)
        PROVE  LocksInv'
    <3>1. CASE Starts(p)
      BY <3>1, StartStep
    <3>2. CASE Take(p)
      BY <3>2, TakeStep
    <3>3. CASE FirstFence(p) \/ EnterRegistry(p) \/ StartBeat(p)
               \/ Publish(p) \/ Published(p) \/ StopEarly(p)
      BY <3>3, CaptureStep
    <3>4. CASE Finish(p) \/ Stopped(p) \/ GiveUp(p) \/ Die(p)
      BY <3>4, ReturnStep DEF Finish, Stopped, GiveUp, Die
    <3>5. CASE BeatStep(p) \/ BeatEnter(p) \/ BeatStop(p)
      BY <3>5, BeatSteps
    <3> QED
      BY <2>1, <3>1, <3>2, <3>3, <3>4, <3>5 DEF MainStep
  <2>2. CASE UNCHANGED vars
    BY <2>2 DEF vars, LocksInv, LocksTypeOK, CommandShape, OwnedShape, WaitsInOrder
  <2> QED
    BY <2>1, <2>2 DEF Next
<1> QED
  BY <1>1, <1>2, PTL DEF Spec

\* Type correctness of the lock model.
THEOREM LocksTypeCorrect == Spec => []LocksTypeOK
<1>1. LocksInv => LocksTypeOK
  BY DEF LocksInv
<1> QED
  BY <1>1, LocksInvariant, PTL

\* The lock order of ARCHITECTURE.md: nobody waits for a lock that comes before
\* one it holds, and nobody waits at all inside the registry.
THEOREM LockOrder == Spec => []WaitsInOrder
<1>1. LocksInv => WaitsInOrder
  BY DEF LocksInv
<1> QED
  BY <1>1, LocksInvariant, PTL

\* The heartbeat of startLeaseHeartbeat never outlives the lane lock.
THEOREM HeartbeatWithinLaneLock == Spec => []BeatUnderLaneLock
<1>1. LocksInv => BeatUnderLaneLock
  BY DEF LocksInv, LocksTypeOK, CommandShape, BeatUnderLaneLock, Points
<1> QED
  BY <1>1, LocksInvariant, PTL
-----------------------------------------------------------------------------
(* Nobody is stuck: the greatest lock held by a waiting command cannot be  *)
(* waited for by its own kind.                                             *)

\* A set of natural numbers has a least element.  The intervals from 1 to its
\* elements are finite sets, and strict inclusion of those is well-founded.
LEMMA Least ==
  ASSUME NEW T \in SUBSET Nat, T # {}
  PROVE  \E x \in T : \A y \in T : x <= y
<1> DEFINE F == {1 .. n : n \in T}
           R == StrictSubsetOrdering(Nat)
<1>1. F \subseteq FiniteSubsetsOf(Nat) /\ F # {}
  <2>1. ASSUME NEW n \in T PROVE IsFiniteSet(1 .. n) /\ 1 .. n \in SUBSET Nat
    <3>1. 1 \in Int /\ n \in Int
      OBVIOUS
    <3>2. IsFiniteSet(1 .. n)
      BY <3>1, FS_Interval
    <3> QED
      BY <3>2
  <2> QED
    BY <2>1 DEF FiniteSubsetsOf
<1>2. IsWellFoundedOn(R, FiniteSubsetsOf(Nat))
  BY FS_StrictSubsetOrderingWellFounded
<1> HIDE DEF R, F
<1>3. PICK U \in F : \A V \in F : <<V, U>> \notin R
  BY <1>1, <1>2, WFMin
<1> USE DEF R, F
<1>4. PICK x \in T : U = 1 .. x
  BY <1>3
<1>5. ASSUME NEW y \in T, y < x PROVE FALSE
  <2>1. x \in 1 .. x /\ x \notin 1 .. y
    BY <1>5
  <2>2. 1 .. y \subseteq 1 .. x /\ 1 .. y # 1 .. x
    BY <1>5, <2>1
  <2>3. <<1 .. y, 1 .. x>> \in StrictSubsetOrdering(Nat)
    BY <2>2 DEF StrictSubsetOrdering
  <2> QED
    BY <1>3, <1>4, <2>3
<1> QED
  BY <1>5

\* A set of locks has a first and a last one in the order.
LEMMA FirstAndLast ==
  ASSUME NEW T \in SUBSET Lock, T # {}
  PROVE  /\ \E k \in T : \A j \in T : k <= j
         /\ \E k \in T : \A j \in T : j <= k
<1> USE LockFacts
<1>1. \E k \in T : \A j \in T : k <= j
  <2>1. T \in SUBSET Nat
    OBVIOUS
  <2> QED
    BY <2>1, Least
<1>2. \E k \in T : \A j \in T : j <= k
  <2> DEFINE U == {Intent - j : j \in T}
  <2>1. U \in SUBSET Nat /\ U # {}
    <3>1. \A j \in Lock : Intent - j \in Nat
      BY DEF Lock, Intent
    <3> QED
      BY <3>1
  <2> HIDE DEF U
  <2>2. PICK u \in U : \A v \in U : u <= v
    BY <2>1, Least
  <2>3. PICK k \in T : u = Intent - k
    BY DEF U
  <2>4. ASSUME NEW j \in T PROVE j <= k
    <3>1. u <= Intent - j
      BY <2>2 DEF U
    <3>2. j \in Nat /\ k \in Nat /\ Intent \in Nat
      BY DEF Intent
    <3> QED
      BY <2>3, <3>1, <3>2
  <2> QED
    BY <2>4
<1> QED
  BY <1>1, <1>2

\* The next lock of a command that still has to take some, and who holds it if
\* the command cannot go on.
LEMMA NextIsHeld ==
  ASSUME LocksInv, \A q \in Command : ~CanGo(q),
         NEW p \in Command, pc[p] = "take"
  PROVE  \E k \in todo[p], q \in Command : owner[k] = Main(q) /\ pc[q] # "idle"
<1> USE LockFacts DEF LocksInv
<1>1. todo[p] \in SUBSET Lock /\ todo[p] # {}
  BY DEF LocksTypeOK, CanGo
<1>2. PICK k \in todo[p] : \A j \in todo[p] : k <= j
  BY <1>1, FirstAndLast
<1>3. k \in Lock /\ NextLock(p, k)
  BY <1>1, <1>2 DEF NextLock
<1>4. owner[k] # Free /\ owner[k] \in Thread \cup {Free}
  BY <1>3 DEF CanGo, LocksTypeOK
<1>5. PICK q \in Command : owner[k] = Main(q) \/ owner[k] = Beat(q)
  BY <1>4
<1>6. owner[k] # Beat(q)
  BY <1>3 DEF WaitsInOrder, CanGo
<1>7. pc[q] # "idle"
  BY <1>3, <1>5, <1>6 DEF OwnedShape
<1> QED
  BY <1>5, <1>6, <1>7

\* Where a command is that runs and cannot go on.
LEMMA WaitingPoints ==
  ASSUME LocksInv, NEW p \in Command, ~CanGo(p), pc[p] # "idle"
  PROVE  \/ pc[p] = "take"
         \/ /\ pc[p] \in {"fence", "publish", "stop"}
            /\ owner[Registry] # Free
<1>1. pc[p] \in Points /\ beat[p] \in Beats
  BY DEF LocksInv, LocksTypeOK
<1>2. CASE pc[p] = "stop"
  <2>1. beat[p] # "off"
    BY <1>2 DEF LocksInv, CommandShape
  <2> QED
    BY <1>1, <1>2, <2>1 DEF CanGo, Beats
<1> QED
  BY <1>1, <1>2 DEF CanGo, Points

\* ARCHITECTURE.md's lock order does what it is for: with any number of commands
\* and lanes, some command that runs can always go on.
THEOREM NobodyIsStuck == Spec => []NobodyStuck
<1>1. LocksInv => NobodyStuck
  <2> SUFFICES ASSUME LocksInv, NEW p \in Command, pc[p] # "idle", \A q \in Command : ~CanGo(q)
               PROVE  FALSE
    BY DEF NobodyStuck
  <2> USE LockFacts
  <2> DEFINE T == {j \in Lock : \E q \in Command : owner[j] = Main(q) /\ pc[q] = "take"}
  <2> HIDE DEF T
  \* A command past "take" waits for the registry, which one at "take" holds.
  <2>1. ASSUME NEW q \in Command, pc[q] # "idle", pc[q] # "take"
        PROVE  Registry \in T
    <3>1. owner[Registry] # Free
      BY <2>1, WaitingPoints
    <3>2. PICK r \in Command : owner[Registry] = Main(r) \/ owner[Registry] = Beat(r)
      BY <3>1 DEF LocksInv, LocksTypeOK
    <3>3. owner[Registry] = Main(r)
      BY <3>2 DEF LocksInv, WaitsInOrder, CanGo
    <3>4. pc[r] # "idle"
      BY <3>3 DEF LocksInv, OwnedShape
    <3>5. pc[r] \notin {"fence", "publish", "stop"}
      BY <3>3 DEF LocksInv, WaitsInOrder, Registry
    <3>6. pc[r] = "take"
      BY <3>4, <3>5, WaitingPoints
    <3> QED
      BY <3>3, <3>6 DEF T
  \* The lock that a command at "take" waits for is held by one at "take", or
  \* the registry is and comes later.
  <2>2. ASSUME NEW q \in Command, pc[q] = "take"
        PROVE  \E k \in todo[q], m \in T : k <= m
    <3>1. PICK k \in todo[q], r \in Command : owner[k] = Main(r) /\ pc[r] # "idle"
      BY <2>2, NextIsHeld
    <3>2. k \in Lock
      BY <3>1 DEF LocksInv, LocksTypeOK
    <3>3. CASE pc[r] = "take"
      <4>1. k \in T /\ k <= k
        BY <3>1, <3>2, <3>3 DEF T
      <4> QED
        BY <4>1
    <3>4. CASE pc[r] # "take"
      <4>1. Registry \in T
        BY <2>1, <3>1, <3>4
      <4>2. k <= Registry
        BY <3>1, <3>2, <3>4 DEF LocksInv, OwnedShape
      <4> QED
        BY <4>1, <4>2
    <3> QED
      BY <3>3, <3>4
  <2>3. T # {} /\ T \in SUBSET Lock
    BY <2>1, <2>2 DEF T
  <2>4. PICK last \in T : \A j \in T : j <= last
    BY <2>3, FirstAndLast
  <2>5. PICK q \in Command : owner[last] = Main(q) /\ pc[q] = "take"
    BY <2>4 DEF T
  <2>6. PICK k \in todo[q], m \in T : k <= m
    BY <2>2, <2>5
  <2>7. last < k
    BY <2>3, <2>4, <2>5, <2>6 DEF LocksInv, WaitsInOrder
  <2>8. k \in Nat /\ m \in Nat /\ last \in Nat /\ m <= last
    BY <2>3, <2>4, <2>6 DEF LocksInv, LocksTypeOK
  <2> QED
    BY <2>6, <2>7, <2>8
<1> QED
  BY <1>1, LocksInvariant, PTL
=============================================================================
