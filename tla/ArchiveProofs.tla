---------------------------- MODULE ArchiveProofs ----------------------------
(***************************************************************************)
(* The properties of Archive for any number of commands, lanes, uses of a   *)
(* lane identifier, receipts and stops.  First facts about names and about  *)
(* the one command that holds archive.lock, then one lemma per step.        *)
(***************************************************************************)
EXTENDS Archive, TLAPS

(* Records and their names. *)

LEMMA RecordFacts ==
  /\ \A k \in Kind : \A l \in Lane : \A g \in 1..MaxGen :
       /\ Rec(k, l, g) \in Record
       /\ Rec(k, l, g).kind = k /\ Rec(k, l, g).lane = l /\ Rec(k, l, g).gen = g
  /\ \A x \in Record : /\ x = Rec(x.kind, x.lane, x.gen)
                       /\ x.kind \in Kind /\ x.lane \in Lane /\ x.gen \in 1..MaxGen
BY DEF Rec, Record, Kind

LEMMA NameFacts ==
  ASSUME NEW x \in Record, NEW y \in Record
  PROVE  /\ Name(x) \in FileName
         /\ Name(x).kind = x.kind /\ Name(x).lane = x.lane
         /\ x.kind = "lease" => Name(x).gen = x.gen
         /\ Name(x) = Name(y) => /\ x.kind = y.kind /\ x.lane = y.lane
                                 /\ x.kind = "lease" => x = y
                                 /\ x.gen = y.gen => x = y
<1>1. 0 \in 0..MaxGen /\ \A g \in 1..MaxGen : g \in 0..MaxGen
  BY ArchiveAssumption
<1>2. x.gen \in 1..MaxGen /\ x.kind \in Kind /\ x.lane \in Lane
  BY RecordFacts
<1>3. Name(x) \in FileName
  BY <1>1, <1>2 DEF Name, FileName
<1>4. /\ Name(x).kind = x.kind /\ Name(x).lane = x.lane /\ (x.kind = "lease" => Name(x).gen = x.gen)
      /\ Name(y).kind = y.kind /\ Name(y).lane = y.lane /\ (y.kind = "lease" => Name(y).gen = y.gen)
  BY DEF Name
<1>5. x = Rec(x.kind, x.lane, x.gen) /\ y = Rec(y.kind, y.lane, y.gen)
  BY RecordFacts
<1>. QED BY <1>3, <1>4, <1>5

\* Two manifests of a lane have one name.
LEMMA ManifestFacts ==
  ASSUME NEW l \in Lane, NEW g \in 1..MaxGen, NEW h \in 1..MaxGen
  PROVE  /\ Manifest(l, g) \in Record /\ Manifest(l, g).kind = "lane"
         /\ Manifest(l, g).lane = l /\ Manifest(l, g).gen = g
         /\ Name(Manifest(l, g)) = Name(Manifest(l, h))
         /\ Manifest(l, g) = Manifest(l, h) => g = h
<1>1. "lane" \in Kind
  BY DEF Kind
<1>2. /\ Manifest(l, g) \in Record /\ Manifest(l, g).kind = "lane"
      /\ Manifest(l, g).lane = l /\ Manifest(l, g).gen = g
      /\ Manifest(l, h).kind = "lane" /\ Manifest(l, h).lane = l /\ Manifest(l, h).gen = h
  BY <1>1, RecordFacts DEF Manifest
<1>. QED BY <1>2 DEF Name

LEMMA LaneTypes ==
  ASSUME TypeOK, NEW l \in Lane
  PROVE  /\ lanes[l] \in Seq(Generation) /\ Len(lanes[l]) \in Nat /\ Len(lanes[l]) <= MaxGen
         /\ DOMAIN lanes[l] = 1..Len(lanes[l]) /\ MaxGen \in Nat
         /\ \A g \in DOMAIN lanes[l] :
              /\ g \in 1..MaxGen /\ lanes[l][g] \in Generation
              /\ lanes[l][g].has \subseteq {"lease", "profile"}
              /\ lanes[l][g].state \in {"active"} \cup Closed
<1>1. lanes[l] \in Seq(Generation) /\ Len(lanes[l]) <= MaxGen /\ MaxGen \in Nat
  BY ArchiveAssumption DEF TypeOK
<1>2. Len(lanes[l]) \in Nat /\ DOMAIN lanes[l] = 1..Len(lanes[l])
  BY <1>1
<1>3. ASSUME NEW g \in DOMAIN lanes[l] PROVE g \in 1..MaxGen /\ lanes[l][g] \in Generation
  BY <1>1, <1>2, <1>3
<1>. QED BY <1>1, <1>2, <1>3 DEF Generation
-----------------------------------------------------------------------------
(* The command that holds archive.lock and its receipt. *)

Working == {"check", "move", "relock", "back"}
Job == [plan : Plan, todo : SUBSET FileName, free : SUBSET FileName]

LEMMA AtReceipt ==
  ASSUME TypeOK, AllAtWork, NEW p \in Proc, pc[p] \in Working
  PROVE  /\ Receipt(p) \in receipts /\ Receipt(p) \in ReceiptRecord
         /\ PlanOf(Receipt(p)) = job[p].plan
         /\ Receipt(p).files = job[p].plan.files /\ Receipt(p).candidates = job[p].plan.candidates
         /\ job[p].todo \subseteq Receipt(p).files
         /\ archiveLock = p
         /\ \A q \in Proc \ {p} : pc[q] \notin Working
<1>1. /\ archiveLock = p /\ job[p].todo \subseteq job[p].plan.files
      /\ \E r \in receipts : PlanOf(r) = job[p].plan
  BY DEF AllAtWork, AtWork, Working
<1>2. \A q \in Proc : pc[q] \in Working => archiveLock = q
  BY DEF AllAtWork, AtWork, Working
<1>3. Receipt(p) \in receipts /\ PlanOf(Receipt(p)) = job[p].plan
  BY <1>1 DEF Receipt
<1>4. Receipt(p) \in ReceiptRecord
  BY <1>3 DEF TypeOK
<1>. QED BY <1>1, <1>2, <1>3, <1>4 DEF PlanOf

\* A write of the receipt replaces it by one of the same plan.
LEMMA Saved ==
  ASSUME TypeOK, AllAtWork, NEW p \in Proc, pc[p] \in Working,
         NEW new, PlanOf(new) = PlanOf(Receipt(p)), Save(Receipt(p), new)
  PROVE  /\ new \in receipts'
         /\ \A s \in receipts' : s = new \/ (s \in receipts /\ s # Receipt(p))
         /\ \A s \in receipts : s = Receipt(p) \/ s \in receipts'
         /\ \A s, t \in receipts' : PlanOf(s) = PlanOf(t) => s = t
         /\ job'[p].plan = job[p].plan => Receipt(p)' = new
<1>1. Receipt(p) \in receipts /\ PlanOf(Receipt(p)) = job[p].plan
  BY AtReceipt
<1>2. receipts' = (receipts \ {Receipt(p)}) \cup {new}
  BY DEF Save
<1>3. \A s, t \in receipts : PlanOf(s) = PlanOf(t) => s = t
  BY DEF TypeOK
<1>4. \A s, t \in receipts' : PlanOf(s) = PlanOf(t) => s = t
  BY <1>1, <1>2, <1>3
<1>5. new \in receipts' /\ PlanOf(new) = job[p].plan
  BY <1>1, <1>2
<1>6. job'[p].plan = job[p].plan => Receipt(p)' = new
  BY <1>4, <1>5 DEF Receipt
<1>. QED BY <1>2, <1>4, <1>5, <1>6

\* What is true of a command at work as long as its records are left alone.
LEMMA AtWorkKept ==
  ASSUME NEW q \in Proc, AtWork(q), pc'[q] = pc[q], job'[q] = job[q],
         pc[q] \in Working => archiveLock' = archiveLock,
         live' = live, receipts' = receipts
  PROVE  AtWork(q)'
<1>1. Receipt(q)' = Receipt(q)
  BY DEF Receipt
<1>. QED BY <1>1 DEF AtWork, IsNext, HasManifests, In, IsLive, Working

\* Steps of one command that leave the records alone, or that save its receipt:
\* the others are not at work.
LEMMA AtWorkOthers ==
  ASSUME TypeOK, AllAtWork, NEW p \in Proc, pc[p] \in Working,
         \A q \in Proc \ {p} : pc'[q] = pc[q] /\ job'[q] = job[q], AtWork(p)'
  PROVE  AllAtWork'
<1>1. \A q \in Proc \ {p} : pc'[q] \notin Working /\ job'[q].free = {}
  BY AtReceipt DEF AllAtWork, AtWork, Working
<1>2. \A q \in Proc \ {p} : AtWork(q)'
  BY <1>1 DEF AtWork, Working
<1>. QED BY <1>2 DEF AllAtWork

\* Ending gives archive.lock back.
LEMMA Ended ==
  ASSUME TypeOK, AllAtWork, NEW p \in Proc, End(p)
  PROVE  /\ pc' \in [Proc -> Points] /\ pc'[p] = "idle"
         /\ job' \in [Proc -> Job]
         /\ archiveLock' \in Proc \cup {Free}
         /\ \A q \in Proc \ {p} : /\ pc'[q] = pc[q] /\ job'[q] = job[q]
                                  /\ pc[q] \in Working => archiveLock' = archiveLock
         /\ AtWork(p)'
<1>1. pc' = [pc EXCEPT ![p] = "idle"] /\ job' = [job EXCEPT ![p] = Idle]
      /\ archiveLock' = IF archiveLock = p THEN Free ELSE archiveLock
  BY DEF End, Goto
<1>2. Idle \in Job /\ Idle.free = {}
  BY DEF Idle, NoPlan, Plan, Job
<1>3. pc' \in [Proc -> Points] /\ job' \in [Proc -> Job]
  BY <1>1, <1>2 DEF TypeOK, Points, Job
<1>4. \A q \in Proc \ {p} : pc[q] \in Working => archiveLock = q
  BY DEF AllAtWork, AtWork, Working
<1>5. pc'[p] = "idle" /\ job'[p].free = {}
  BY <1>1, <1>2 DEF TypeOK
<1>6. AtWork(p)'
  BY <1>5 DEF AtWork
<1>. QED BY <1>1, <1>3, <1>4, <1>5, <1>6 DEF TypeOK

\* The records of the invariant, which only few steps touch.
RecordsInv ==
  RecordsKept /\ OnlyWritten /\ ActiveIsLive /\ PlansAreExact /\ NoOrphans /\ CompleteIsStored

LEMMA RecordsUntouched ==
  ASSUME RecordsInv, UNCHANGED <<lanes, live, receipts>>
  PROVE  RecordsInv'
<1>1. Written' = Written
  BY DEF Written
<1>2. RecordsKept' /\ OnlyWritten'
  BY <1>1 DEF RecordsInv, RecordsKept, OnlyWritten, IsLive
<1>3. ActiveIsLive' /\ PlansAreExact'
  BY DEF RecordsInv, ActiveIsLive, PlansAreExact, PlanIsExact
<1>4. NoOrphans' /\ CompleteIsStored'
  BY DEF RecordsInv, NoOrphans, CompleteIsStored
<1>. QED BY <1>2, <1>3, <1>4 DEF RecordsInv

\* Written records and the manifests of candidates, in terms of their fields.
LEMMA WrittenFacts ==
  /\ Written \subseteq Record
  /\ \A x \in Record : x \in Written <=>
       x.gen \in DOMAIN lanes[x.lane] /\ x.kind \in {"lane"} \cup lanes[x.lane][x.gen].has
BY DEF Written

LEMMA CandidateTypes ==
  ASSUME TypeOK, NEW r \in receipts
  PROVE  /\ r \in ReceiptRecord /\ r.files \subseteq FileName /\ r.stored \subseteq Record
         /\ r.candidates \subseteq CandidateRecord /\ r.state \in ReceiptState
         /\ \A c \in r.candidates : /\ c.lane \in Lane /\ c.gen \in 1..MaxGen
                                    /\ Manifest(c.lane, c.gen) \in Record
                                    /\ Manifest(c.lane, c.gen).kind = "lane"
                                    /\ Manifest(c.lane, c.gen).lane = c.lane
                                    /\ Manifest(c.lane, c.gen).gen = c.gen
<1>1. r \in ReceiptRecord
  BY DEF TypeOK
<1>2. r.candidates \subseteq CandidateRecord /\ r.files \subseteq FileName /\ r.stored \subseteq Record
      /\ r.state \in ReceiptState
  BY <1>1 DEF ReceiptRecord
<1>3. \A c \in r.candidates : c.lane \in Lane /\ c.gen \in 1..MaxGen
  BY <1>2 DEF CandidateRecord
<1>. QED BY <1>1, <1>2, <1>3, ManifestFacts

\* The files of a receipt name the manifest and the leases of each candidate.
LEMMA PlanNames ==
  ASSUME TypeOK, NEW r \in receipts, PlanIsExact(r), NEW c \in r.candidates
  PROVE  /\ c.gen \in DOMAIN lanes[c.lane] /\ lanes[c.lane][c.gen].state \in Closed
         /\ Name(Manifest(c.lane, c.gen)) \in r.files
         /\ "lease" \in lanes[c.lane][c.gen].has => Name(Rec("lease", c.lane, c.gen)) \in r.files
<1>1. Manifest(c.lane, c.gen) \in RecordsOf(c.lane, c.gen, lanes[c.lane][c.gen].has \ {"profile"})
  BY DEF Manifest, RecordsOf
<1>2. "lease" \in lanes[c.lane][c.gen].has =>
        Rec("lease", c.lane, c.gen) \in RecordsOf(c.lane, c.gen, lanes[c.lane][c.gen].has \ {"profile"})
  BY DEF RecordsOf
<1>. QED BY <1>1, <1>2 DEF PlanIsExact, Names

\* No manifest or lease of a receipt is on both sides or on none.
Sided(r) == \A n \in r.files : n.kind # "profile" => IsLive(n) # In(n, r.stored)

\* A manifest that is live under the name of a candidate is that of the
\* candidate, if the receipt is sided.
LEMMA ManifestIsOurs ==
  ASSUME TypeOK, RecordsInv, NEW r \in receipts, Sided(r), HasManifests(r),
         NEW c \in r.candidates, NEW m \in live, m.kind = "lane", m.lane = c.lane
  PROVE  m = Manifest(c.lane, c.gen)
<1>1. m \in Record /\ m.gen \in 1..MaxGen /\ m = Manifest(m.lane, m.gen)
  BY RecordFacts DEF TypeOK, Manifest
<1>2. Name(m) = Name(Manifest(c.lane, c.gen))
  BY <1>1, ManifestFacts, CandidateTypes
<1>3. Name(m) \in r.files
  BY <1>2, PlanNames DEF RecordsInv, PlansAreExact
<1>4. Manifest(c.lane, c.gen) \notin r.stored
  <2>1. Name(m).kind = "lane"
    BY <1>1, NameFacts
  <2>. QED BY <1>2, <1>3, <2>1 DEF Sided, IsLive, In, Names
<1>5. Manifest(c.lane, c.gen) \in live
  BY <1>4 DEF HasManifests
<1>. QED BY <1>2, <1>5 DEF RecordsInv, RecordsKept

\* What a checked receipt names and is live belongs to closed lanes.
LEMMA NamedIsClosed ==
  ASSUME TypeOK, RecordsInv, NEW r \in receipts, Sided(r), HasManifests(r),
         NEW x \in live, Name(x) \in r.files
  PROVE  lanes[x.lane][x.gen].state \in Closed
<1>1. x \in Record /\ x.lane \in Lane /\ x.gen \in DOMAIN lanes[x.lane]
  BY RecordFacts DEF RecordsInv, OnlyWritten, Written
<1>2. PICK c \in r.candidates : Name(x).lane = c.lane
  BY DEF RecordsInv, PlansAreExact, PlanIsExact
<1>3. c.lane = x.lane
  BY <1>1, <1>2, NameFacts
<1>4. lanes[c.lane][c.gen].state \in Closed
  BY PlanNames DEF RecordsInv, PlansAreExact
<1>5. CASE lanes[x.lane][x.gen].state = "active"
  <2>1. Manifest(x.lane, x.gen) \in live
    BY <1>1, <1>5 DEF RecordsInv, ActiveIsLive
  <2>2. x.gen \in 1..MaxGen
    BY <1>1, RecordFacts
  <2>3. Manifest(x.lane, x.gen).kind = "lane" /\ Manifest(x.lane, x.gen).lane = x.lane
        /\ Manifest(x.lane, x.gen).gen = x.gen
    BY <1>1, <2>2, ManifestFacts
  <2>4. Manifest(x.lane, x.gen) = Manifest(c.lane, c.gen)
    BY <1>3, <2>1, <2>3, ManifestIsOurs
  <2>5. c.gen = x.gen
    BY <1>3, <2>3, <2>4, CandidateTypes
  <2>. QED BY <1>3, <1>4, <2>5
<1>. QED BY <1>1, <1>5, LaneTypes
-----------------------------------------------------------------------------
(* Steps that write a receipt. *)

\* A rename into the batch.
LEMMA MoveStep ==
  ASSUME TypeOK, RecordsInv, AllAtWork, NEW p \in Proc, NEW n \in job[p].todo, Move(p, n)
  PROVE  RecordsInv' /\ AllAtWork'
<1>. DEFINE r == Receipt(p)
            S == {x \in live : Name(x) = n}
            new == [r EXCEPT !.stored = @ \cup S]
<1>1. /\ pc[p] = "move" /\ IsNext(p, n) /\ (IsLive(n) # In(n, r.stored))
      /\ live' = live \ S /\ Save(r, new)
      /\ job' = [job EXCEPT ![p].todo = @ \ {n}, ![p].free = {}]
      /\ UNCHANGED <<pc, archiveLock, lanes>>
  BY DEF Move, Did, Quiet
<1>2. pc[p] \in Working
  BY <1>1 DEF Working
<1>3. /\ r \in receipts /\ r \in ReceiptRecord /\ n \in r.files /\ job[p].todo \subseteq r.files
      /\ archiveLock = p /\ PlanOf(r) = job[p].plan
  BY <1>2, AtReceipt
<1>4. /\ Sided(r) /\ HasManifests(r) /\ r.state \in {"prepared", "complete"}
      /\ r.files \ job[p].todo \subseteq Names(r.stored)
  BY <1>1 DEF AllAtWork, AtWork, Sided
<1>5. /\ new.stored = r.stored \cup S /\ new.state = r.state /\ new.files = r.files
      /\ new.candidates = r.candidates /\ PlanOf(new) = PlanOf(r)
  BY <1>3 DEF ReceiptRecord, PlanOf
<1>6. job'[p].plan = job[p].plan /\ job'[p].todo = job[p].todo \ {n} /\ job'[p].free = {}
  BY <1>1 DEF TypeOK
<1>. HIDE DEF new
<1>7. /\ new \in receipts'
      /\ \A s \in receipts' : s = new \/ (s \in receipts /\ s # r)
      /\ \A s \in receipts : s = r \/ s \in receipts'
      /\ Receipt(p)' = new
  BY <1>1, <1>2, <1>5, <1>6, Saved
<1>8. S = {} \/ n \notin Names(r.stored)
  BY <1>1 DEF IsLive, In, Names
<1>9. Written' = Written /\ live \subseteq Record /\ r.stored \subseteq Record
  BY <1>1, <1>3, CandidateTypes DEF Written, TypeOK
<1>10. RecordsKept'
  <2>1. ASSUME NEW x \in Written, x.kind # "profile"
        PROVE  /\ (x \in live') # (\E s \in receipts' : x \in s.stored)
               /\ \A s, t \in receipts' : x \in s.stored \cap t.stored => s = t
    <3>1. /\ (x \in live) # (\E s \in receipts : x \in s.stored)
          /\ \A s, t \in receipts : x \in s.stored \cap t.stored => s = t
      BY <2>1 DEF RecordsInv, RecordsKept
    <3>2. CASE x \in S
      BY <1>1, <1>5, <1>7, <3>1, <3>2
    <3>3. CASE x \notin S
      <4>1. x \in live' <=> x \in live
        BY <1>1, <3>3
      <4>2. x \in new.stored <=> x \in r.stored
        BY <1>5, <3>3
      <4>3. (\E s \in receipts' : x \in s.stored) <=> (\E s \in receipts : x \in s.stored)
        BY <1>3, <1>7, <4>2
      <4>4. ASSUME NEW s \in receipts', NEW t \in receipts', x \in s.stored, x \in t.stored PROVE s = t
        BY <1>3, <1>7, <3>1, <4>2, <4>4
      <4>5. (x \in live') # (\E s \in receipts' : x \in s.stored)
        <5>1. (x \in live) = (x \in live')
          BY <4>1
        <5>2. (\E s \in receipts' : x \in s.stored) = (\E s \in receipts : x \in s.stored)
          BY <4>3
        <5>. QED BY <3>1, <5>1, <5>2, Zenon
      <4>. QED BY <4>4, <4>5
    <3>. QED BY <3>2, <3>3
  <2>2. \A x, y \in live' : Name(x) = Name(y) => x = y
    BY <1>1 DEF RecordsInv, RecordsKept
  <2>5. ASSUME NEW x \in Written, x.kind = "profile"
        PROVE  In(Name(x), live') \/ \E s \in receipts' : In(Name(x), s.stored)
    <3>1. CASE IsLive(Name(x))
      <4>1. PICK y \in live : Name(y) = Name(x)
        BY <3>1 DEF IsLive, In, Names
      <4>2. y \in live' \/ y \in new.stored
        BY <1>1, <1>5
      <4>. QED BY <1>7, <4>1, <4>2 DEF In, Names
    <3>2. CASE \E s \in receipts : In(Name(x), s.stored)
      <4>1. r.stored \subseteq new.stored
        BY <1>5
      <4>. QED BY <1>7, <3>2, <4>1 DEF In, Names
    <3>. QED BY <2>5, <3>1, <3>2 DEF RecordsInv, RecordsKept
  <2>3. \A x, y \in new.stored : Name(x) = Name(y) => x = y
    <3>1. \A x, y \in live : Name(x) = Name(y) => x = y
      BY DEF RecordsInv, RecordsKept
    <3>2. \A x, y \in r.stored : Name(x) = Name(y) => x = y
      BY <1>3 DEF RecordsInv, RecordsKept
    <3>3. \A x \in r.stored : S = {} \/ Name(x) # n
      BY <1>8 DEF Names
    <3>. QED BY <1>5, <3>1, <3>2, <3>3
  <2>4. \A s \in receipts' : \A x, y \in s.stored : Name(x) = Name(y) => x = y
    BY <1>7, <2>3 DEF RecordsInv, RecordsKept
  <2>. QED BY <1>9, <2>1, <2>2, <2>4, <2>5 DEF RecordsKept, IsLive
<1>11. OnlyWritten'
  <2>1. live' \subseteq Written
    BY <1>1 DEF RecordsInv, OnlyWritten
  <2>2. new.stored \subseteq Written /\ Names(new.stored) \subseteq new.files
    BY <1>3, <1>5 DEF RecordsInv, OnlyWritten, Names
  <2>. QED BY <1>7, <1>9, <2>1, <2>2 DEF RecordsInv, OnlyWritten
<1>12. ActiveIsLive'
  <2>. SUFFICES ASSUME NEW l \in Lane, NEW g \in DOMAIN lanes[l], lanes[l][g].state = "active",
                       Manifest(l, g) \in S
                PROVE  FALSE
    BY <1>1 DEF RecordsInv, ActiveIsLive
  <2>1. lanes[Manifest(l, g).lane][Manifest(l, g).gen].state \in Closed
    BY <1>3, <1>4, NamedIsClosed
  <2>2. Manifest(l, g).lane = l /\ Manifest(l, g).gen = g
    BY LaneTypes, ManifestFacts
  <2>. QED BY <2>1, <2>2 DEF Closed
<1>13. PlansAreExact'
  <2>1. PlanIsExact(r) => PlanIsExact(new)
    BY <1>5 DEF PlanIsExact
  <2>2. \A s : PlanIsExact(s)' <=> PlanIsExact(s)
    BY <1>1 DEF PlanIsExact
  <2>. QED BY <1>3, <1>7, <2>1, <2>2 DEF RecordsInv, PlansAreExact
<1>14. NoOrphans'
  <2>. SUFFICES ASSUME NEW y \in live', y.kind = "lease", Manifest(y.lane, y.gen) \notin live'
                PROVE  \E s \in receipts' : /\ s.state = "restoring"
                                            /\ \E c \in s.candidates : c.lane = y.lane /\ c.gen = y.gen
    BY DEF NoOrphans
  <2>1. y \in live /\ y \in Record /\ y \notin S
    BY <1>1, <1>9
  <2>2. CASE \E s \in receipts : /\ s.state = "restoring"
                                 /\ \E c \in s.candidates : c.lane = y.lane /\ c.gen = y.gen
    BY <1>4, <1>7, <2>2
  <2>3. CASE Manifest(y.lane, y.gen) \in S
    <3>. DEFINE m == Manifest(y.lane, y.gen)
    <3>1. m \in live /\ Name(m) = n /\ m.kind = "lane" /\ m.lane = y.lane /\ m.gen = y.gen /\ m \in Record
      BY <2>1, <2>3, RecordFacts, ManifestFacts
    <3>2. Name(m).lane = y.lane /\ Name(m).kind = "lane"
      BY <3>1, NameFacts
    <3>3. PICK c \in r.candidates : c.lane = y.lane
      BY <1>3, <3>1, <3>2 DEF RecordsInv, PlansAreExact, PlanIsExact
    <3>4. m = Manifest(c.lane, c.gen)
      BY <1>3, <1>4, <3>1, <3>3, ManifestIsOurs
    <3>5. c.gen = y.gen
      BY <1>3, <3>1, <3>4, CandidateTypes
    <3>6. "lease" \in lanes[y.lane][y.gen].has
      BY <2>1 DEF RecordsInv, OnlyWritten, Written
    <3>7. Name(y) \in r.files
      BY <1>3, <2>1, <3>3, <3>5, <3>6, PlanNames, RecordFacts DEF RecordsInv, PlansAreExact
    <3>8. Name(y) \notin job[p].todo
      BY <1>1, <2>1, <3>1, <3>2, NameFacts DEF IsNext
    <3>9. PICK z \in r.stored : Name(z) = Name(y)
      BY <1>4, <3>7, <3>8 DEF Names
    <3>10. z = y
      BY <1>9, <2>1, <3>9, NameFacts
    <3>. QED BY <1>3, <2>1, <3>9, <3>10 DEF RecordsInv, RecordsKept, OnlyWritten
  <2>. QED BY <1>1, <2>1, <2>2, <2>3 DEF RecordsInv, NoOrphans
<1>15. CompleteIsStored'
  <2>1. ASSUME r.state = "complete" PROVE new.stored = r.stored
    <3>1. n \in Names(r.stored)
      BY <1>3, <2>1 DEF RecordsInv, CompleteIsStored
    <3>. QED BY <1>5, <1>8, <3>1
  <2>2. \A l : lanes'[l] = lanes[l]
    BY <1>1
  <2>. QED BY <1>3, <1>5, <1>7, <2>1, <2>2 DEF RecordsInv, CompleteIsStored
<1>16. AtWork(p)'
  <2>1. job'[p].todo \subseteq job'[p].plan.files
    BY <1>3, <1>6 DEF AllAtWork, AtWork, PlanOf
  <2>2. PlanOf(new) = job'[p].plan
    BY <1>3, <1>5, <1>6
  <2>3. \A m \in r.files : m # n => (m \in Names(live') <=> m \in Names(live))
                                    /\ (m \in Names(new.stored) <=> m \in Names(r.stored))
    BY <1>1, <1>5 DEF Names
  <2>4. n \notin Names(live') /\ n \in Names(new.stored)
    BY <1>1, <1>5 DEF IsLive, In, Names
  <2>5. \A m \in new.files : m.kind # "profile" => (m \in Names(live')) # (m \in Names(new.stored))
    BY <1>4, <1>5, <2>3, <2>4 DEF Sided, IsLive, In
  <2>6. \A c \in new.candidates : Manifest(c.lane, c.gen) \in live' \cup new.stored
    BY <1>1, <1>4, <1>5 DEF HasManifests
  <2>7. new.files \ job'[p].todo \subseteq Names(new.stored)
    BY <1>4, <1>5, <1>6, <2>3, <2>4
  <2>. QED BY <1>1, <1>3, <1>4, <1>5, <1>6, <1>7, <2>1, <2>2, <2>5, <2>6, <2>7
       DEF AtWork, HasManifests, IsLive, In
<1>17. AllAtWork'
  BY <1>1, <1>2, <1>16, AtWorkOthers DEF TypeOK
<1>. QED BY <1>10, <1>11, <1>12, <1>13, <1>14, <1>15, <1>17 DEF RecordsInv

\* A change of the receipt's state alone.
LEMMA StateSaved ==
  ASSUME TypeOK, RecordsInv, AllAtWork, NEW p \in Proc, pc[p] \in Working, NEW st \in ReceiptState,
         NEW new, new = [Receipt(p) EXCEPT !.state = st], Save(Receipt(p), new),
         UNCHANGED <<live, lanes>>
  PROVE  /\ PlanOf(new) = PlanOf(Receipt(p))
         /\ new.stored = Receipt(p).stored /\ new.state = st
         /\ new.files = Receipt(p).files /\ new.candidates = Receipt(p).candidates
         /\ new \in receipts' /\ \A s \in receipts' : s = new \/ (s \in receipts /\ s # Receipt(p))
         /\ \A s \in receipts : s = Receipt(p) \/ s \in receipts'
         /\ job'[p].plan = job[p].plan => Receipt(p)' = new
         /\ RecordsKept' /\ OnlyWritten' /\ ActiveIsLive' /\ PlansAreExact'
<1>. DEFINE r == Receipt(p)
<1>1. r \in receipts /\ r \in ReceiptRecord
  BY AtReceipt
<1>2. /\ new.stored = r.stored /\ new.state = st /\ new.files = r.files
      /\ new.candidates = r.candidates /\ PlanOf(new) = PlanOf(r)
  BY <1>1 DEF ReceiptRecord, PlanOf
<1>3. /\ new \in receipts'
      /\ \A s \in receipts' : s = new \/ (s \in receipts /\ s # r)
      /\ \A s \in receipts : s = r \/ s \in receipts'
      /\ job'[p].plan = job[p].plan => Receipt(p)' = new
  BY <1>2, Saved
<1>. HIDE DEF r
<1>4. Written' = Written
  BY DEF Written
<1>5. RecordsKept'
  <2>1. ASSUME NEW x \in Written, x.kind # "profile"
        PROVE  /\ (x \in live') # (\E s \in receipts' : x \in s.stored)
               /\ \A s, t \in receipts' : x \in s.stored \cap t.stored => s = t
    <3>1. /\ (x \in live) # (\E s \in receipts : x \in s.stored)
          /\ \A s, t \in receipts : x \in s.stored \cap t.stored => s = t
      BY <2>1 DEF RecordsInv, RecordsKept
    <3>2. (\E s \in receipts' : x \in s.stored) <=> (\E s \in receipts : x \in s.stored)
      BY <1>1, <1>2, <1>3
    <3>3. ASSUME NEW s \in receipts', NEW t \in receipts', x \in s.stored, x \in t.stored PROVE s = t
      BY <1>1, <1>2, <1>3, <3>1, <3>3
    <3>. QED BY <3>1, <3>2, <3>3
  <2>4. ASSUME NEW x \in Written, x.kind = "profile"
        PROVE  In(Name(x), live') \/ \E s \in receipts' : In(Name(x), s.stored)
    <3>1. In(Name(x), live) \/ \E s \in receipts : In(Name(x), s.stored)
      BY <2>4 DEF RecordsInv, RecordsKept, IsLive
    <3>. QED BY <1>2, <1>3, <3>1
  <2>2. \A s \in receipts' : \A x, y \in s.stored : Name(x) = Name(y) => x = y
    BY <1>1, <1>2, <1>3 DEF RecordsInv, RecordsKept
  <2>3. \A x, y \in live' : Name(x) = Name(y) => x = y
    BY DEF RecordsInv, RecordsKept
  <2>. QED BY <1>4, <2>1, <2>2, <2>3, <2>4 DEF RecordsKept, IsLive
<1>6. OnlyWritten'
  BY <1>1, <1>2, <1>3, <1>4 DEF RecordsInv, OnlyWritten
<1>7. ActiveIsLive'
  BY DEF RecordsInv, ActiveIsLive
<1>8. PlansAreExact'
  <2>1. PlanIsExact(r) => PlanIsExact(new)
    BY <1>2 DEF PlanIsExact
  <2>2. \A s : PlanIsExact(s)' <=> PlanIsExact(s)
    BY DEF PlanIsExact
  <2>. QED BY <1>1, <1>3, <2>1, <2>2 DEF RecordsInv, PlansAreExact
<1>. QED BY <1>2, <1>3, <1>5, <1>6, <1>7, <1>8 DEF r

\* Every file has been moved.
LEMMA CompleteStep ==
  ASSUME TypeOK, RecordsInv, AllAtWork, NEW p \in Proc, Complete(p)
  PROVE  RecordsInv' /\ AllAtWork'
<1>. DEFINE r == Receipt(p)
            new == [r EXCEPT !.state = "complete"]
<1>1. pc[p] = "move" /\ job[p].todo = {} /\ Save(r, new) /\ End(p) /\ UNCHANGED <<live, lanes>>
  BY DEF Complete, Quiet
<1>2. pc[p] \in Working /\ "complete" \in ReceiptState
  BY <1>1 DEF Working, ReceiptState
<1>3. /\ r \in receipts /\ Sided(r) /\ HasManifests(r) /\ r.files \subseteq Names(r.stored)
      /\ r.state \in {"prepared", "complete"}
  BY <1>1, <1>2, AtReceipt DEF AllAtWork, AtWork, Sided
<1>4. /\ new.stored = r.stored /\ new.state = "complete" /\ new.files = r.files
      /\ new.candidates = r.candidates
      /\ new \in receipts' /\ \A s \in receipts' : s = new \/ (s \in receipts /\ s # r)
      /\ \A s \in receipts : s = r \/ s \in receipts'
      /\ RecordsKept' /\ OnlyWritten' /\ ActiveIsLive' /\ PlansAreExact'
  BY <1>1, <1>2, StateSaved
<1>. HIDE DEF new
<1>5. NoOrphans'
  BY <1>1, <1>3, <1>4 DEF RecordsInv, NoOrphans
<1>6. ASSUME NEW c \in r.candidates
      PROVE  RecordsOf(c.lane, c.gen, lanes[c.lane][c.gen].has \ {"profile"}) \subseteq r.stored
  <2>1. /\ c.lane \in Lane /\ c.gen \in 1..MaxGen /\ Manifest(c.lane, c.gen) \in Record
        /\ r.stored \subseteq Record
    BY <1>3, CandidateTypes
  <2>2. /\ c.gen \in DOMAIN lanes[c.lane] /\ Name(Manifest(c.lane, c.gen)) \in r.files
        /\ "lease" \in lanes[c.lane][c.gen].has => Name(Rec("lease", c.lane, c.gen)) \in r.files
    BY <1>3, PlanNames DEF RecordsInv, PlansAreExact
  <2>3. Manifest(c.lane, c.gen) \in r.stored
    <3>1. ~IsLive(Name(Manifest(c.lane, c.gen)))
      BY <1>3, <2>1, <2>2, NameFacts, CandidateTypes DEF Sided, In
    <3>. QED BY <1>3, <3>1 DEF HasManifests, IsLive, In, Names
  <2>4. ASSUME "lease" \in lanes[c.lane][c.gen].has PROVE Rec("lease", c.lane, c.gen) \in r.stored
    <3>1. PICK z \in r.stored : Name(z) = Name(Rec("lease", c.lane, c.gen))
      BY <1>3, <2>2, <2>4 DEF Names
    <3>2. Rec("lease", c.lane, c.gen) \in Record /\ Rec("lease", c.lane, c.gen).kind = "lease"
      BY <2>1, RecordFacts DEF Kind
    <3>. QED BY <2>1, <3>1, <3>2, NameFacts
  <2>5. lanes[c.lane][c.gen].has \subseteq {"lease", "profile"}
    BY <2>1, <2>2, LaneTypes
  <2>. QED BY <2>3, <2>4, <2>5 DEF RecordsOf, Manifest
<1>7. CompleteIsStored'
  <2>1. Names(r.stored) = r.files
    BY <1>3 DEF RecordsInv, OnlyWritten
  <2>. QED BY <1>1, <1>4, <1>6, <2>1 DEF RecordsInv, CompleteIsStored
<1>8. AllAtWork'
  BY <1>1, <1>2, Ended, AtWorkOthers
<1>. QED BY <1>4, <1>5, <1>7, <1>8 DEF RecordsInv

\* The durable announcement of a restore.
LEMMA RelockStep ==
  ASSUME TypeOK, RecordsInv, AllAtWork, NEW p \in Proc, Relock(p)
  PROVE  RecordsInv' /\ AllAtWork'
<1>. DEFINE r == Receipt(p)
            new == [r EXCEPT !.state = "restoring"]
<1>1. pc[p] = "relock" /\ pc' = [pc EXCEPT ![p] = "back"] /\ Save(r, new)
      /\ UNCHANGED <<live, lanes, archiveLock, job>>
  BY DEF Relock, Quiet, Goto
<1>2. pc[p] \in Working /\ "restoring" \in ReceiptState
  BY <1>1 DEF Working, ReceiptState
<1>3. /\ r \in receipts /\ r.files = job[p].plan.files /\ archiveLock = p
      /\ PlanOf(r) = job[p].plan
  BY <1>2, AtReceipt
<1>4. HasManifests(r) /\ job[p].todo = r.files /\ job[p].free = {}
  BY <1>1, <1>3 DEF AllAtWork, AtWork
<1>5. /\ new.stored = r.stored /\ new.state = "restoring" /\ new.files = r.files
      /\ new.candidates = r.candidates /\ PlanOf(new) = PlanOf(r)
      /\ new \in receipts' /\ \A s \in receipts' : s = new \/ (s \in receipts /\ s # r)
      /\ \A s \in receipts : s = r \/ s \in receipts'
      /\ RecordsKept' /\ OnlyWritten' /\ ActiveIsLive' /\ PlansAreExact'
      /\ Receipt(p)' = new
  BY <1>1, <1>2, StateSaved
<1>. HIDE DEF new
<1>6. NoOrphans'
  <2>. SUFFICES ASSUME NEW y \in live, y.kind = "lease", Manifest(y.lane, y.gen) \notin live
                PROVE  \E s \in receipts' : /\ s.state = "restoring"
                                            /\ \E c \in s.candidates : c.lane = y.lane /\ c.gen = y.gen
    BY <1>1 DEF NoOrphans
  <2>1. PICK s \in receipts : /\ s.state = "restoring"
                              /\ \E c \in s.candidates : c.lane = y.lane /\ c.gen = y.gen
    BY DEF RecordsInv, NoOrphans
  <2>. QED BY <1>5, <2>1
<1>7. CompleteIsStored'
  BY <1>1, <1>5 DEF RecordsInv, CompleteIsStored
<1>8. AtWork(p)'
  <2>1. pc'[p] = "back"
    BY <1>1 DEF TypeOK
  <2>2. \A c \in new.candidates : Manifest(c.lane, c.gen) \in live' \cup new.stored
    BY <1>1, <1>4, <1>5 DEF HasManifests
  <2>3. new.files \ job'[p].todo = {}
    BY <1>1, <1>4, <1>5
  <2>4. /\ archiveLock' = p /\ new \in receipts' /\ PlanOf(new) = job'[p].plan
        /\ job'[p].todo \subseteq job'[p].plan.files /\ Receipt(p)' = new
        /\ job'[p].free = {}
    BY <1>1, <1>3, <1>4, <1>5
  <2>. QED BY <1>5, <2>1, <2>2, <2>3, <2>4 DEF AtWork, HasManifests
<1>9. AllAtWork'
  BY <1>1, <1>2, <1>8, AtWorkOthers DEF TypeOK
<1>. QED BY <1>5, <1>6, <1>7, <1>9 DEF RecordsInv

\* Every file is back: the leases of the candidates have their manifest.
LEMMA RestoredStep ==
  ASSUME TypeOK, RecordsInv, AllAtWork, NEW p \in Proc, Restored(p)
  PROVE  RecordsInv' /\ AllAtWork'
<1>. DEFINE r == Receipt(p)
            new == [r EXCEPT !.state = "restored"]
<1>1. pc[p] = "back" /\ job[p].todo = {} /\ Save(r, new) /\ End(p) /\ UNCHANGED <<live, lanes>>
  BY DEF Restored, Quiet
<1>2. pc[p] \in Working /\ "restored" \in ReceiptState
  BY <1>1 DEF Working, ReceiptState
<1>3. /\ r \in receipts /\ HasManifests(r)
      /\ \A n \in r.files : ~In(n, r.stored)
  BY <1>1, <1>2, AtReceipt DEF AllAtWork, AtWork
<1>4. /\ new.stored = r.stored /\ new.state = "restored" /\ new.files = r.files
      /\ new.candidates = r.candidates
      /\ new \in receipts' /\ \A s \in receipts' : s = new \/ (s \in receipts /\ s # r)
      /\ \A s \in receipts : s = r \/ s \in receipts'
      /\ RecordsKept' /\ OnlyWritten' /\ ActiveIsLive' /\ PlansAreExact'
  BY <1>1, <1>2, StateSaved
<1>. HIDE DEF new
<1>5. ASSUME NEW c \in r.candidates PROVE Manifest(c.lane, c.gen) \in live
  <2>1. Name(Manifest(c.lane, c.gen)) \in r.files
    BY <1>3, PlanNames DEF RecordsInv, PlansAreExact
  <2>. QED BY <1>3, <2>1 DEF HasManifests, In, Names
<1>6. NoOrphans'
  <2>. SUFFICES ASSUME NEW y \in live, y.kind = "lease", Manifest(y.lane, y.gen) \notin live
                PROVE  \E s \in receipts' : /\ s.state = "restoring"
                                            /\ \E c \in s.candidates : c.lane = y.lane /\ c.gen = y.gen
    BY <1>1 DEF NoOrphans
  <2>1. PICK s \in receipts : /\ s.state = "restoring"
                              /\ \E c \in s.candidates : c.lane = y.lane /\ c.gen = y.gen
    BY DEF RecordsInv, NoOrphans
  <2>. QED BY <1>4, <1>5, <2>1
<1>7. CompleteIsStored'
  BY <1>1, <1>4 DEF RecordsInv, CompleteIsStored
<1>8. AllAtWork'
  BY <1>1, <1>2, Ended, AtWorkOthers
<1>. QED BY <1>4, <1>6, <1>7, <1>8 DEF RecordsInv

\* A rename out of the batch.  Only a profile can be at the live name.
LEMMA MoveBackStep ==
  ASSUME TypeOK, RecordsInv, AllAtWork, NEW p \in Proc, NEW n \in job[p].todo, MoveBack(p, n)
  PROVE  RecordsInv' /\ AllAtWork'
<1>. DEFINE r == Receipt(p)
            S == {x \in r.stored : Name(x) = n}
            new == [r EXCEPT !.stored = @ \ S]
<1>1. /\ pc[p] = "back" /\ n \in job[p].free
      /\ live' = {x \in live : Name(x) # n} \cup S /\ Save(r, new)
      /\ job' = [job EXCEPT ![p].todo = @ \ {n}, ![p].free = {}]
      /\ UNCHANGED <<pc, archiveLock, lanes>>
  BY DEF MoveBack, Did, Quiet
<1>2. pc[p] \in Working
  BY <1>1 DEF Working
<1>3. /\ r \in receipts /\ r \in ReceiptRecord /\ n \in r.files /\ job[p].todo \subseteq r.files
      /\ archiveLock = p /\ PlanOf(r) = job[p].plan /\ r.files = job[p].plan.files
  BY <1>2, AtReceipt
<1>4. /\ HasManifests(r) /\ r.state = "restoring"
      /\ \A m \in r.files \ job[p].todo : IsLive(m) /\ ~In(m, r.stored)
      /\ In(n, r.stored) /\ (n.kind # "profile" => ~IsLive(n))
  BY <1>1 DEF AllAtWork, AtWork
<1>5. /\ new.stored = r.stored \ S /\ new.state = "restoring" /\ new.files = r.files
      /\ new.candidates = r.candidates /\ PlanOf(new) = PlanOf(r)
  BY <1>3, <1>4 DEF ReceiptRecord, PlanOf
<1>6. job'[p].plan = job[p].plan /\ job'[p].todo = job[p].todo \ {n} /\ job'[p].free = {}
  BY <1>1 DEF TypeOK
<1>. HIDE DEF new
<1>7. /\ new \in receipts'
      /\ \A s \in receipts' : s = new \/ (s \in receipts /\ s # r)
      /\ \A s \in receipts : s = r \/ s \in receipts'
      /\ Receipt(p)' = new
  BY <1>1, <1>2, <1>5, <1>6, Saved
<1>8. PICK z \in S : Name(z) = n /\ z \in r.stored
  BY <1>4 DEF In, Names
<1>9. Written' = Written /\ live \subseteq Record /\ r.stored \subseteq Record
  BY <1>1, <1>3, CandidateTypes DEF Written, TypeOK
<1>10. ASSUME NEW x \in live, x.kind # "profile" PROVE Name(x) # n /\ x \in live' /\ x \notin S
  <2>1. Name(x).kind = x.kind
    BY <1>9, NameFacts
  <2>2. Name(x) # n
    BY <1>4, <1>10, <2>1 DEF IsLive, In, Names
  <2>. QED BY <1>1, <2>2
<1>11. RecordsKept'
  <2>1. ASSUME NEW x \in Written, x.kind # "profile"
        PROVE  /\ (x \in live') # (\E s \in receipts' : x \in s.stored)
               /\ \A s, t \in receipts' : x \in s.stored \cap t.stored => s = t
    <3>1. /\ (x \in live) # (\E s \in receipts : x \in s.stored)
          /\ \A s, t \in receipts : x \in s.stored \cap t.stored => s = t
      BY <2>1 DEF RecordsInv, RecordsKept
    <3>2. CASE x \in S
      <4>1. x \in live' /\ x \notin new.stored
        BY <1>1, <1>5, <3>2
      <4>2. \A s \in receipts : x \in s.stored => s = r
        BY <1>3, <3>1, <3>2
      <4>3. ~\E s \in receipts' : x \in s.stored
        BY <1>7, <4>1, <4>2
      <4>. QED BY <4>1, <4>3
    <3>3. CASE x \notin S
      <4>1. (x \in live) = (x \in live')
        BY <1>1, <1>10, <2>1, <3>3
      <4>2. x \in new.stored <=> x \in r.stored
        BY <1>5, <3>3
      <4>3. (\E s \in receipts' : x \in s.stored) = (\E s \in receipts : x \in s.stored)
        BY <1>3, <1>7, <4>2
      <4>4. ASSUME NEW s \in receipts', NEW t \in receipts', x \in s.stored, x \in t.stored PROVE s = t
        BY <1>3, <1>7, <3>1, <4>2, <4>4
      <4>5. (x \in live') # (\E s \in receipts' : x \in s.stored)
        BY <3>1, <4>1, <4>3, Zenon
      <4>. QED BY <4>4, <4>5
    <3>. QED BY <3>2, <3>3
  <2>2. ASSUME NEW x \in Written, x.kind = "profile"
        PROVE  In(Name(x), live') \/ \E s \in receipts' : In(Name(x), s.stored)
    <3>1. CASE Name(x) = n
      BY <1>1, <1>8, <3>1 DEF In, Names
    <3>2. CASE Name(x) # n /\ IsLive(Name(x))
      BY <1>1, <3>2 DEF IsLive, In, Names
    <3>3. CASE Name(x) # n /\ \E s \in receipts : In(Name(x), s.stored)
      <4>1. PICK s \in receipts : \E y \in s.stored : Name(y) = Name(x)
        BY <3>3 DEF In, Names
      <4>2. PICK y \in s.stored : Name(y) = Name(x)
        BY <4>1
      <4>3. y \in r.stored => y \in new.stored
        BY <1>5, <3>3, <4>2
      <4>. QED BY <1>7, <4>2, <4>3 DEF In, Names
    <3>. QED BY <2>2, <3>1, <3>2, <3>3 DEF RecordsInv, RecordsKept
  <2>3. \A x, y \in live' : Name(x) = Name(y) => x = y
    <3>1. \A x, y \in live : Name(x) = Name(y) => x = y
      BY DEF RecordsInv, RecordsKept
    <3>2. \A x, y \in r.stored : Name(x) = Name(y) => x = y
      BY <1>3 DEF RecordsInv, RecordsKept
    <3>. QED BY <1>1, <3>1, <3>2
  <2>4. \A x, y \in new.stored : Name(x) = Name(y) => x = y
    BY <1>3, <1>5 DEF RecordsInv, RecordsKept
  <2>5. \A s \in receipts' : \A x, y \in s.stored : Name(x) = Name(y) => x = y
    BY <1>7, <2>4 DEF RecordsInv, RecordsKept
  <2>. QED BY <1>9, <2>1, <2>2, <2>3, <2>5 DEF RecordsKept, IsLive
<1>12. OnlyWritten'
  <2>1. live' \subseteq Written
    BY <1>1, <1>3 DEF RecordsInv, OnlyWritten
  <2>2. new.stored \subseteq Written /\ Names(new.stored) \subseteq new.files
    BY <1>3, <1>5 DEF RecordsInv, OnlyWritten, Names
  <2>. QED BY <1>7, <1>9, <2>1, <2>2 DEF RecordsInv, OnlyWritten
<1>13. ASSUME NEW l \in Lane, NEW g \in 1..MaxGen, Manifest(l, g) \in live PROVE Manifest(l, g) \in live'
  BY <1>10, <1>13, ManifestFacts
<1>14. ActiveIsLive'
  BY <1>1, <1>13, LaneTypes DEF RecordsInv, ActiveIsLive
<1>15. PlansAreExact'
  <2>1. PlanIsExact(r) => PlanIsExact(new)
    BY <1>5 DEF PlanIsExact
  <2>2. \A s : PlanIsExact(s)' <=> PlanIsExact(s)
    BY <1>1 DEF PlanIsExact
  <2>. QED BY <1>3, <1>7, <2>1, <2>2 DEF RecordsInv, PlansAreExact
<1>16. NoOrphans'
  <2>. SUFFICES ASSUME NEW y \in live', y.kind = "lease", Manifest(y.lane, y.gen) \notin live'
                PROVE  \E s \in receipts' : /\ s.state = "restoring"
                                            /\ \E c \in s.candidates : c.lane = y.lane /\ c.gen = y.gen
    BY DEF NoOrphans
  <2>1. CASE y \in live
    <3>1. Manifest(y.lane, y.gen) \notin live
      BY <1>9, <1>13, <2>1, RecordFacts
    <3>2. PICK s \in receipts : /\ s.state = "restoring"
                                /\ \E c \in s.candidates : c.lane = y.lane /\ c.gen = y.gen
      BY <2>1, <3>1 DEF RecordsInv, NoOrphans
    <3>. QED BY <1>5, <1>7, <3>2
  <2>2. CASE y \in S
    <3>1. PICK c \in r.candidates : n.lane = c.lane /\ (n.kind = "lease" => n.gen = c.gen)
      BY <1>3 DEF RecordsInv, PlansAreExact, PlanIsExact
    <3>2. n.lane = y.lane /\ n.kind = "lease" /\ n.gen = y.gen
      BY <1>9, <2>2, NameFacts
    <3>. QED BY <1>5, <1>7, <3>1, <3>2
  <2>. QED BY <1>1, <2>1, <2>2
<1>17. CompleteIsStored'
  <2>1. \A l : lanes'[l] = lanes[l]
    BY <1>1
  <2>. QED BY <1>5, <1>7, <2>1 DEF RecordsInv, CompleteIsStored
<1>18. AtWork(p)'
  <2>1. /\ job'[p].todo \subseteq job'[p].plan.files /\ PlanOf(new) = job'[p].plan
    BY <1>3, <1>5, <1>6
  <2>2. \A m \in r.files : m # n => (m \in Names(live') <=> m \in Names(live))
                                    /\ (m \in Names(new.stored) <=> m \in Names(r.stored))
    BY <1>1, <1>5 DEF Names
  <2>3. n \in Names(live') /\ n \notin Names(new.stored)
    BY <1>1, <1>5, <1>8 DEF Names
  <2>4. \A c \in new.candidates : Manifest(c.lane, c.gen) \in live' \cup new.stored
    BY <1>1, <1>3, <1>4, <1>5, <1>13, CandidateTypes DEF HasManifests
  <2>5. \A m \in new.files \ job'[p].todo : m \in Names(live') /\ m \notin Names(new.stored)
    BY <1>4, <1>5, <1>6, <2>2, <2>3 DEF IsLive, In
  <2>. QED BY <1>1, <1>3, <1>5, <1>6, <1>7, <2>1, <2>4, <2>5 DEF AtWork, HasManifests, IsLive, In
<1>19. AllAtWork'
  BY <1>1, <1>2, <1>18, AtWorkOthers DEF TypeOK
<1>. QED BY <1>11, <1>12, <1>14, <1>15, <1>16, <1>17, <1>19 DEF RecordsInv
-----------------------------------------------------------------------------
(* Steps of a command that leave every record where it is. *)

\* Nobody is at work while archive.lock is free.
LEMMA NobodyAtWork ==
  ASSUME AllAtWork, archiveLock = Free
  PROVE  \A q \in Proc : pc[q] \notin Working /\ job[q].free = {}
BY ArchiveAssumption DEF AllAtWork, AtWork, Working

\* A command that is not at work has nothing to show.
LEMMA AtWorkIdle ==
  ASSUME NEW q \in Proc, pc'[q] \notin Working, job'[q].free = {}
  PROVE  AtWork(q)'
BY DEF AtWork, Working

\* The previews and the end of a command, at its own will or not.
LEMMA PreviewOrEnd ==
  ASSUME TypeOK, RecordsInv, AllAtWork, NEW p \in Proc,
         Refused(p) \/ Stop(p) \/ (\E S \in SUBSET Lane : Preview(p, S))
  PROVE  RecordsInv' /\ AllAtWork'
<1>1. UNCHANGED <<lanes, live, receipts>>
  BY DEF Refused, Stop, Preview, Quiet
<1>2. RecordsInv'
  BY <1>1, RecordsUntouched
<1>3. CASE End(p)
  <2>1. /\ AtWork(p)'
        /\ \A q \in Proc \ {p} : /\ pc'[q] = pc[q] /\ job'[q] = job[q]
                                 /\ pc[q] \in Working => archiveLock' = archiveLock
    BY <1>3, Ended
  <2>2. \A q \in Proc \ {p} : AtWork(q)'
    BY <1>1, <2>1, AtWorkKept DEF AllAtWork
  <2>. QED BY <1>2, <2>1, <2>2 DEF AllAtWork
<1>4. CASE \E S \in SUBSET Lane : Preview(p, S)
  <2>1. pc' = [pc EXCEPT ![p] = "apply"] /\ archiveLock' = archiveLock
    BY <1>4 DEF Preview, Goto, Quiet
  <2>2. PICK plan : job' = [job EXCEPT ![p].plan = plan]
    BY <1>4 DEF Preview
  <2>3. pc'[p] \notin Working /\ job'[p].free = {}
    <3>1. pc[p] = "idle"
      BY <1>4 DEF Preview
    <3>2. job[p].free = {}
      BY <3>1 DEF AllAtWork, AtWork
    <3>. QED BY <2>1, <2>2, <3>2 DEF TypeOK, Working
  <2>4. \A q \in Proc \ {p} : pc'[q] = pc[q] /\ job'[q] = job[q]
    BY <2>1, <2>2 DEF TypeOK
  <2>5. \A q \in Proc \ {p} : AtWork(q)'
    BY <1>1, <2>1, <2>4, AtWorkKept DEF AllAtWork
  <2>. QED BY <1>2, <2>3, <2>5, AtWorkIdle DEF AllAtWork
<1>. QED BY <1>3, <1>4 DEF Refused, Stop

\* The checks under the locks.
LEMMA CheckStep ==
  ASSUME TypeOK, RecordsInv, AllAtWork, NEW p \in Proc, Check(p)
  PROVE  RecordsInv' /\ AllAtWork'
<1>1. /\ pc[p] = "check" /\ FilesOK(Receipt(p)) /\ pc' = [pc EXCEPT ![p] = "move"]
      /\ UNCHANGED <<lanes, live, receipts, archiveLock, job>>
  BY DEF Check, Quiet, Goto
<1>2. pc[p] \in Working /\ pc'[p] = "move"
  BY <1>1 DEF Working, TypeOK
<1>3. Receipt(p)' = Receipt(p)
  BY <1>1 DEF Receipt
<1>4. Receipt(p).files = job[p].plan.files
  BY <1>2, AtReceipt
<1>5. /\ archiveLock = p /\ \E r \in receipts : PlanOf(r) = job[p].plan /\ job[p].free = {}
      /\ job[p].todo = job[p].plan.files /\ Receipt(p).state \in {"prepared", "complete"}
  BY <1>1 DEF AllAtWork, AtWork
<1>6. Sided(Receipt(p)) /\ HasManifests(Receipt(p))
  BY <1>1 DEF FilesOK, OneSide, Sided, HasManifests
<1>7. (Sided(Receipt(p)) /\ HasManifests(Receipt(p)))'
  BY <1>1, <1>3, <1>6 DEF Sided, HasManifests, IsLive, In
<1>8. AtWork(p)'
  BY <1>1, <1>2, <1>3, <1>4, <1>5, <1>7 DEF AtWork, Sided
<1>9. AllAtWork'
  BY <1>1, <1>2, <1>8, AtWorkOthers DEF TypeOK
<1>. QED BY <1>1, <1>9, RecordsUntouched

\* A later run takes up a receipt.
LEMMA TakeUpStep ==
  ASSUME TypeOK, RecordsInv, AllAtWork, NEW p \in Proc, NEW r \in receipts,
         Resume(p, r) \/ Restore(p, r)
  PROVE  RecordsInv' /\ AllAtWork'
<1>1. /\ archiveLock = Free /\ archiveLock' = p /\ FilesOK(r)
      /\ job' = [job EXCEPT ![p] = WorkOn(PlanOf(r))]
      /\ UNCHANGED <<lanes, live, receipts>>
      /\ \/ r.state = "prepared" /\ pc' = [pc EXCEPT ![p] = "check"]
         \/ r.state \in {"complete", "restoring"} /\ pc' = [pc EXCEPT ![p] = "relock"]
  BY DEF Resume, Restore, Quiet, Goto
<1>2. job'[p].plan = PlanOf(r) /\ job'[p].todo = r.files /\ r.files = PlanOf(r).files
      /\ job'[p].free = {}
  BY <1>1 DEF TypeOK, PlanOf, WorkOn
<1>3. \A q \in Proc \ {p} : pc'[q] \notin Working /\ job'[q].free = {}
  BY <1>1, NobodyAtWork DEF TypeOK
<1>4. Receipt(p)' = r
  BY <1>1, <1>2 DEF Receipt, TypeOK
<1>5. (HasManifests(r))'
  BY <1>1 DEF FilesOK, HasManifests
<1>6. \/ r.state = "prepared" /\ pc'[p] = "check"
      \/ r.state \in {"complete", "restoring"} /\ pc'[p] = "relock"
  BY <1>1 DEF TypeOK
<1>7. AtWork(p)'
  BY <1>1, <1>2, <1>4, <1>5, <1>6 DEF AtWork
<1>. QED BY <1>1, <1>3, <1>7, AtWorkIdle, RecordsUntouched DEF AllAtWork

\* A restore looks at the live name, or finds the file back already.
LEMMA LookStep ==
  ASSUME TypeOK, RecordsInv, AllAtWork, NEW p \in Proc, NEW n \in job[p].todo,
         Look(p, n) \/ Skip(p, n)
  PROVE  RecordsInv' /\ AllAtWork'
<1>. DEFINE r == Receipt(p)
<1>1. /\ pc[p] = "back" /\ IsNext(p, n) /\ UNCHANGED <<lanes, live, receipts, pc, archiveLock>>
      /\ \/ job' = [job EXCEPT ![p].free = {n}] /\ ~IsLive(n) /\ In(n, r.stored)
         \/ /\ job' = [job EXCEPT ![p].todo = @ \ {n}, ![p].free = {}]
            /\ IsLive(n) /\ ~In(n, r.stored)
  BY DEF Look, Skip, Did, Quiet
<1>2. pc[p] \in Working
  BY <1>1 DEF Working
<1>3. job'[p].plan = job[p].plan /\ \A q \in Proc \ {p} : job'[q] = job[q]
  BY <1>1 DEF TypeOK
<1>4. Receipt(p)' = r
  BY <1>1, <1>3 DEF Receipt
<1>5. /\ archiveLock = p /\ \E s \in receipts : PlanOf(s) = job[p].plan
      /\ job[p].todo \subseteq job[p].plan.files /\ r.state = "restoring" /\ HasManifests(r)
      /\ \A m \in r.files \ job[p].todo : IsLive(m) /\ ~In(m, r.stored)
  BY <1>1 DEF AllAtWork, AtWork
<1>6. \A m : IsLive(m)' <=> IsLive(m)
  BY <1>1 DEF IsLive, In
<1>7. /\ \A m \in r.files \ job[p].todo : IsLive(m)' /\ ~In(m, r.stored)
      /\ r.state = "restoring" /\ HasManifests(Receipt(p))'
  BY <1>1, <1>4, <1>5, <1>6 DEF HasManifests
<1>. HIDE DEF r
<1>8. CASE job' = [job EXCEPT ![p].free = {n}] /\ ~IsLive(n) /\ In(n, r.stored)
  <2>1. job'[p].todo = job[p].todo /\ job'[p].free = {n}
    BY <1>8 DEF TypeOK
  <2>2. IsNext(p, n)'
    BY <1>1, <2>1 DEF IsNext
  <2>3. AtWork(p)'
    BY <1>1, <1>3, <1>4, <1>5, <1>6, <1>7, <1>8, <2>1, <2>2 DEF AtWork
  <2>. QED BY <1>1, <1>2, <1>3, <2>3, AtWorkOthers, RecordsUntouched
<1>9. CASE job' = [job EXCEPT ![p].todo = @ \ {n}, ![p].free = {}] /\ IsLive(n) /\ ~In(n, r.stored)
  <2>1. job'[p].todo = job[p].todo \ {n} /\ job'[p].free = {}
    BY <1>9 DEF TypeOK
  <2>2. AtWork(p)'
    BY <1>1, <1>3, <1>4, <1>5, <1>6, <1>7, <1>9, <2>1 DEF AtWork
  <2>. QED BY <1>1, <1>2, <1>3, <2>2, AtWorkOthers, RecordsUntouched
<1>. QED BY <1>1, <1>8, <1>9

\* The recheck under the locks makes the plan of a new receipt exact.
LEMMA RecheckIsExact ==
  ASSUME TypeOK, RecordsInv, NEW plan, plan.candidates \subseteq CandidateRecord,
         plan.files = FilesFor(plan.candidates), RecheckOK(plan)
  PROVE  PlanIsExact(plan)
<1>1. \A c \in plan.candidates : c.lane \in Lane /\ c.gen \in 1..MaxGen
  BY DEF CandidateRecord
<1>2. ASSUME NEW c \in plan.candidates
      PROVE  /\ c.gen \in DOMAIN lanes[c.lane] /\ lanes[c.lane][c.gen].state \in Closed
             /\ Names(RecordsOf(c.lane, c.gen, lanes[c.lane][c.gen].has \ {"profile"})) \subseteq plan.files
  <2>1. /\ Manifest(c.lane, c.gen) \in live /\ lanes[c.lane][c.gen].state \in Closed
        /\ LinksOK(c.lane, c.gen)
    BY DEF RecheckOK, Eligible
  <2>2. /\ Manifest(c.lane, c.gen) \in Record
        /\ Manifest(c.lane, c.gen).lane = c.lane /\ Manifest(c.lane, c.gen).gen = c.gen
    BY <1>1, ManifestFacts
  <2>3. c.gen \in DOMAIN lanes[c.lane]
    BY <2>1, <2>2 DEF RecordsInv, OnlyWritten, Written
  <2>4. lanes[c.lane][c.gen].has \subseteq {"lease", "profile"}
    BY <1>1, <2>3, LaneTypes
  <2>5. ASSUME "lease" \in lanes[c.lane][c.gen].has PROVE Rec("lease", c.lane, c.gen) \in live
    BY <2>1, <2>5 DEF LinksOK
  <2>6. \A x \in RecordsOf(c.lane, c.gen, lanes[c.lane][c.gen].has \ {"profile"}) :
          x \in live /\ x.lane = c.lane
    BY <2>1, <2>4, <2>5 DEF RecordsOf, Manifest, Rec
  <2>. QED BY <2>1, <2>3, <2>6 DEF FilesFor, Names
<1>3. ASSUME NEW n \in plan.files
      PROVE  \E c \in plan.candidates : n.lane = c.lane /\ (n.kind = "lease" => n.gen = c.gen)
  <2>1. PICK x \in live : Name(x) = n /\ \E c \in plan.candidates : x.lane = c.lane
    BY DEF FilesFor, Names
  <2>2. PICK c \in plan.candidates : x.lane = c.lane
    BY <2>1
  <2>3. x \in Record /\ n.lane = x.lane /\ n.kind = x.kind /\ (n.kind = "lease" => n.gen = x.gen)
    BY <2>1, NameFacts DEF TypeOK
  <2>4. ASSUME x.kind = "lease" PROVE x.gen = c.gen
    <3>1. LinksOK(c.lane, c.gen)
      BY DEF RecheckOK
    <3>2. PICK kind : x = Rec(kind, c.lane, c.gen)
      BY <2>2, <2>4, <3>1 DEF LinksOK
    <3>. QED BY <3>2 DEF Rec
  <2>. QED BY <2>2, <2>3, <2>4
<1>. QED BY <1>2, <1>3 DEF PlanIsExact

\* The locks, the recheck and the receipt of the plan, new or found.
LEMMA ApplyStep ==
  ASSUME TypeOK, RecordsInv, AllAtWork, NEW p \in Proc, Apply(p)
  PROVE  RecordsInv' /\ AllAtWork'
<1>. DEFINE plan == [job[p].plan EXCEPT !.files = FilesFor(job[p].plan.candidates)]
            new == [before |-> plan.before, candidates |-> plan.candidates, files |-> plan.files,
                    state |-> "prepared", stored |-> {}]
<1>1. /\ archiveLock = Free /\ RecheckOK(plan) /\ archiveLock' = p
      /\ pc' = [pc EXCEPT ![p] = "check"] /\ UNCHANGED <<lanes, live>>
      /\ job' = [job EXCEPT ![p] = WorkOn(plan)]
      /\ \A r \in receipts : PlanOf(r) = plan => r.state \notin {"restoring", "restored"}
      /\ \/ UNCHANGED receipts /\ \E r \in receipts : PlanOf(r) = plan
         \/ receipts' = receipts \cup {new} /\ ~\E r \in receipts : PlanOf(r) = plan
  BY DEF Apply, Prepare, Goto, Quiet
<1>2. /\ job[p].plan \in Plan /\ plan.candidates = job[p].plan.candidates
      /\ plan.files = FilesFor(plan.candidates) /\ plan.candidates \subseteq CandidateRecord
  BY DEF TypeOK, Plan
<1>3. PlanOf(new) = plan
  BY <1>2 DEF PlanOf, Plan
<1>4. job'[p].plan = plan /\ job'[p].todo = plan.files /\ job'[p].free = {} /\ pc'[p] = "check"
  BY <1>1 DEF TypeOK, WorkOn
<1>5. PlanIsExact(new)
  <2>1. PlanIsExact(plan)
    BY <1>1, <1>2, RecheckIsExact
  <2>2. new.files = plan.files /\ new.candidates = plan.candidates
    OBVIOUS
  <2>. QED BY <2>1, <2>2 DEF PlanIsExact
<1>6. new.stored = {} /\ new.state = "prepared"
  OBVIOUS
<1>. HIDE DEF plan, new
<1>7. AllAtWork'
  <2>1. \A q \in Proc \ {p} : pc'[q] \notin Working /\ job'[q].free = {}
    BY <1>1, NobodyAtWork DEF TypeOK
  <2>2. \E s \in receipts' : PlanOf(s) = plan
    BY <1>1, <1>3
  <2>3. \A s \in receipts' : PlanOf(s) = plan => s.state \in {"prepared", "complete"}
    <3>1. \A s \in receipts : s.state \in ReceiptState
      BY CandidateTypes
    <3>. QED BY <1>1, <1>6, <3>1 DEF ReceiptState
  <2>4. Receipt(p)' \in receipts' /\ PlanOf(Receipt(p)') = plan
    BY <1>4, <2>2 DEF Receipt
  <2>5. AtWork(p)'
    BY <1>1, <1>4, <2>2, <2>3, <2>4 DEF AtWork
  <2>. QED BY <2>1, <2>5, AtWorkIdle DEF AllAtWork
<1>8. CASE UNCHANGED receipts
  BY <1>1, <1>7, <1>8, RecordsUntouched
<1>9. CASE receipts' = receipts \cup {new}
  <2>1. Written' = Written
    BY <1>1 DEF Written
  <2>2. RecordsKept'
    <3>1. ASSUME NEW x \in Written, x.kind # "profile"
          PROVE  /\ (x \in live') # (\E s \in receipts' : x \in s.stored)
                 /\ \A s, t \in receipts' : x \in s.stored \cap t.stored => s = t
      <4>1. /\ (x \in live) # (\E s \in receipts : x \in s.stored)
            /\ \A s, t \in receipts : x \in s.stored \cap t.stored => s = t
        BY <3>1 DEF RecordsInv, RecordsKept
      <4>2. (\E s \in receipts' : x \in s.stored) = (\E s \in receipts : x \in s.stored)
        BY <1>6, <1>9
      <4>. QED BY <1>1, <1>6, <1>9, <4>1, <4>2
    <3>2. ASSUME NEW x \in Written, x.kind = "profile"
          PROVE  In(Name(x), live') \/ \E s \in receipts' : In(Name(x), s.stored)
      <4>1. In(Name(x), live) \/ \E s \in receipts : In(Name(x), s.stored)
        BY <3>2 DEF RecordsInv, RecordsKept, IsLive
      <4>. QED BY <1>1, <1>9, <4>1
    <3>3. \A x, y \in live' : Name(x) = Name(y) => x = y
      BY <1>1 DEF RecordsInv, RecordsKept
    <3>4. \A s \in receipts' : \A x, y \in s.stored : Name(x) = Name(y) => x = y
      BY <1>6, <1>9 DEF RecordsInv, RecordsKept
    <3>. QED BY <2>1, <3>1, <3>2, <3>3, <3>4 DEF RecordsKept, IsLive
  <2>3. OnlyWritten'
    BY <1>1, <1>6, <1>9, <2>1 DEF RecordsInv, OnlyWritten, Names
  <2>4. ActiveIsLive'
    BY <1>1 DEF RecordsInv, ActiveIsLive
  <2>5. PlansAreExact'
    <3>1. \A s : PlanIsExact(s)' <=> PlanIsExact(s)
      BY <1>1 DEF PlanIsExact
    <3>. QED BY <1>5, <1>9, <3>1 DEF RecordsInv, PlansAreExact
  <2>6. NoOrphans' /\ CompleteIsStored'
    BY <1>1, <1>6, <1>9 DEF RecordsInv, NoOrphans, CompleteIsStored
  <2>. QED BY <1>7, <2>2, <2>3, <2>4, <2>5, <2>6 DEF RecordsInv
<1>. QED BY <1>1, <1>8, <1>9
-----------------------------------------------------------------------------
(* Steps of the rest of the program. *)

LEMMA AsideStep ==
  ASSUME RecordsInv, AllAtWork,
         Tick \/ \E l \in Lane : \E g \in DOMAIN lanes[l] : MoveRef(l, g)
  PROVE  RecordsInv' /\ AllAtWork'
<1>1. UNCHANGED <<lanes, live, receipts, archiveLock, pc, job>>
  BY DEF Tick, MoveRef
<1>2. AllAtWork'
  BY <1>1, AtWorkKept DEF AllAtWork
<1>. QED BY <1>1, <1>2, RecordsUntouched

\* Closing changes one generation, and not which records it has.
LEMMA ClosedLanes ==
  ASSUME TypeOK, NEW l \in Lane, NEW g \in DOMAIN lanes[l], NEW state \in Closed, Close(l, g, state)
  PROVE  /\ lanes' \in [Lane -> Seq(Generation)]
         /\ \A k \in Lane :
              /\ Len(lanes'[k]) = Len(lanes[k]) /\ DOMAIN lanes'[k] = DOMAIN lanes[k]
              /\ \A h \in DOMAIN lanes[k] :
                   /\ lanes'[k][h].has = lanes[k][h].has
                   /\ lanes'[k][h].state = lanes[k][h].state \/ lanes'[k][h].state \in Closed
                   /\ lanes'[k][h].state = IF k = l /\ h = g THEN state ELSE lanes[k][h].state
<1>. DEFINE gen == [[lanes[l][g] EXCEPT !.state = state] EXCEPT !.at = now]
<1>1. lanes' = [lanes EXCEPT ![l] = [lanes[l] EXCEPT ![g] = gen]]
  <2>1. lanes' = [lanes EXCEPT ![l][g].state = state, ![l][g].at = now]
    BY DEF Close
  <2>2. lanes \in [Lane -> Seq(Generation)] /\ lanes[l] \in Seq(Generation)
    BY DEF TypeOK
  <2>. QED BY <2>1, <2>2
<1>2. lanes[l][g] \in Generation /\ now \in Nat
  BY LaneTypes DEF TypeOK
<1>3. gen \in Generation /\ gen.has = lanes[l][g].has /\ gen.state = state
  BY <1>2 DEF Generation
<1>. HIDE DEF gen
<1>4. lanes[l] \in Seq(Generation)
  BY LaneTypes
<1>5. [lanes[l] EXCEPT ![g] = gen] \in Seq(Generation)
  BY <1>3, <1>4
<1>6. /\ Len([lanes[l] EXCEPT ![g] = gen]) = Len(lanes[l])
      /\ DOMAIN [lanes[l] EXCEPT ![g] = gen] = DOMAIN lanes[l]
      /\ \A h \in DOMAIN lanes[l] : [lanes[l] EXCEPT ![g] = gen][h] = IF h = g THEN gen ELSE lanes[l][h]
  BY <1>4
<1>. QED BY <1>1, <1>3, <1>5, <1>6 DEF TypeOK

LEMMA CloseStep ==
  ASSUME TypeOK, RecordsInv, AllAtWork,
         NEW l \in Lane, NEW g \in DOMAIN lanes[l], NEW state \in Closed, Close(l, g, state)
  PROVE  RecordsInv' /\ AllAtWork'
<1>1. UNCHANGED <<live, receipts, archiveLock, pc, job>>
  BY DEF Close
<1>2. \A k \in Lane :
        /\ DOMAIN lanes'[k] = DOMAIN lanes[k]
        /\ \A h \in DOMAIN lanes[k] :
             /\ lanes'[k][h].has = lanes[k][h].has
             /\ lanes'[k][h].state = lanes[k][h].state \/ lanes'[k][h].state \in Closed
  BY ClosedLanes
<1>3. AllAtWork'
  BY <1>1, AtWorkKept DEF AllAtWork
<1>4. Written' = Written
  BY <1>2, RecordFacts DEF Written
<1>5. RecordsKept' /\ OnlyWritten' /\ NoOrphans'
  BY <1>1, <1>4 DEF RecordsInv, RecordsKept, OnlyWritten, NoOrphans, IsLive
<1>6. ActiveIsLive'
  BY <1>1, <1>2 DEF RecordsInv, ActiveIsLive, Closed
<1>7. ASSUME NEW r \in receipts, NEW c \in r.candidates
      PROVE  /\ c.gen \in DOMAIN lanes'[c.lane] /\ lanes'[c.lane][c.gen].state \in Closed
             /\ lanes'[c.lane][c.gen].has = lanes[c.lane][c.gen].has
  BY <1>2, CandidateTypes, PlanNames DEF RecordsInv, PlansAreExact
<1>8. PlansAreExact'
  BY <1>1, <1>7 DEF RecordsInv, PlansAreExact, PlanIsExact
<1>9. CompleteIsStored'
  BY <1>1, <1>7 DEF RecordsInv, CompleteIsStored
<1>. QED BY <1>3, <1>5, <1>6, <1>8, <1>9 DEF RecordsInv

\* A new generation is appended.
LEMMA CreatedLanes ==
  ASSUME TypeOK, NEW l \in Lane, Create(l)
  PROVE  LET g == Len(lanes[l]) + 1 IN
         /\ lanes' \in [Lane -> Seq(Generation)]
         /\ g \in 1..MaxGen /\ g \notin DOMAIN lanes[l] /\ Len(lanes'[l]) = g
         /\ DOMAIN lanes'[l] = DOMAIN lanes[l] \cup {g}
         /\ lanes'[l][g].has = {} /\ lanes'[l][g].state = "active"
         /\ \A k \in Lane : k # l => lanes'[k] = lanes[k]
         /\ \A k \in Lane : \A h \in DOMAIN lanes[k] : h \in DOMAIN lanes'[k] /\ lanes'[k][h] = lanes[k][h]
<1>. DEFINE g == Len(lanes[l]) + 1
            gen == [state |-> "active", at |-> now, has |-> {}]
<1>1. lanes' = [lanes EXCEPT ![l] = Append(@, gen)] /\ g <= MaxGen
  BY DEF Create
<1>2. lanes'[l] = Append(lanes[l], gen) /\ \A k \in Lane : k # l => lanes'[k] = lanes[k]
  BY <1>1 DEF TypeOK
<1>3. gen \in Generation /\ gen.has = {} /\ gen.state = "active"
  BY DEF Generation, TypeOK
<1>. HIDE DEF gen
<1>4. /\ lanes[l] \in Seq(Generation) /\ Len(lanes[l]) \in Nat /\ MaxGen \in Nat
      /\ DOMAIN lanes[l] = 1..Len(lanes[l])
  BY LaneTypes
<1>5. /\ Append(lanes[l], gen) \in Seq(Generation) /\ Len(Append(lanes[l], gen)) = g
      /\ DOMAIN Append(lanes[l], gen) = 1..g
      /\ \A h \in 1..Len(lanes[l]) : Append(lanes[l], gen)[h] = lanes[l][h]
      /\ Append(lanes[l], gen)[g] = gen
  BY <1>3, <1>4
<1>6. lanes' \in [Lane -> Seq(Generation)]
  BY <1>1, <1>5 DEF TypeOK
<1>7. g \in 1..MaxGen /\ g \notin DOMAIN lanes[l] /\ 1..g = DOMAIN lanes[l] \cup {g}
  BY <1>1, <1>4
<1>. QED BY <1>2, <1>3, <1>4, <1>5, <1>6, <1>7

\* A generation gets a lease or a profile.
Grown(l, g, kind) == lanes' = [lanes EXCEPT ![l][g].has = @ \cup {kind}]

LEMMA GrownLanes ==
  ASSUME TypeOK, NEW l \in Lane, NEW g \in DOMAIN lanes[l], NEW kind \in {"lease", "profile"},
         Grown(l, g, kind)
  PROVE  /\ lanes' \in [Lane -> Seq(Generation)]
         /\ \A k \in Lane :
              /\ Len(lanes'[k]) = Len(lanes[k]) /\ DOMAIN lanes'[k] = DOMAIN lanes[k]
              /\ \A h \in DOMAIN lanes[k] :
                   /\ lanes'[k][h].state = lanes[k][h].state
                   /\ k # l \/ h # g => lanes'[k][h].has = lanes[k][h].has
         /\ lanes'[l][g].has = lanes[l][g].has \cup {kind}
         /\ Rec(kind, l, g) \in Record /\ Written' = Written \cup {Rec(kind, l, g)}
<1>. DEFINE gen == [lanes[l][g] EXCEPT !.has = lanes[l][g].has \cup {kind}]
            x == Rec(kind, l, g)
<1>1. lanes' = [lanes EXCEPT ![l] = [lanes[l] EXCEPT ![g] = gen]]
  BY LaneTypes DEF TypeOK, Grown
<1>2. lanes[l][g] \in Generation /\ g \in 1..MaxGen /\ lanes[l] \in Seq(Generation)
  BY LaneTypes
<1>3. /\ gen \in Generation /\ gen.has = lanes[l][g].has \cup {kind}
      /\ gen.state = lanes[l][g].state
  BY <1>2 DEF Generation
<1>. HIDE DEF gen
<1>4. [lanes[l] EXCEPT ![g] = gen] \in Seq(Generation)
  BY <1>2, <1>3
<1>5. /\ Len([lanes[l] EXCEPT ![g] = gen]) = Len(lanes[l])
      /\ DOMAIN [lanes[l] EXCEPT ![g] = gen] = DOMAIN lanes[l]
      /\ \A h \in DOMAIN lanes[l] : [lanes[l] EXCEPT ![g] = gen][h] = IF h = g THEN gen ELSE lanes[l][h]
  BY <1>2
<1>6. lanes' \in [Lane -> Seq(Generation)]
  BY <1>1, <1>4 DEF TypeOK
<1>7. ASSUME NEW k \in Lane
      PROVE  /\ Len(lanes'[k]) = Len(lanes[k]) /\ DOMAIN lanes'[k] = DOMAIN lanes[k]
             /\ \A h \in DOMAIN lanes[k] :
                  /\ lanes'[k][h].state = lanes[k][h].state
                  /\ k # l \/ h # g => lanes'[k][h].has = lanes[k][h].has
  BY <1>1, <1>3, <1>5 DEF TypeOK
<1>8. lanes'[l][g].has = lanes[l][g].has \cup {kind}
  BY <1>1, <1>3, <1>5 DEF TypeOK
<1>9. x \in Record /\ x.kind = kind /\ x.lane = l /\ x.gen = g
  BY <1>2, RecordFacts DEF Kind
<1>10. ASSUME NEW y \in Record PROVE y \in Written' <=> y \in Written \/ y = x
  <2>1. y.lane \in Lane /\ y = Rec(y.kind, y.lane, y.gen)
    BY RecordFacts
  <2>2. CASE y.lane = l /\ y.gen = g
    <3>1. y.kind = kind <=> y = x
      BY <1>9, <2>1, <2>2
    <3>2. g \in DOMAIN lanes'[l] /\ lanes'[l][g].has = lanes[l][g].has \cup {kind}
      BY <1>7, <1>8
    <3>3. y \in Written' <=> y.kind \in {"lane"} \cup lanes[l][g].has \cup {kind}
      BY <2>2, <3>2 DEF Written
    <3>4. y \in Written <=> y.kind \in {"lane"} \cup lanes[l][g].has
      BY <2>2 DEF Written
    <3>. QED BY <3>1, <3>3, <3>4
  <2>3. CASE ~(y.lane = l /\ y.gen = g)
    BY <1>7, <1>9, <2>1, <2>3 DEF Written
  <2>. QED BY <2>2, <2>3
<1>11. Written' = Written \cup {x}
  <2>1. Written \subseteq Record /\ Written' \subseteq Record
    BY DEF Written
  <2>. QED BY <1>9, <1>10, <2>1
<1>. QED BY <1>6, <1>7, <1>9, <1>11, <1>8

\* A record comes to a free live name: a manifest or a lease for the first time
\* and under the lane lock, a profile at any time.
LEMMA Joined ==
  ASSUME TypeOK, RecordsInv, AllAtWork, NEW x \in Record,
         live' = live \cup {x}, Written' = Written \cup {x}, ~IsLive(Name(x)),
         UNCHANGED <<receipts, archiveLock, pc, job>>,
         x.kind # "profile" => x \notin Written /\ LaneFree(x.lane),
         x.kind = "lease" => Manifest(x.lane, x.gen) \in live,
         ActiveIsLive',
         \A r \in receipts : \A c \in r.candidates :
           /\ c.gen \in DOMAIN lanes'[c.lane] /\ lanes'[c.lane][c.gen].state \in Closed
           /\ lanes'[c.lane][c.gen].has \ {"profile"} = lanes[c.lane][c.gen].has \ {"profile"}
  PROVE  RecordsInv' /\ AllAtWork'
<1>1. RecordsKept'
  <2>1. ASSUME NEW y \in Written', y.kind # "profile"
        PROVE  /\ (y \in live') # (\E s \in receipts' : y \in s.stored)
               /\ \A s, t \in receipts' : y \in s.stored \cap t.stored => s = t
    <3>1. CASE y = x
      BY <2>1, <3>1 DEF RecordsInv, OnlyWritten
    <3>2. CASE y # x
      <4>1. /\ (y \in live) # (\E s \in receipts : y \in s.stored)
            /\ \A s, t \in receipts : y \in s.stored \cap t.stored => s = t
        BY <2>1, <3>2 DEF RecordsInv, RecordsKept
      <4>2. (y \in live') = (y \in live)
        BY <3>2
      <4>. QED BY <4>1, <4>2
    <3>. QED BY <3>1, <3>2
  <2>2. ASSUME NEW y \in Written', y.kind = "profile"
        PROVE  In(Name(y), live') \/ \E s \in receipts' : In(Name(y), s.stored)
    <3>1. y = x \/ IsLive(Name(y)) \/ \E s \in receipts : In(Name(y), s.stored)
      BY <2>2 DEF RecordsInv, RecordsKept
    <3>. QED BY <3>1 DEF IsLive, In, Names
  <2>3. \A y, z \in live' : Name(y) = Name(z) => y = z
    BY DEF RecordsInv, RecordsKept, IsLive, In, Names
  <2>4. \A s \in receipts' : \A y, z \in s.stored : Name(y) = Name(z) => y = z
    BY DEF RecordsInv, RecordsKept
  <2>. QED BY <2>1, <2>2, <2>3, <2>4 DEF RecordsKept, IsLive
<1>2. OnlyWritten'
  BY DEF RecordsInv, OnlyWritten
<1>3. PlansAreExact'
  BY DEF RecordsInv, PlansAreExact, PlanIsExact
<1>4. CompleteIsStored'
  BY DEF RecordsInv, CompleteIsStored
<1>5. NoOrphans'
  BY DEF RecordsInv, NoOrphans
<1>6. ASSUME NEW p \in Proc PROVE AtWork(p)'
  <2>. DEFINE r == Receipt(p)
  <2>1. Receipt(p)' = r
    BY DEF Receipt
  <2>2. HasManifests(r) => HasManifests(Receipt(p))'
    BY <2>1 DEF HasManifests
  <2>3. \A n : IsLive(n) => IsLive(n)'
    BY DEF IsLive, In, Names
  <2>4. ASSUME pc[p] \in {"move", "back"}, NEW n \in r.files, n.kind # "profile", IsLive(n)'
        PROVE  IsLive(n)
    <3>1. r \in receipts /\ r.candidates = job[p].plan.candidates
      BY <2>4, AtReceipt DEF Working
    <3>2. PICK c \in r.candidates : n.lane = c.lane
      BY <2>4, <3>1 DEF RecordsInv, PlansAreExact, PlanIsExact
    <3>3. ASSUME n = Name(x) PROVE FALSE
      <4>1. x.kind = n.kind /\ x.lane = n.lane
        BY <3>3, NameFacts
      <4>2. LaneFree(x.lane)
        BY <2>4, <4>1
      <4>. QED BY <2>4, <3>1, <3>2, <4>1, <4>2 DEF LaneFree, LanesOf
    <3>. QED BY <2>4, <3>3 DEF IsLive, In, Names
  <2>5. AtWork(p)
    BY DEF AllAtWork
  <2>6. pc[p] \in {"move", "back"} => job[p].free \subseteq r.files
    BY <2>5, AtReceipt DEF AtWork, Working
  <2>7. \A n : IsNext(p, n)' <=> IsNext(p, n)
    BY DEF IsNext
  <2>. HIDE DEF r
  <2>8. ASSUME NEW n \in r.files, n.kind # "profile", pc[p] \in {"move", "back"}
        PROVE  IsLive(n)' <=> IsLive(n)
    BY <2>3, <2>4, <2>8
  <2>9. ASSUME pc[p] = "move"
        PROVE  \A n \in r.files : n.kind # "profile" => IsLive(n)' # In(n, r.stored)
    <3>. SUFFICES ASSUME NEW n \in r.files, n.kind # "profile" PROVE IsLive(n)' # In(n, r.stored)
      OBVIOUS
    <3>1. IsLive(n) # In(n, r.stored)
      BY <2>5, <2>9 DEF AtWork, r
    <3>2. IsLive(n)' <=> IsLive(n)
      BY <2>8, <2>9
    <3>. QED BY <3>1, <3>2 DEF IsLive, In
  <2>10. ASSUME pc[p] = "back"
         PROVE  /\ \A n \in r.files \ job[p].todo : IsLive(n)' /\ ~In(n, r.stored)
                /\ \A n \in job[p].free : n.kind # "profile" => ~IsLive(n)'
    BY <2>3, <2>5, <2>6, <2>8, <2>10 DEF AtWork, r
  <2>. QED BY <2>1, <2>2, <2>5, <2>7, <2>9, <2>10 DEF AtWork, In, r
<1>. QED BY <1>1, <1>2, <1>3, <1>4, <1>5, <1>6 DEF RecordsInv, AllAtWork

\* A lane identifier is used again.
LEMMA CreateStep ==
  ASSUME TypeOK, RecordsInv, AllAtWork, NEW l \in Lane, Create(l)
  PROVE  RecordsInv' /\ AllAtWork'
<1>. DEFINE g == Len(lanes[l]) + 1
            x == Manifest(l, g)
<1>1. /\ live' = live \cup {x} /\ UNCHANGED <<receipts, archiveLock, pc, job>>
      /\ ~IsLive(Name(x)) /\ LaneFree(l)
  BY DEF Create
<1>2. /\ g \in 1..MaxGen /\ g \notin DOMAIN lanes[l]
      /\ DOMAIN lanes'[l] = DOMAIN lanes[l] \cup {g} /\ lanes'[l][g].has = {}
      /\ \A k \in Lane : k # l => lanes'[k] = lanes[k]
      /\ \A k \in Lane : \A h \in DOMAIN lanes[k] : h \in DOMAIN lanes'[k] /\ lanes'[k][h] = lanes[k][h]
  BY CreatedLanes
<1>. HIDE DEF g
<1>3. x \in Record /\ x.kind = "lane" /\ x.lane = l /\ x.gen = g
  BY <1>2, ManifestFacts
<1>4. x \notin Written
  BY <1>2, <1>3 DEF Written
<1>5. Written' = Written \cup {x}
  <2>1. ASSUME NEW y \in Record PROVE y \in Written' <=> y \in Written \/ y = x
    <3>1. y.lane \in Lane /\ y = Rec(y.kind, y.lane, y.gen)
      BY RecordFacts
    <3>2. CASE y.lane = l /\ y.gen = g
      <4>1. y.kind = "lane" <=> y = x
        BY <1>3, <3>1, <3>2 DEF Manifest
      <4>2. y \in Written' <=> y.kind \in {"lane"} \cup {}
        BY <1>2, <3>2 DEF Written
      <4>3. y \notin Written
        BY <1>2, <3>2 DEF Written
      <4>. QED BY <4>1, <4>2, <4>3
    <3>3. CASE ~(y.lane = l /\ y.gen = g)
      BY <1>2, <1>3, <3>1, <3>3 DEF Written
    <3>. QED BY <3>2, <3>3
  <2>2. Written \subseteq Record /\ Written' \subseteq Record
    BY DEF Written
  <2>. QED BY <1>3, <2>1, <2>2
<1>6. ActiveIsLive'
  BY <1>1, <1>2 DEF RecordsInv, ActiveIsLive
<1>7. ASSUME NEW r \in receipts, NEW c \in r.candidates
      PROVE  /\ c.gen \in DOMAIN lanes'[c.lane] /\ lanes'[c.lane][c.gen].state \in Closed
             /\ lanes'[c.lane][c.gen].has = lanes[c.lane][c.gen].has
  BY <1>2, CandidateTypes, PlanNames DEF RecordsInv, PlansAreExact
<1>. HIDE DEF x
<1>. QED BY <1>1, <1>3, <1>4, <1>5, <1>6, <1>7, Joined

\* A lane gets its lease, or a late init its profile.
LEMMA GrowStep ==
  ASSUME TypeOK, RecordsInv, AllAtWork, NEW l \in Lane, NEW g \in DOMAIN lanes[l],
         Claim(l, g) \/ WriteProfile(l, g)
  PROVE  RecordsInv' /\ AllAtWork'
<1>1. PICK kind \in {"lease", "profile"} :
        /\ kind = "lease" <=> Claim(l, g)
        /\ Grown(l, g, kind)
        /\ live' = live \cup {Rec(kind, l, g)}
        /\ UNCHANGED <<receipts, archiveLock, pc, job>>
  <2>1. CASE Claim(l, g)
    BY <2>1 DEF Claim, Grown
  <2>2. CASE ~Claim(l, g)
    BY <2>2 DEF WriteProfile, Grown
  <2>. QED BY <2>1, <2>2
<1>. DEFINE x == Rec(kind, l, g)
<1>2. \A k \in Lane :
        /\ Len(lanes'[k]) = Len(lanes[k]) /\ DOMAIN lanes'[k] = DOMAIN lanes[k]
        /\ \A h \in DOMAIN lanes[k] :
             /\ lanes'[k][h].state = lanes[k][h].state
             /\ k # l \/ h # g => lanes'[k][h].has = lanes[k][h].has
  BY <1>1, GrownLanes
<1>3. x \in Record /\ Written' = Written \cup {x} /\ lanes'[l][g].has = lanes[l][g].has \cup {kind}
  BY <1>1, GrownLanes
<1>4. x.kind = kind /\ x.lane = l /\ x.gen = g
  BY DEF Rec
<1>5. ASSUME kind = "lease"
      PROVE  /\ LaneFree(l) /\ Manifest(l, g) \in live /\ lanes[l][g].state = "active"
             /\ "lease" \notin lanes[l][g].has /\ ~\E y \in live : y.kind = "lease" /\ y.lane = l
  BY <1>1, <1>5 DEF Claim, LinksOK
<1>6. ~IsLive(Name(x))
  <2>1. CASE kind = "profile"
    BY <1>1, <2>1 DEF WriteProfile
  <2>2. CASE kind = "lease"
    BY <1>3, <1>4, <1>5, <2>2, NameFacts DEF IsLive, In, Names, TypeOK
  <2>. QED BY <2>1, <2>2
<1>7. x.kind # "profile" => x \notin Written /\ LaneFree(x.lane)
  BY <1>3, <1>4, <1>5 DEF Written
<1>8. ActiveIsLive'
  BY <1>1, <1>2 DEF RecordsInv, ActiveIsLive
<1>9. ASSUME NEW r \in receipts, NEW c \in r.candidates
      PROVE  /\ c.gen \in DOMAIN lanes'[c.lane] /\ lanes'[c.lane][c.gen].state \in Closed
             /\ lanes'[c.lane][c.gen].has \ {"profile"} = lanes[c.lane][c.gen].has \ {"profile"}
  <2>1. c.lane \in Lane /\ c.gen \in DOMAIN lanes[c.lane] /\ lanes[c.lane][c.gen].state \in Closed
    BY CandidateTypes, PlanNames DEF RecordsInv, PlansAreExact
  <2>2. kind = "lease" => ~(c.lane = l /\ c.gen = g)
    BY <1>5, <2>1 DEF Closed
  <2>. QED BY <1>2, <1>3, <2>1, <2>2
<1>. HIDE DEF x
<1>. QED BY <1>1, <1>3, <1>4, <1>5, <1>6, <1>7, <1>8, <1>9, Joined DEF x
-----------------------------------------------------------------------------
(* Types. *)

LEMMA WriteTypes ==
  ASSUME TypeOK, RecordsInv, AllAtWork, NEW p \in Proc,
         \/ Complete(p) \/ Relock(p) \/ Restored(p)
         \/ \E n \in job[p].todo : Move(p, n) \/ MoveBack(p, n)
  PROVE  TypeOK'
<1>. DEFINE r == Receipt(p)
<1>1. pc[p] \in Working
  BY DEF Complete, Relock, Restored, Move, MoveBack, Working
<1>2. r \in receipts /\ r \in ReceiptRecord /\ live \subseteq Record
  BY <1>1, AtReceipt DEF TypeOK
<1>. HIDE DEF r
<1>3. UNCHANGED <<now, lanes, moved, stops>>
  BY DEF Complete, Relock, Restored, Move, MoveBack, Quiet
<1>4. live' \subseteq Record
        /\ \E new \in ReceiptRecord : PlanOf(new) = PlanOf(r) /\ Save(r, new)
  <2>1. ASSUME NEW st \in ReceiptState, Save(r, [r EXCEPT !.state = st]), live' = live
        PROVE  live' \subseteq Record
               /\ \E new \in ReceiptRecord : PlanOf(new) = PlanOf(r) /\ Save(r, new)
    BY <1>2, <2>1 DEF ReceiptRecord, PlanOf
  <2>2. ASSUME NEW T \in SUBSET Record, Save(r, [r EXCEPT !.stored = T]), live' \subseteq Record
        PROVE  live' \subseteq Record
               /\ \E new \in ReceiptRecord : PlanOf(new) = PlanOf(r) /\ Save(r, new)
    BY <1>2, <2>2 DEF ReceiptRecord, PlanOf
  <2>3. r.stored \subseteq Record
    BY <1>2 DEF ReceiptRecord
  <2>4. CASE Complete(p) \/ Relock(p) \/ Restored(p)
    BY <2>1, <2>4 DEF Complete, Relock, Restored, ReceiptState, r
  <2>5. ASSUME NEW n \in job[p].todo, Move(p, n) \/ MoveBack(p, n)
        PROVE  live' \subseteq Record
               /\ \E new \in ReceiptRecord : PlanOf(new) = PlanOf(r) /\ Save(r, new)
    <3>. DEFINE S == {x \in live : Name(x) = n}
                T == {x \in r.stored : Name(x) = n}
    <3>1. S \subseteq live /\ T \subseteq r.stored
      OBVIOUS
    <3>2. CASE Move(p, n)
      <4>1. live' = live \ S /\ Save(r, [r EXCEPT !.stored = r.stored \cup S])
        BY <3>2 DEF Move, r
      <4>. QED BY <1>2, <2>2, <2>3, <3>1, <4>1
    <3>3. CASE MoveBack(p, n)
      <4>1. live' = {x \in live : Name(x) # n} \cup T /\ Save(r, [r EXCEPT !.stored = r.stored \ T])
        BY <3>3 DEF MoveBack, r
      <4>. QED BY <1>2, <2>2, <2>3, <3>1, <4>1
    <3>. QED BY <2>5, <3>2, <3>3
  <2>. QED BY <2>4, <2>5
<1>5. receipts' \subseteq ReceiptRecord /\ \A s, t \in receipts' : PlanOf(s) = PlanOf(t) => s = t
  <2>1. PICK new \in ReceiptRecord : PlanOf(new) = PlanOf(r) /\ Save(r, new)
    BY <1>4
  <2>2. \A s, t \in receipts' : PlanOf(s) = PlanOf(t) => s = t
    BY <1>1, <2>1, Saved DEF r
  <2>. QED BY <2>1, <2>2 DEF Save, TypeOK
<1>6. /\ pc' \in [Proc -> Points] /\ job' \in [Proc -> Job] /\ archiveLock' \in Proc \cup {Free}
  <2>1. CASE End(p)
    BY <2>1, Ended DEF Job
  <2>2. CASE Relock(p)
    BY <2>2 DEF Relock, Goto, Points, TypeOK, Job
  <2>3. ASSUME NEW n \in job[p].todo, Move(p, n) \/ MoveBack(p, n)
        PROVE  UNCHANGED <<pc, archiveLock>> /\ job' \in [Proc -> Job]
    <3>1. UNCHANGED <<pc, archiveLock>> /\ job' = [job EXCEPT ![p].todo = @ \ {n}, ![p].free = {}]
      BY <2>3 DEF Move, MoveBack, Did
    <3>2. job[p] \in Job /\ job \in [Proc -> Job]
      BY DEF TypeOK, Job
    <3>3. [[job[p] EXCEPT !.todo = @ \ {n}] EXCEPT !.free = {}] \in Job
      BY <3>2 DEF Job
    <3>. QED BY <3>1, <3>2, <3>3
  <2>. QED BY <2>1, <2>2, <2>3 DEF Complete, Restored, TypeOK
<1>. QED BY <1>3, <1>4, <1>5, <1>6 DEF TypeOK, Job

LEMMA PreviewTypes ==
  ASSUME TypeOK, NEW p \in Proc, NEW S \in SUBSET Lane, Preview(p, S)
  PROVE  TypeOK'
<1>. DEFINE C == UNION {{Candidate(l, g) : g \in {g \in DOMAIN lanes[l] : Eligible(l, g, now)}} : l \in S}
<1>1. /\ job' = [job EXCEPT ![p].plan = [before |-> now, files |-> {}, candidates |-> C]]
      /\ pc' = [pc EXCEPT ![p] = "apply"]
      /\ UNCHANGED <<now, lanes, moved, stops, live, receipts, archiveLock>>
  BY DEF Preview, Goto, Quiet
<1>2. ASSUME NEW l \in S, NEW g \in DOMAIN lanes[l], Eligible(l, g, now)
      PROVE  Candidate(l, g) \in CandidateRecord
  <2>1. g \in 1..MaxGen /\ lanes[l][g].at \in Nat /\ lanes[l][g].state \in Closed
    BY <1>2, LaneTypes DEF Eligible, Generation
  <2>. QED BY <2>1 DEF Candidate, CandidateRecord
<1>3. C \subseteq CandidateRecord
  BY <1>2
<1>. HIDE DEF C
<1>4. [before |-> now, files |-> {}, candidates |-> C] \in Plan
  BY <1>3 DEF Plan, TypeOK
<1>5. job' \in [Proc -> Job]
  <2>1. job[p] \in Job /\ job \in [Proc -> Job]
    BY DEF TypeOK, Job
  <2>2. [job[p] EXCEPT !.plan = [before |-> now, files |-> {}, candidates |-> C]] \in Job
    BY <1>4, <2>1 DEF Job
  <2>. QED BY <1>1, <2>1, <2>2
<1>6. pc' \in [Proc -> Points]
  BY <1>1 DEF TypeOK, Points
<1>. QED BY <1>1, <1>5, <1>6 DEF TypeOK, Job

LEMMA ApplyTypes ==
  ASSUME TypeOK, NEW p \in Proc, Apply(p)
  PROVE  TypeOK'
<1>. DEFINE plan == [job[p].plan EXCEPT !.files = FilesFor(job[p].plan.candidates)]
            new == [before |-> plan.before, candidates |-> plan.candidates, files |-> plan.files,
                    state |-> "prepared", stored |-> {}]
<1>1. /\ archiveLock' = p /\ pc' = [pc EXCEPT ![p] = "check"]
      /\ UNCHANGED <<now, lanes, moved, stops, live>>
      /\ job' = [job EXCEPT ![p] = WorkOn(plan)]
      /\ UNCHANGED receipts \/ (receipts' = receipts \cup {new} /\ ~\E r \in receipts : PlanOf(r) = plan)
  BY DEF Apply, Prepare, Goto, Quiet
<1>2. \A candidates : FilesFor(candidates) \subseteq FileName
  BY NameFacts DEF FilesFor, Names, TypeOK
<1>3. plan \in Plan /\ plan.files \subseteq FileName
  BY <1>2 DEF TypeOK, Plan
<1>4. new \in ReceiptRecord /\ PlanOf(new) = plan
  BY <1>3 DEF Plan, ReceiptRecord, ReceiptState, PlanOf
<1>. HIDE DEF plan, new
<1>5. receipts' \subseteq ReceiptRecord /\ \A s, t \in receipts' : PlanOf(s) = PlanOf(t) => s = t
  BY <1>1, <1>4 DEF TypeOK
<1>6. WorkOn(plan) \in Job
  BY <1>3 DEF WorkOn, Job
<1>. QED BY <1>1, <1>5, <1>6 DEF TypeOK, Points, Job

LEMMA TakeUpTypes ==
  ASSUME TypeOK, AllAtWork, NEW p \in Proc,
         Check(p) \/ Refused(p) \/ Stop(p) \/ \E r \in receipts : Resume(p, r) \/ Restore(p, r)
  PROVE  TypeOK'
<1>1. UNCHANGED <<now, lanes, moved, live, receipts>> /\ stops' \in Nat
  BY DEF Check, Refused, Stop, Resume, Restore, Quiet, TypeOK
<1>2. /\ pc' \in [Proc -> Points] /\ job' \in [Proc -> Job] /\ archiveLock' \in Proc \cup {Free}
  <2>1. CASE Refused(p) \/ Stop(p)
    BY <2>1, Ended DEF Refused, Stop, Job
  <2>2. CASE Check(p)
    BY <2>2 DEF Check, Goto, Points, TypeOK, Job
  <2>3. ASSUME NEW r \in receipts, Resume(p, r) \/ Restore(p, r)
        PROVE  /\ pc' \in [Proc -> Points] /\ job' \in [Proc -> Job]
               /\ archiveLock' \in Proc \cup {Free}
    <3>1. PlanOf(r) \in Plan /\ r.files \in SUBSET FileName
      BY DEF TypeOK, ReceiptRecord, Plan, PlanOf
    <3>2. WorkOn(PlanOf(r)) \in Job
      BY <3>1 DEF Job, WorkOn, PlanOf
    <3>3. /\ job' = [job EXCEPT ![p] = WorkOn(PlanOf(r))] /\ archiveLock' = p
          /\ \E point \in Points : pc' = [pc EXCEPT ![p] = point]
      BY <2>3 DEF Resume, Restore, Goto, Points
    <3>. QED BY <3>2, <3>3 DEF TypeOK, Job
  <2>. QED BY <2>1, <2>2, <2>3
<1>. QED BY <1>1, <1>2 DEF TypeOK, Job

LEMMA LookTypes ==
  ASSUME TypeOK, NEW p \in Proc, NEW n \in job[p].todo, Look(p, n) \/ Skip(p, n)
  PROVE  TypeOK'
<1>1. job[p] \in Job /\ job \in [Proc -> Job] /\ n \in FileName
  BY DEF TypeOK, Job
<1>2. [job[p] EXCEPT !.free = {n}] \in Job /\ [[job[p] EXCEPT !.todo = @ \ {n}] EXCEPT !.free = {}] \in Job
  BY <1>1 DEF Job
<1>3. \/ job' = [job EXCEPT ![p].free = {n}]
      \/ job' = [job EXCEPT ![p].todo = @ \ {n}, ![p].free = {}]
  BY DEF Look, Skip, Did
<1>4. job' \in [Proc -> Job]
  BY <1>1, <1>2, <1>3
<1>5. UNCHANGED <<now, lanes, moved, stops, live, receipts, pc, archiveLock>>
  BY DEF Look, Skip, Quiet
<1>. QED BY <1>4, <1>5 DEF TypeOK, Job

LEMMA OthersTypes ==
  ASSUME TypeOK, Others
  PROVE  TypeOK'
<1>1. CASE Tick
  BY <1>1 DEF Tick, TypeOK
<1>2. ASSUME NEW l \in Lane, NEW g \in DOMAIN lanes[l], MoveRef(l, g) PROVE TypeOK'
  BY <1>2, LaneTypes DEF MoveRef, TypeOK
<1>3. ASSUME NEW l \in Lane, NEW g \in DOMAIN lanes[l], NEW s \in Closed, Close(l, g, s) PROVE TypeOK'
  <2>1. now' \in Nat /\ UNCHANGED <<live, receipts, moved, archiveLock, pc, job, stops>>
    BY <1>3 DEF Close, TypeOK
  <2>2. lanes' \in [Lane -> Seq(Generation)] /\ \A k \in Lane : Len(lanes'[k]) = Len(lanes[k])
    BY <1>3, ClosedLanes
  <2>. QED BY <2>1, <2>2 DEF TypeOK
<1>4. ASSUME NEW l \in Lane, Create(l) PROVE TypeOK'
  <2>1. /\ UNCHANGED <<now, receipts, moved, archiveLock, pc, job, stops>>
        /\ live' = live \cup {Manifest(l, Len(lanes[l]) + 1)}
    BY <1>4 DEF Create
  <2>2. /\ lanes' \in [Lane -> Seq(Generation)] /\ Len(lanes[l]) + 1 \in 1..MaxGen
        /\ Len(lanes'[l]) = Len(lanes[l]) + 1 /\ \A k \in Lane : k # l => lanes'[k] = lanes[k]
    BY <1>4, CreatedLanes
  <2>3. Manifest(l, Len(lanes[l]) + 1) \in Record
    BY <2>2, ManifestFacts
  <2>4. \A k \in Lane : Len(lanes'[k]) <= MaxGen
    <3>1. Len(lanes[l]) \in Nat /\ MaxGen \in Nat
      BY LaneTypes
    <3>2. Len(lanes'[l]) <= MaxGen
      BY <2>2, <3>1
    <3>. QED BY <2>2, <3>2 DEF TypeOK
  <2>. QED BY <2>1, <2>2, <2>3, <2>4 DEF TypeOK
<1>5. ASSUME NEW l \in Lane, NEW g \in DOMAIN lanes[l], Claim(l, g) \/ WriteProfile(l, g) PROVE TypeOK'
  <2>1. PICK kind \in {"lease", "profile"} :
          /\ Grown(l, g, kind)
          /\ live' = live \cup {Rec(kind, l, g)}
          /\ UNCHANGED <<now, receipts, moved, archiveLock, pc, job, stops>>
    BY <1>5 DEF Claim, WriteProfile, Grown
  <2>2. /\ lanes' \in [Lane -> Seq(Generation)] /\ \A k \in Lane : Len(lanes'[k]) = Len(lanes[k])
        /\ Rec(kind, l, g) \in Record
    BY <2>1, GrownLanes
  <2>. QED BY <2>1, <2>2 DEF TypeOK
<1>. QED BY <1>1, <1>2, <1>3, <1>4, <1>5, ArchiveAssumption DEF Others
-----------------------------------------------------------------------------
(* The invariant and what follows from it. *)

LEMMA InitInv == Init => ArchiveInv
<1>. SUFFICES ASSUME Init PROVE ArchiveInv
  OBVIOUS
<1>. DEFINE G == [state : {"active", "released"}, at : {1}, has : Support]
<1>1. ASSUME NEW l \in Lane
      PROVE  /\ lanes[l] \in Seq(Generation) /\ Len(lanes[l]) = 1 /\ DOMAIN lanes[l] = {1}
             /\ lanes[l][1].has \subseteq {"lease", "profile"}
  <2>1. PICK gen \in G : lanes[l] = <<gen>>
    BY DEF Init
  <2>2. gen \in Generation
    BY ArchiveAssumption DEF Generation, Closed
  <2>. QED BY <2>1, <2>2 DEF Generation
<1>2. 1 \in 1..MaxGen /\ 1 <= MaxGen
  BY ArchiveAssumption
<1>3. live = Written
  <2>1. ASSUME NEW x \in live PROVE x \in Written
    <3>1. PICK l \in Lane : x \in RecordsOf(l, 1, lanes[l][1].has)
      BY DEF Init
    <3>2. PICK k \in {"lane"} \cup lanes[l][1].has : x = Rec(k, l, 1)
      BY <3>1 DEF RecordsOf
    <3>3. k \in Kind
      BY <1>1, <3>2 DEF Kind
    <3>4. x \in Record /\ x.kind = k /\ x.lane = l /\ x.gen = 1
      BY <1>2, <3>2, <3>3, RecordFacts
    <3>. QED BY <1>1, <3>2, <3>4 DEF Written
  <2>2. ASSUME NEW x \in Written PROVE x \in live
    <3>1. x \in Record /\ x.lane \in Lane /\ x = Rec(x.kind, x.lane, x.gen)
      BY RecordFacts DEF Written
    <3>2. x.gen = 1 /\ x.kind \in {"lane"} \cup lanes[x.lane][1].has
      BY <1>1, <3>1 DEF Written
    <3>3. x \in RecordsOf(x.lane, 1, lanes[x.lane][1].has)
      BY <3>1, <3>2 DEF RecordsOf
    <3>. QED BY <3>1, <3>3 DEF Init
  <2>. QED BY <2>1, <2>2
<1>4. ASSUME NEW l \in Lane PROVE Manifest(l, 1) \in live
  <2>1. Manifest(l, 1) \in RecordsOf(l, 1, lanes[l][1].has)
    BY DEF RecordsOf, Manifest
  <2>. QED BY <2>1 DEF Init
<1>5. ASSUME NEW x \in live, NEW y \in live, Name(x) = Name(y) PROVE x = y
  <2>1. x \in Record /\ y \in Record /\ x.gen = 1 /\ y.gen = 1
    BY <1>1, <1>3, RecordFacts DEF Written
  <2>. QED BY <1>5, <2>1, NameFacts
<1>6. TypeOK
  <2>1. live \subseteq Record
    BY <1>3 DEF Written
  <2>2. lanes \in [Lane -> Seq(Generation)] /\ \A l \in Lane : Len(lanes[l]) <= MaxGen
    BY <1>1, <1>2 DEF Init
  <2>3. Idle \in Job
    BY DEF Idle, NoPlan, Plan, Job
  <2>. QED BY <2>1, <2>2, <2>3 DEF Init, TypeOK, Points, Job
<1>7. RecordsKept /\ OnlyWritten /\ PlansAreExact /\ CompleteIsStored
  <2>1. receipts = {}
    BY DEF Init
  <2>2. RecordsKept
    BY <1>3, <1>5, <2>1 DEF RecordsKept, IsLive, In, Names
  <2>. QED BY <1>3, <2>1, <2>2 DEF OnlyWritten, PlansAreExact, CompleteIsStored
<1>8. ActiveIsLive
  BY <1>1, <1>4 DEF ActiveIsLive
<1>9. NoOrphans
  <2>1. ASSUME NEW x \in live PROVE Manifest(x.lane, x.gen) \in live
    BY <1>1, <1>3, <1>4, RecordFacts DEF Written
  <2>. QED BY <2>1 DEF NoOrphans
<1>10. AllAtWork
  BY DEF Init, AllAtWork, AtWork, Idle
<1>. QED BY <1>6, <1>7, <1>8, <1>9, <1>10 DEF ArchiveInv

LEMMA NextInv == ArchiveInv /\ [Next]_vars => ArchiveInv'
<1>. SUFFICES ASSUME ArchiveInv, [Next]_vars PROVE ArchiveInv'
  OBVIOUS
<1>1. TypeOK /\ RecordsInv /\ AllAtWork
  BY DEF ArchiveInv, RecordsInv
<1>2. SUFFICES TypeOK' /\ RecordsInv' /\ AllAtWork'
  BY DEF ArchiveInv, RecordsInv
<1>3. CASE Others
  <2>1. TypeOK'
    BY <1>1, <1>3, OthersTypes
  <2>2. CASE Tick \/ \E l \in Lane : \E g \in DOMAIN lanes[l] : MoveRef(l, g)
    BY <1>1, <2>1, <2>2, AsideStep
  <2>3. ASSUME NEW l \in Lane, NEW g \in DOMAIN lanes[l], NEW s \in Closed, Close(l, g, s)
        PROVE  RecordsInv' /\ AllAtWork'
    BY <1>1, <2>3, CloseStep
  <2>4. ASSUME NEW l \in Lane, Create(l) PROVE RecordsInv' /\ AllAtWork'
    BY <1>1, <2>4, CreateStep
  <2>5. ASSUME NEW l \in Lane, NEW g \in DOMAIN lanes[l], Claim(l, g) \/ WriteProfile(l, g)
        PROVE  RecordsInv' /\ AllAtWork'
    BY <1>1, <2>5, GrowStep
  <2>. QED BY <1>3, <2>1, <2>2, <2>3, <2>4, <2>5, ArchiveAssumption DEF Others
<1>4. ASSUME NEW p \in Proc, Archiving(p) PROVE TypeOK' /\ RecordsInv' /\ AllAtWork'
  <2>1. ASSUME NEW S \in SUBSET Lane, Preview(p, S) PROVE TypeOK' /\ RecordsInv' /\ AllAtWork'
    BY <1>1, <2>1, PreviewTypes, PreviewOrEnd
  <2>2. CASE Apply(p)
    BY <1>1, <2>2, ApplyTypes, ApplyStep
  <2>3. CASE Check(p)
    BY <1>1, <2>3, TakeUpTypes, CheckStep
  <2>4. CASE Complete(p)
    BY <1>1, <2>4, WriteTypes, CompleteStep
  <2>5. ASSUME NEW n \in job[p].todo, Move(p, n) PROVE TypeOK' /\ RecordsInv' /\ AllAtWork'
    BY <1>1, <2>5, WriteTypes, MoveStep
  <2>6. ASSUME NEW r \in receipts, Resume(p, r) PROVE TypeOK' /\ RecordsInv' /\ AllAtWork'
    BY <1>1, <2>6, TakeUpTypes, TakeUpStep
  <2>. QED BY <1>4, <2>1, <2>2, <2>3, <2>4, <2>5, <2>6 DEF Archiving
<1>5. ASSUME NEW p \in Proc, Restoring(p) PROVE TypeOK' /\ RecordsInv' /\ AllAtWork'
  <2>1. ASSUME NEW r \in receipts, Restore(p, r) PROVE TypeOK' /\ RecordsInv' /\ AllAtWork'
    BY <1>1, <2>1, TakeUpTypes, TakeUpStep
  <2>2. CASE Relock(p)
    BY <1>1, <2>2, WriteTypes, RelockStep
  <2>3. CASE Restored(p)
    BY <1>1, <2>3, WriteTypes, RestoredStep
  <2>4. ASSUME NEW n \in job[p].todo, MoveBack(p, n) PROVE TypeOK' /\ RecordsInv' /\ AllAtWork'
    BY <1>1, <2>4, WriteTypes, MoveBackStep
  <2>5. ASSUME NEW n \in job[p].todo, Look(p, n) \/ Skip(p, n) PROVE TypeOK' /\ RecordsInv' /\ AllAtWork'
    BY <1>1, <2>5, LookTypes, LookStep
  <2>. QED BY <1>5, <2>1, <2>2, <2>3, <2>4, <2>5 DEF Restoring
<1>6. ASSUME NEW p \in Proc, Refused(p) \/ Stop(p) PROVE TypeOK' /\ RecordsInv' /\ AllAtWork'
  BY <1>1, <1>6, TakeUpTypes, PreviewOrEnd
<1>7. CASE UNCHANGED vars
  <2>1. TypeOK'
    BY <1>1, <1>7 DEF vars, TypeOK
  <2>2. AllAtWork'
    BY <1>1, <1>7, AtWorkKept DEF vars, AllAtWork
  <2>. QED BY <1>1, <1>7, <2>1, <2>2, RecordsUntouched DEF vars
<1>. QED BY <1>3, <1>4, <1>5, <1>6, <1>7 DEF Next

\* The inductive invariant holds, for every set of commands, lanes and kinds of
\* record, and all bounds.
THEOREM ArchiveInvariant == Spec => []ArchiveInv
<1>. QED BY InitInv, NextInv, PTL DEF Spec

\* Every variable has its type, and no two receipts have one identifier.
THEOREM TypeCorrect == Spec => []TypeOK
<1>1. ArchiveInv => TypeOK
  BY DEF ArchiveInv
<1>. QED BY <1>1, ArchiveInvariant, PTL

\* No rename, stop, resume, restore or use of a lane identifier loses or doubles a
\* manifest or a lease, loses a profile name, or puts two records under one name in
\* a directory (MoveArchiveFile).
THEOREM RecordsAreKept == Spec => []RecordsKept
<1>1. ArchiveInv => RecordsKept
  BY DEF ArchiveInv
<1>. QED BY <1>1, ArchiveInvariant, PTL

\* What a complete receipt says is in the batch.
THEOREM CompleteBatches == Spec => []CompleteIsStored
<1>1. ArchiveInv => CompleteIsStored
  BY DEF ArchiveInv
<1>. QED BY <1>1, ArchiveInvariant, PTL

\* The leases of two generations of a lane are only live together, or one with
\* the manifest of another, under a receipt in state restoring.
THEOREM MixedIsAnnounced == Spec => []MixedIsReported
<1>1. ASSUME ArchiveInv PROVE MixedIsReported
  <2>. SUFFICES ASSUME NEW x \in live, NEW y \in live, x.kind = "lease", y.kind \in {"lease", "lane"},
                       x.lane = y.lane, x.gen # y.gen,
                       ~\E r \in receipts : r.state = "restoring" /\ x.lane \in LanesOf(r)
                PROVE  FALSE
    BY DEF MixedIsReported
  <2>1. x \in Record /\ y \in Record
    BY <1>1 DEF ArchiveInv, TypeOK
  <2>2. ASSUME NEW z \in live, z.kind = "lease", z.lane = x.lane PROVE Manifest(z.lane, z.gen) \in live
    BY <1>1, <2>2 DEF ArchiveInv, NoOrphans, LanesOf
  <2>3. Manifest(x.lane, x.gen) \in live /\ Manifest(y.lane, y.gen) \in live
    BY <2>1, <2>2, RecordFacts DEF Manifest
  <2>4. Manifest(x.lane, x.gen) = Manifest(y.lane, y.gen)
    BY <1>1, <2>1, <2>3, ManifestFacts, RecordFacts DEF ArchiveInv, RecordsKept
  <2>. QED BY <2>1, <2>4, ManifestFacts, RecordFacts
<1>. QED BY <1>1, ArchiveInvariant, PTL

\* However old the preview, only records of closed generations leave the state
\* directory: the checks under the locks and what is live under a name of the
\* receipt decide (ApplyArchivePlan, MoveArchiveFile).  The one exception is a
\* profile that a late init wrote and the rename of a restore replaces.
THEOREM OnlyClosedAreArchived == Spec => OnlyClosedLeave
<1>. DEFINE Kept == \A x \in live \ live' :
                      \/ lanes[x.lane][x.gen].state \in Closed
                      \/ x.kind = "profile" /\ In(Name(x), live')
<1>1. ASSUME ArchiveInv, [Next]_vars PROVE [Kept]_vars
  <2>1. TypeOK /\ RecordsInv /\ AllAtWork
    BY <1>1 DEF ArchiveInv, RecordsInv
  <2>2. ASSUME NEW p \in Proc, NEW n \in job[p].todo, Move(p, n) PROVE Kept
    <3>1. pc[p] = "move" /\ pc[p] \in Working /\ live' = live \ {x \in live : Name(x) = n}
      BY <2>2 DEF Move, Working
    <3>2. /\ Receipt(p) \in receipts /\ n \in Receipt(p).files
          /\ Sided(Receipt(p)) /\ HasManifests(Receipt(p))
      BY <2>1, <3>1, AtReceipt DEF AllAtWork, AtWork, Sided
    <3>3. \A x \in live \ live' : lanes[x.lane][x.gen].state \in Closed
      BY <2>1, <3>1, <3>2, NamedIsClosed
    <3>. QED BY <3>3
  <2>3. ASSUME NEW p \in Proc, NEW n \in job[p].todo, MoveBack(p, n) PROVE Kept
    <3>. DEFINE S == {x \in Receipt(p).stored : Name(x) = n}
    <3>1. pc[p] = "back" /\ n \in job[p].free /\ live' = {x \in live : Name(x) # n} \cup S
      BY <2>3 DEF MoveBack
    <3>2. In(n, Receipt(p).stored) /\ (n.kind # "profile" => ~IsLive(n))
      BY <2>1, <3>1 DEF AllAtWork, AtWork
    <3>3. In(n, live')
      BY <3>1, <3>2 DEF In, Names
    <3>4. \A x \in live \ live' : Name(x) = n /\ x \in Record
      BY <2>1, <3>1 DEF TypeOK
    <3>5. \A x \in live \ live' : x.kind = "profile" /\ In(Name(x), live')
      BY <3>2, <3>3, <3>4, NameFacts DEF IsLive, In, Names
    <3>. QED BY <3>5
  <2>4. CASE live \subseteq live'
    BY <2>4
  <2>5. live \subseteq live' \/ \E p \in Proc : \E n \in job[p].todo : Move(p, n) \/ MoveBack(p, n)
    <3>1. CASE Others
      BY <3>1 DEF Others, Tick, MoveRef, Close, Create, Claim, WriteProfile
    <3>2. ASSUME NEW p \in Proc, Archiving(p)
          PROVE  live \subseteq live' \/ \E n \in job[p].todo : Move(p, n)
      BY <3>2 DEF Archiving, Preview, Apply, Check, Complete, Resume, Quiet
    <3>3. ASSUME NEW p \in Proc, Restoring(p)
          PROVE  live \subseteq live' \/ \E n \in job[p].todo : MoveBack(p, n)
      BY <3>3 DEF Restoring, Restore, Relock, Restored, Look, Skip, Quiet
    <3>4. ASSUME NEW p \in Proc, Refused(p) \/ Stop(p) PROVE live \subseteq live'
      BY <3>4 DEF Refused, Stop, Quiet
    <3>. QED BY <1>1, <3>1, <3>2, <3>3, <3>4 DEF Next, vars
  <2>. QED BY <2>2, <2>3, <2>4, <2>5
<1>. QED BY <1>1, ArchiveInvariant, PTL DEF Spec, OnlyClosedLeave
-----------------------------------------------------------------------------
(* A stopped archive or restore can be taken up again. *)

\* No step unwrites a record.
LEMMA WrittenStays ==
  ASSUME TypeOK, [Next]_vars
  PROVE  Written \subseteq Written'
<1>1. CASE UNCHANGED lanes
  BY <1>1 DEF Written
<1>2. ASSUME NEW l \in Lane, NEW g \in DOMAIN lanes[l], NEW s \in Closed, Close(l, g, s)
      PROVE  Written \subseteq Written'
  <2>1. \A k \in Lane : /\ DOMAIN lanes'[k] = DOMAIN lanes[k]
                        /\ \A h \in DOMAIN lanes[k] : lanes'[k][h].has = lanes[k][h].has
    BY <1>2, ClosedLanes
  <2>. QED BY <2>1, RecordFacts DEF Written
<1>3. ASSUME NEW l \in Lane, Create(l) PROVE Written \subseteq Written'
  <2>1. \A k \in Lane : \A h \in DOMAIN lanes[k] : h \in DOMAIN lanes'[k] /\ lanes'[k][h] = lanes[k][h]
    BY <1>3, CreatedLanes
  <2>. QED BY <2>1, RecordFacts DEF Written
<1>4. \/ UNCHANGED lanes
      \/ \E l \in Lane : \E g \in DOMAIN lanes[l] : \E s \in Closed : Close(l, g, s)
      \/ \E l \in Lane : Create(l)
      \/ \E l \in Lane : \E g \in DOMAIN lanes[l] : Claim(l, g) \/ WriteProfile(l, g)
  <2>1. CASE Others
    BY <2>1, ArchiveAssumption DEF Others, Tick, MoveRef
  <2>2. ASSUME NEW p \in Proc, Archiving(p) PROVE UNCHANGED lanes
    BY <2>2 DEF Archiving, Preview, Apply, Check, Move, Complete, Resume, Quiet
  <2>3. ASSUME NEW p \in Proc, Restoring(p) PROVE UNCHANGED lanes
    BY <2>3 DEF Restoring, Restore, Relock, Restored, Look, Skip, MoveBack, Quiet
  <2>4. ASSUME NEW p \in Proc, Refused(p) \/ Stop(p) PROVE UNCHANGED lanes
    BY <2>4 DEF Refused, Stop, Quiet
  <2>. QED BY <2>1, <2>2, <2>3, <2>4 DEF Next, vars
<1>5. ASSUME NEW l \in Lane, NEW g \in DOMAIN lanes[l], Claim(l, g) \/ WriteProfile(l, g)
      PROVE  Written \subseteq Written'
  <2>1. PICK kind \in {"lease", "profile"} : Grown(l, g, kind)
    BY <1>5 DEF Claim, WriteProfile, Grown
  <2>. QED BY <2>1, GrownLanes
<1>. QED BY <1>1, <1>2, <1>3, <1>4, <1>5

\* Where the receipts of a step come from: an earlier receipt that keeps its
\* files, restored only with its batch empty, or a new one for live files.
LEMMA ReceiptStep ==
  ASSUME TypeOK, RecordsInv, AllAtWork, PlacesInv, [Next]_vars, NEW s \in receipts'
  PROVE  /\ s.files \subseteq Names(live) \/ \E r \in receipts : s.files = r.files
         /\ s.state = "restored" => s.stored = {}
<1>1. CASE s \in receipts
  BY <1>1 DEF PlacesInv
<1>2. ASSUME NEW p \in Proc, Apply(p), s \notin receipts
      PROVE  s.files \subseteq Names(live) /\ s.state # "restored"
  <2>1. s.state = "prepared" /\ s.files = FilesFor(s.candidates)
    BY <1>2 DEF Apply, Prepare
  <2>. QED BY <2>1 DEF FilesFor, Names
<1>3. ASSUME NEW p \in Proc, pc[p] \in Working, NEW new, Save(Receipt(p), new),
             new.files = Receipt(p).files, new.state = "restored" => new.stored = {},
             s \notin receipts
      PROVE  (\E r \in receipts : s.files = r.files) /\ (s.state = "restored" => s.stored = {})
  BY <1>3, AtReceipt DEF Save
<1>4. ASSUME NEW p \in Proc, NEW n \in job[p].todo, Move(p, n) \/ MoveBack(p, n), s \notin receipts
      PROVE  (\E r \in receipts : s.files = r.files) /\ (s.state = "restored" => s.stored = {})
  <2>. DEFINE r == Receipt(p)
  <2>1. pc[p] \in Working /\ \E S : Save(r, [r EXCEPT !.stored = S])
    BY <1>4 DEF Move, MoveBack, Working
  <2>2. r \in ReceiptRecord /\ r.state # "restored"
    BY <1>4, <2>1, AtReceipt DEF AllAtWork, AtWork, Move, MoveBack
  <2>3. PICK S : Save(r, [r EXCEPT !.stored = S])
    BY <2>1
  <2>4. [r EXCEPT !.stored = S].files = r.files /\ [r EXCEPT !.stored = S].state = r.state
    BY <2>2 DEF ReceiptRecord
  <2>. QED BY <1>3, <1>4, <2>1, <2>2, <2>3, <2>4
<1>5. ASSUME NEW p \in Proc, Complete(p) \/ Relock(p), s \notin receipts
      PROVE  (\E r \in receipts : s.files = r.files) /\ (s.state = "restored" => s.stored = {})
  <2>. DEFINE r == Receipt(p)
  <2>1. PICK st \in {"complete", "restoring"} : pc[p] \in Working /\ Save(r, [r EXCEPT !.state = st])
    BY <1>5 DEF Complete, Relock, Working
  <2>2. r \in ReceiptRecord
    BY <2>1, AtReceipt
  <2>3. [r EXCEPT !.state = st].files = r.files /\ [r EXCEPT !.state = st].state # "restored"
    BY <2>2 DEF ReceiptRecord
  <2>. QED BY <1>3, <1>5, <2>1, <2>3
<1>6. ASSUME NEW p \in Proc, Restored(p), s \notin receipts
      PROVE  (\E r \in receipts : s.files = r.files) /\ (s.state = "restored" => s.stored = {})
  <2>. DEFINE r == Receipt(p)
              new == [r EXCEPT !.state = "restored"]
  <2>1. pc[p] = "back" /\ pc[p] \in Working /\ job[p].todo = {} /\ Save(r, new)
    BY <1>6 DEF Restored, Working
  <2>2. r \in ReceiptRecord /\ r \in receipts
    BY <2>1, AtReceipt
  <2>3. \A n \in r.files : ~In(n, r.stored)
    BY <2>1 DEF AllAtWork, AtWork
  <2>4. r.stored = {}
    BY <2>2, <2>3 DEF RecordsInv, OnlyWritten, In, Names
  <2>5. new.files = r.files /\ new.stored = r.stored
    BY <2>2 DEF ReceiptRecord
  <2>. QED BY <1>3, <1>6, <2>1, <2>4, <2>5
<1>7. \/ UNCHANGED receipts
      \/ \E p \in Proc : \/ Apply(p) \/ Complete(p) \/ Relock(p) \/ Restored(p)
                         \/ \E n \in job[p].todo : Move(p, n) \/ MoveBack(p, n)
  <2>1. CASE Others
    BY <2>1 DEF Others, Tick, MoveRef, Close, Create, Claim, WriteProfile
  <2>2. ASSUME NEW p \in Proc, Archiving(p)
        PROVE  UNCHANGED receipts \/ Apply(p) \/ Complete(p) \/ \E n \in job[p].todo : Move(p, n)
    BY <2>2 DEF Archiving, Preview, Check, Resume, Quiet
  <2>3. ASSUME NEW p \in Proc, Restoring(p)
        PROVE  UNCHANGED receipts \/ Relock(p) \/ Restored(p) \/ \E n \in job[p].todo : MoveBack(p, n)
    BY <2>3 DEF Restoring, Restore, Look, Skip, Quiet
  <2>4. ASSUME NEW p \in Proc, Refused(p) \/ Stop(p) PROVE UNCHANGED receipts
    BY <2>4 DEF Refused, Stop, Quiet
  <2>. QED BY <2>1, <2>2, <2>3, <2>4 DEF Next, vars
<1>. QED BY <1>1, <1>2, <1>4, <1>5, <1>6, <1>7

LEMMA PlacesStep == ArchiveInv /\ PlacesInv /\ [Next]_vars => PlacesInv'
<1>. SUFFICES ASSUME ArchiveInv, PlacesInv, [Next]_vars, NEW s \in receipts'
              PROVE  s.files \subseteq Names(Written)' /\ (s.state = "restored" => s.stored = {})
  BY DEF PlacesInv
<1>1. TypeOK /\ RecordsInv /\ AllAtWork
  BY DEF ArchiveInv, RecordsInv
<1>2. Names(live) \subseteq Names(Written) /\ \A r \in receipts : r.files \subseteq Names(Written)
  BY <1>1 DEF RecordsInv, OnlyWritten, Names, PlacesInv
<1>3. Names(Written) \subseteq Names(Written)'
  BY <1>1, WrittenStays DEF Names
<1>. QED BY <1>1, <1>2, <1>3, ReceiptStep

\* Each file of a receipt is live, in its batch or in that of another receipt.
LEMMA FilesAreSomewhere ==
  ASSUME RecordsInv, PlacesInv, NEW r \in receipts, NEW n \in r.files
  PROVE  IsLive(n) \/ \E s \in receipts : In(n, s.stored)
<1>1. PICK x \in Written : Name(x) = n
  BY DEF PlacesInv, Names
<1>2. CASE x.kind = "profile"
  BY <1>1, <1>2 DEF RecordsInv, RecordsKept
<1>3. CASE x.kind # "profile"
  <2>. DEFINE stored == \E s \in receipts : x \in s.stored
  <2>1. (x \in live) # stored
    BY <1>1, <1>3 DEF RecordsInv, RecordsKept
  <2>2. stored \in BOOLEAN
    OBVIOUS
  <2>. HIDE DEF stored
  <2>3. x \in live \/ stored
    BY <2>1, <2>2
  <2>. QED BY <1>1, <2>3 DEF stored, IsLive, In, Names
<1>. QED BY <1>2, <1>3

\* A receipt that nothing came between has each of its files on one side.
LEMMA UndisturbedFiles ==
  ASSUME TypeOK, RecordsInv, PlacesInv, NEW r \in receipts, ~Disturbed(r), NEW n \in r.files
  PROVE  IsLive(n) # In(n, r.stored)
<1>1. IsLive(n) \/ In(n, r.stored)
  BY FilesAreSomewhere DEF Disturbed
<1>2. ASSUME IsLive(n), In(n, r.stored) PROVE FALSE
  <2>1. PICK x \in live, y \in r.stored : Name(x) = n /\ Name(y) = n
    BY <1>2 DEF IsLive, In, Names
  <2>2. x \in Record /\ y \in Record
    BY CandidateTypes DEF TypeOK
  <2>3. x.kind # "profile" /\ (x.kind = "lane" => x.gen = y.gen)
    BY <2>1 DEF Disturbed
  <2>4. x = y
    BY <2>1, <2>2, <2>3, NameFacts, RecordFacts DEF Kind
  <2>5. (x \in live) # (\E s \in receipts : x \in s.stored)
    BY <2>3 DEF RecordsInv, RecordsKept, OnlyWritten
  <2>. QED BY <2>4, <2>5
<1>3. IsLive(n) \in BOOLEAN /\ In(n, r.stored) \in BOOLEAN
  BY DEF IsLive, In
<1>. QED BY <1>1, <1>2, <1>3

LEMMA UndisturbedIsOK ==
  ASSUME TypeOK, RecordsInv, PlacesInv, NEW r \in receipts, ~Disturbed(r)
  PROVE  FilesOK(r)
<1>1. OneSide(r)
  BY UndisturbedFiles DEF OneSide
<1>2. r.state = "complete" => r.files \subseteq Names(r.stored)
  BY DEF RecordsInv, CompleteIsStored
<1>3. r.state = "restored" => r.files \subseteq Names(live)
  BY <1>1 DEF PlacesInv, OneSide, IsLive, In, Names
<1>4. ASSUME NEW c \in r.candidates
      PROVE  /\ Manifest(c.lane, c.gen) \in live \cup r.stored
             /\ lanes[c.lane][c.gen].state = c.state /\ lanes[c.lane][c.gen].at = c.at
  <2>. DEFINE m == Manifest(c.lane, c.gen)
              stored == \E s \in receipts : m \in s.stored
  <2>1. lanes[c.lane][c.gen].state = c.state /\ lanes[c.lane][c.gen].at = c.at
    BY DEF Disturbed
  <2>2. m \in Written /\ m.kind # "profile"
    BY CandidateTypes, PlanNames DEF RecordsInv, PlansAreExact, Written
  <2>3. (m \in live) # stored
    BY <2>2 DEF RecordsInv, RecordsKept
  <2>4. stored \in BOOLEAN
    OBVIOUS
  <2>5. stored => m \in r.stored
    BY DEF Disturbed
  <2>. HIDE DEF stored
  <2>. QED BY <2>1, <2>3, <2>4, <2>5
<1>. QED BY <1>1, <1>2, <1>3, <1>4 DEF FilesOK

\* Wherever apply, resume and restore stop, the batch passes ValidateArchiveFiles,
\* unless a late close rewrote a manifest, a new lane's manifest or a profile took
\* a live name beside its file in the batch, or another plan took some of the files.
THEOREM StoppedBatchesContinue == Spec => []StoppedCanContinue
<1>1. Init => PlacesInv
  BY DEF Init, PlacesInv
<1>2. ArchiveInv /\ PlacesInv => StoppedCanContinue
  BY UndisturbedIsOK DEF ArchiveInv, RecordsInv, StoppedCanContinue
<1>. QED BY <1>1, <1>2, PlacesStep, ArchiveInvariant, PTL DEF Spec
-----------------------------------------------------------------------------
(* The archive commands implement RecordShelves. *)

\* Both specifications call files the same.
LEMMA FilesAreNames ==
  /\ \A x : Shelves!File(x) = Name(x)
  /\ \A S : Shelves!Files(S) = Names(S)
<1>1. \A x : Shelves!File(x) = Name(x)
  BY DEF Shelves!File, Name
<1>. QED BY <1>1 DEF Shelves!Files, Names

LEMMA ShelvesUntouched ==
  ASSUME UNCHANGED lanes
  PROVE  UNCHANGED <<Uses, ClosedUses>>
BY DEF Uses, ClosedUses

LEMMA InitShelves == ArchiveInv /\ Init => Shelves!Init
<1>. SUFFICES ASSUME ArchiveInv, Init PROVE Shelves!Init
  OBVIOUS
<1>1. ASSUME NEW l \in Lane PROVE Len(lanes[l]) = 1 /\ DOMAIN lanes[l] = {1}
  <2>1. PICK gen : lanes[l] = <<gen>>
    BY DEF Init
  <2>. QED BY <2>1
<1>2. Uses = [l \in Lane |-> 1]
  BY <1>1 DEF Uses
<1>3. ClosedUses \subseteq Lane \X {1}
  BY <1>1 DEF ClosedUses
<1>4. ASSUME NEW x \in live PROVE x \in {Shelves!Record(kind, l, 1) : kind \in Shelves!Kind, l \in Lane}
  <2>1. x \in Record /\ x.gen \in DOMAIN lanes[x.lane]
    BY WrittenFacts DEF ArchiveInv, OnlyWritten
  <2>2. x = Rec(x.kind, x.lane, 1) /\ x.kind \in Kind /\ x.lane \in Lane
    BY <1>1, <2>1, RecordFacts
  <2>. QED BY <2>2 DEF Rec, Kind, Shelves!Record, Shelves!Kind
<1>5. receipts = {}
  BY DEF Init
<1>. QED BY <1>2, <1>3, <1>4, <1>5 DEF Shelves!Init

\* A record that is moved, and the rest of its receipt.
LEMMA OneRecord ==
  ASSUME TypeOK, RecordsInv, NEW r \in receipts, NEW n, NEW D, D \in {live, r.stored}
  PROVE  {x \in D : Name(x) = n} = {} \/ \E x \in D : {y \in D : Name(y) = n} = {x} /\ Name(x) = n
<1>1. \A x, y \in D : Name(x) = Name(y) => x = y
  BY DEF RecordsInv, RecordsKept
<1>. QED BY <1>1

LEMMA MoveShelves ==
  ASSUME TypeOK, RecordsInv, AllAtWork, NEW p \in Proc, NEW n \in job[p].todo, Move(p, n)
  PROVE  Shelves!Next \/ UNCHANGED <<Uses, ClosedUses, live, receipts>>
<1>. DEFINE r == Receipt(p)
            S == {x \in live : Name(x) = n}
<1>1. /\ pc[p] = "move" /\ IsNext(p, n) /\ (IsLive(n) # In(n, r.stored))
      /\ live' = live \ S /\ Save(r, [r EXCEPT !.stored = @ \cup S]) /\ UNCHANGED lanes
  BY DEF Move, Quiet
<1>2. /\ r \in receipts /\ r \in ReceiptRecord /\ n \in r.files /\ job[p].todo \subseteq r.files
  BY <1>1, AtReceipt DEF Working
<1>3. /\ Sided(r) /\ HasManifests(r) /\ r.state \in {"prepared", "complete"}
      /\ r.files \ job[p].todo \subseteq Names(r.stored)
  BY <1>1 DEF AllAtWork, AtWork, Sided
<1>4. UNCHANGED <<Uses, ClosedUses>>
  BY <1>1, ShelvesUntouched
<1>5. CASE S = {}
  <2>1. [r EXCEPT !.stored = @ \cup S] = r
    BY <1>2, <1>5 DEF ReceiptRecord
  <2>2. receipts' = receipts /\ live' = live
    BY <1>1, <1>2, <1>5, <2>1 DEF Save
  <2>. QED BY <1>4, <2>2
<1>6. ASSUME NEW x \in live, S = {x}, Name(x) = n PROVE Shelves!Away(r, x)
  <2>1. IsLive(n) /\ ~In(n, r.stored)
    BY <1>1, <1>6 DEF IsLive, In, Names
  <2>2. r.state = "prepared"
    BY <1>2, <1>3, <2>1 DEF RecordsInv, CompleteIsStored, In
  <2>3. x \in Record /\ x.gen \in DOMAIN lanes[x.lane] /\ lanes[x.lane][x.gen].state \in Closed
    BY <1>2, <1>3, <1>6, WrittenFacts, NamedIsClosed DEF RecordsInv, OnlyWritten
  <2>4. <<x.lane, x.gen>> \in ClosedUses
    BY <2>3, RecordFacts DEF ClosedUses
  <2>5. ASSUME x.kind = "lane", NEW m \in r.files, m.kind # "lane" PROVE m \in Names(r.stored)
    <3>1. n.kind = "lane"
      BY <1>6, <2>3, <2>5, NameFacts
    <3>2. m \notin job[p].todo
      BY <1>1, <2>5, <3>1 DEF IsNext
    <3>. QED BY <1>3, <3>2
  <2>6. receipts' = (receipts \ {r}) \cup {[r EXCEPT !.stored = @ \cup {x}]} /\ live' = live \ {x}
    BY <1>1, <1>6 DEF Save
  <2>. QED BY <1>2, <1>4, <1>6, <2>1, <2>2, <2>4, <2>5, <2>6, FilesAreNames DEF Shelves!Away, Shelves!Replace, In
<1>. QED BY <1>2, <1>5, <1>6, OneRecord DEF Shelves!Next

LEMMA MoveBackShelves ==
  ASSUME TypeOK, RecordsInv, AllAtWork, NEW p \in Proc, NEW n \in job[p].todo, MoveBack(p, n)
  PROVE  Shelves!Next
<1>. DEFINE r == Receipt(p)
            S == {x \in r.stored : Name(x) = n}
<1>1. /\ pc[p] = "back" /\ n \in job[p].free
      /\ live' = {x \in live : Name(x) # n} \cup S
      /\ Save(r, [r EXCEPT !.stored = @ \ S]) /\ UNCHANGED lanes
  BY DEF MoveBack, Quiet
<1>2. /\ r \in receipts /\ r \in ReceiptRecord /\ r.stored \subseteq Record
      /\ n \in r.files /\ job[p].todo \subseteq r.files
  BY <1>1, AtReceipt, CandidateTypes DEF Working
<1>3. /\ r.state = "restoring" /\ \A m \in r.files \ job[p].todo : ~In(m, r.stored)
      /\ IsNext(p, n) /\ In(n, r.stored) /\ (n.kind # "profile" => ~IsLive(n))
  BY <1>1 DEF AllAtWork, AtWork
<1>4. UNCHANGED <<Uses, ClosedUses>>
  BY <1>1, ShelvesUntouched
<1>5. PICK x \in r.stored : S = {x} /\ Name(x) = n
  BY <1>2, <1>3, OneRecord DEF In, Names
<1>6. n.kind = x.kind
  BY <1>2, <1>5, NameFacts
<1>7. ASSUME x.kind = "lane", NEW y \in r.stored PROVE y.kind = "lane"
  <2>1. Name(y) \in r.files /\ In(Name(y), r.stored)
    BY <1>2 DEF RecordsInv, OnlyWritten, In, Names
  <2>2. Name(y) \in job[p].todo
    BY <1>3, <2>1
  <2>3. Name(y).kind = y.kind
    BY <1>2, NameFacts
  <2>. QED BY <1>3, <1>6, <1>7, <2>2, <2>3 DEF IsNext
<1>8. /\ receipts' = (receipts \ {r}) \cup {[r EXCEPT !.stored = @ \ {x}]}
      /\ live' = {y \in live : Name(y) # Name(x)} \cup {x}
  BY <1>1, <1>5 DEF Save
<1>9. Shelves!Back(r, x)
  BY <1>3, <1>4, <1>5, <1>6, <1>7, <1>8, FilesAreNames DEF Shelves!Back, Shelves!Replace, IsLive, In
<1>. QED BY <1>2, <1>9 DEF Shelves!Next

\* The durable changes of a receipt's state.
LEMMA AnnounceShelves ==
  ASSUME TypeOK, RecordsInv, AllAtWork, NEW p \in Proc, Complete(p) \/ Relock(p) \/ Restored(p)
  PROVE  Shelves!Next \/ UNCHANGED <<Uses, ClosedUses, live, receipts>>
<1>. DEFINE r == Receipt(p)
<1>1. pc[p] \in {"move", "relock", "back"} /\ UNCHANGED <<lanes, live>>
  BY DEF Complete, Relock, Restored, Quiet
<1>2. r \in receipts /\ r \in ReceiptRecord
  BY <1>1, AtReceipt DEF Working
<1>3. UNCHANGED <<Uses, ClosedUses>>
  BY <1>1, ShelvesUntouched
<1>4. ASSUME NEW st, Save(r, [r EXCEPT !.state = st]), r.state = st PROVE UNCHANGED receipts
  <2>1. [r EXCEPT !.state = st] = r
    BY <1>2, <1>4 DEF ReceiptRecord
  <2>. QED BY <1>2, <1>4, <2>1 DEF Save
<1>5. ASSUME Complete(p), r.state # "complete" PROVE Shelves!Announce(r)
  <2>1. pc[p] = "move" /\ job[p].todo = {} /\ Save(r, [r EXCEPT !.state = "complete"])
    BY <1>5 DEF Complete
  <2>2. r.state = "prepared" /\ r.files \subseteq Names(r.stored)
    BY <1>5, <2>1 DEF AllAtWork, AtWork
  <2>3. Names(r.stored) = r.files
    BY <1>2, <2>2 DEF RecordsInv, OnlyWritten
  <2>. QED BY <1>1, <1>3, <2>1, <2>2, <2>3, FilesAreNames DEF Shelves!Announce, Shelves!Replace, Save
<1>6. ASSUME Relock(p), r.state # "restoring" PROVE Shelves!Announce(r)
  <2>1. pc[p] = "relock" /\ Save(r, [r EXCEPT !.state = "restoring"])
    BY <1>6 DEF Relock
  <2>2. r.state = "complete"
    BY <1>6, <2>1 DEF AllAtWork, AtWork
  <2>. QED BY <1>1, <1>3, <2>1, <2>2 DEF Shelves!Announce, Shelves!Replace, Save
<1>7. ASSUME Restored(p) PROVE Shelves!Announce(r)
  <2>1. pc[p] = "back" /\ job[p].todo = {} /\ Save(r, [r EXCEPT !.state = "restored"])
    BY <1>7 DEF Restored
  <2>2. r.state = "restoring" /\ \A n \in r.files : ~In(n, r.stored)
    BY <2>1 DEF AllAtWork, AtWork
  <2>3. r.stored = {}
    BY <1>2, <2>2 DEF RecordsInv, OnlyWritten, In, Names
  <2>. QED BY <1>1, <1>3, <2>1, <2>2, <2>3 DEF Shelves!Announce, Shelves!Replace, Save
<1>8. ASSUME Complete(p) \/ Relock(p), UNCHANGED receipts
      PROVE  UNCHANGED <<Uses, ClosedUses, live, receipts>>
  BY <1>1, <1>3, <1>8
<1>9. CASE Complete(p)
  BY <1>2, <1>4, <1>5, <1>8, <1>9 DEF Complete, Shelves!Next
<1>10. CASE Relock(p)
  BY <1>2, <1>4, <1>6, <1>8, <1>10 DEF Relock, Shelves!Next
<1>11. CASE Restored(p)
  BY <1>2, <1>7, <1>11 DEF Shelves!Next
<1>. QED BY <1>9, <1>10, <1>11

LEMMA ApplyShelves ==
  ASSUME TypeOK, NEW p \in Proc, Apply(p)
  PROVE  Shelves!Next \/ UNCHANGED <<Uses, ClosedUses, live, receipts>>
<1>. DEFINE plan == [job[p].plan EXCEPT !.files = FilesFor(job[p].plan.candidates)]
            new == [before |-> plan.before, candidates |-> plan.candidates, files |-> plan.files,
                    state |-> "prepared", stored |-> {}]
<1>1. /\ UNCHANGED <<lanes, live>>
      /\ \/ UNCHANGED receipts
         \/ receipts' = receipts \cup {new} /\ ~\E r \in receipts : PlanOf(r) = plan
  BY DEF Apply, Prepare, Quiet
<1>2. UNCHANGED <<Uses, ClosedUses>>
  BY <1>1, ShelvesUntouched
<1>3. ASSUME receipts' = receipts \cup {new}, ~\E r \in receipts : PlanOf(r) = plan
      PROVE  Shelves!Next
  <2>1. new.files \subseteq Names(live) /\ new.state = "prepared" /\ new.stored = {}
    BY DEF FilesFor, Names
  <2>2. new \notin receipts
    <3>1. job[p].plan \in Plan
      BY DEF TypeOK
    <3>2. PlanOf(new) = plan
      BY <3>1 DEF PlanOf, Plan
    <3>. QED BY <1>3, <3>2
  <2>. HIDE DEF new
  <2>3. Shelves!Prepare(new) /\ new \in receipts'
    BY <1>1, <1>2, <1>3, <2>1, <2>2, FilesAreNames DEF Shelves!Prepare
  <2>. QED BY <2>3 DEF Shelves!Next
<1>. QED BY <1>1, <1>2, <1>3

LEMMA CloseShelves ==
  ASSUME TypeOK, NEW l \in Lane, NEW g \in DOMAIN lanes[l], NEW s \in Closed, Close(l, g, s)
  PROVE  Shelves!Next
<1>1. Manifest(l, g) \in live /\ UNCHANGED <<live, receipts>>
  BY DEF Close
<1>2. \A k \in Lane :
        /\ Len(lanes'[k]) = Len(lanes[k]) /\ DOMAIN lanes'[k] = DOMAIN lanes[k]
        /\ \A h \in DOMAIN lanes[k] :
             lanes'[k][h].state = IF k = l /\ h = g THEN s ELSE lanes[k][h].state
  BY ClosedLanes
<1>3. Uses' = Uses
  BY <1>2 DEF Uses
<1>4. g \in 1..MaxGen /\ g \in 1..Uses[l]
  BY LaneTypes DEF Uses
<1>5. ClosedUses' = ClosedUses \cup {<<l, g>>}
  <2>1. ASSUME NEW x \in Lane \X (1..MaxGen)
        PROVE  x \in ClosedUses' <=> x \in ClosedUses \/ x = <<l, g>>
    BY <1>2 DEF ClosedUses
  <2>2. ClosedUses \subseteq Lane \X (1..MaxGen) /\ ClosedUses' \subseteq Lane \X (1..MaxGen)
    BY DEF ClosedUses
  <2>. QED BY <1>4, <2>1, <2>2
<1>6. Shelves!Close(l, g)
  BY <1>1, <1>3, <1>5 DEF Shelves!Close, Shelves!Record, Manifest, Rec
<1>. QED BY <1>4, <1>6 DEF Shelves!Next

LEMMA CreateShelves ==
  ASSUME TypeOK, NEW l \in Lane, Create(l)
  PROVE  Shelves!Next
<1>. DEFINE g == Len(lanes[l]) + 1
<1>1. live' = live \cup {Manifest(l, g)} /\ UNCHANGED receipts /\ ~IsLive(Name(Manifest(l, g)))
  BY DEF Create
<1>2. /\ g \in 1..MaxGen /\ g \notin DOMAIN lanes[l] /\ Len(lanes'[l]) = g
      /\ DOMAIN lanes'[l] = DOMAIN lanes[l] \cup {g} /\ lanes'[l][g].state = "active"
      /\ \A k \in Lane : k # l => lanes'[k] = lanes[k]
      /\ \A k \in Lane : \A h \in DOMAIN lanes[k] : h \in DOMAIN lanes'[k] /\ lanes'[k][h] = lanes[k][h]
  BY CreatedLanes
<1>3. Uses[l] + 1 = g
  BY DEF Uses
<1>. HIDE DEF g
<1>4. Uses' = [Uses EXCEPT ![l] = @ + 1]
  BY <1>2, <1>3 DEF Uses
<1>5. ClosedUses' = ClosedUses
  <2>1. ASSUME NEW x \in Lane \X (1..MaxGen) PROVE x \in ClosedUses' <=> x \in ClosedUses
    <3>1. CASE x[1] = l /\ x[2] = g
      BY <1>2, <3>1 DEF ClosedUses, Closed
    <3>2. CASE ~(x[1] = l /\ x[2] = g)
      BY <1>2, <3>2 DEF ClosedUses
    <3>. QED BY <3>1, <3>2
  <2>. QED BY <2>1 DEF ClosedUses
<1>6. Manifest(l, g) = Shelves!Record("lane", l, Uses[l] + 1)
  BY <1>3 DEF Manifest, Rec, Shelves!Record
<1>7. Shelves!Use(l)
  BY <1>1, <1>4, <1>5, <1>6, FilesAreNames DEF Shelves!Use, IsLive, In
<1>. QED BY <1>7 DEF Shelves!Next

LEMMA GrowShelves ==
  ASSUME TypeOK, NEW l \in Lane, NEW g \in DOMAIN lanes[l], Claim(l, g) \/ WriteProfile(l, g)
  PROVE  Shelves!Next
<1>1. PICK kind \in {"lease", "profile"} : Grown(l, g, kind)
  BY DEF Claim, WriteProfile, Grown
<1>2. \A k \in Lane :
        /\ Len(lanes'[k]) = Len(lanes[k]) /\ DOMAIN lanes'[k] = DOMAIN lanes[k]
        /\ \A h \in DOMAIN lanes[k] :
             /\ lanes'[k][h].state = lanes[k][h].state
             /\ k # l \/ h # g => lanes'[k][h].has = lanes[k][h].has
  BY <1>1, GrownLanes
<1>3. Uses' = Uses
  BY <1>2 DEF Uses
<1>4. ClosedUses' = ClosedUses
  <2>1. ASSUME NEW x \in Lane \X (1..MaxGen) PROVE x \in ClosedUses' <=> x \in ClosedUses
    BY <1>2 DEF ClosedUses
  <2>. QED BY <2>1 DEF ClosedUses
<1>5. g \in 1..MaxGen /\ g \in 1..Uses[l]
  BY LaneTypes DEF Uses
<1>6. CASE Claim(l, g)
  <2>1. /\ Manifest(l, g) \in live /\ lanes[l][g].state = "active"
        /\ ~\E x \in live : x.kind = "lease" /\ x.lane = l
        /\ live' = live \cup {Rec("lease", l, g)} /\ UNCHANGED receipts
    BY <1>6 DEF Claim, LinksOK
  <2>2. <<l, g>> \notin ClosedUses
    BY <2>1 DEF ClosedUses, Closed
  <2>3. Shelves!Lease(l, g)
    BY <1>3, <1>4, <2>1, <2>2 DEF Shelves!Lease, Shelves!Record, Manifest, Rec
  <2>. QED BY <1>5, <2>3 DEF Shelves!Next
<1>7. CASE WriteProfile(l, g)
  <2>1. /\ ~IsLive(Name(Rec("profile", l, g)))
        /\ live' = live \cup {Rec("profile", l, g)} /\ UNCHANGED receipts
    BY <1>7 DEF WriteProfile
  <2>2. Rec("profile", l, g) = Shelves!Record("profile", l, g)
    BY DEF Rec, Shelves!Record
  <2>3. Shelves!Profile(l, g)
    BY <1>3, <1>4, <2>1, <2>2, FilesAreNames DEF Shelves!Profile, IsLive, In
  <2>. QED BY <1>5, <2>3 DEF Shelves!Next
<1>. QED BY <1>6, <1>7

LEMMA ShelvesStep ==
  ASSUME ArchiveInv, [Next]_vars
  PROVE  Shelves!Next \/ UNCHANGED <<Uses, ClosedUses, live, receipts>>
<1>1. TypeOK /\ RecordsInv /\ AllAtWork
  BY DEF ArchiveInv, RecordsInv
<1>2. CASE UNCHANGED <<lanes, live, receipts>>
  BY <1>2, ShelvesUntouched
<1>3. \/ UNCHANGED <<lanes, live, receipts>>
      \/ \E l \in Lane : \E g \in DOMAIN lanes[l] : \E s \in Closed : Close(l, g, s)
      \/ \E l \in Lane : Create(l)
      \/ \E l \in Lane : \E g \in DOMAIN lanes[l] : Claim(l, g) \/ WriteProfile(l, g)
      \/ \E p \in Proc : \/ Apply(p) \/ Complete(p) \/ Relock(p) \/ Restored(p)
                         \/ \E n \in job[p].todo : Move(p, n) \/ MoveBack(p, n)
  <2>1. CASE Others
    BY <2>1, ArchiveAssumption DEF Others, Tick, MoveRef
  <2>2. ASSUME NEW p \in Proc, Archiving(p)
        PROVE  \/ UNCHANGED <<lanes, live, receipts>>
               \/ Apply(p) \/ Complete(p) \/ \E n \in job[p].todo : Move(p, n)
    BY <2>2 DEF Archiving, Preview, Check, Resume, Quiet
  <2>3. ASSUME NEW p \in Proc, Restoring(p)
        PROVE  \/ UNCHANGED <<lanes, live, receipts>>
               \/ Relock(p) \/ Restored(p) \/ \E n \in job[p].todo : MoveBack(p, n)
    BY <2>3 DEF Restoring, Restore, Look, Skip, Quiet
  <2>4. ASSUME NEW p \in Proc, Refused(p) \/ Stop(p) PROVE UNCHANGED <<lanes, live, receipts>>
    BY <2>4 DEF Refused, Stop, Quiet
  <2>. QED BY <2>1, <2>2, <2>3, <2>4 DEF Next, vars
<1>. QED BY <1>1, <1>2, <1>3, CloseShelves, CreateShelves, GrowShelves, ApplyShelves, AnnounceShelves,
     MoveShelves, MoveBackShelves

\* The archive commands, however they are interleaved, stopped and repeated and
\* whoever uses the lane identifiers meanwhile, implement RecordShelves.
THEOREM ImplementsShelves == Spec => ShelfSpec
<1>1. Init => Shelves!Init
  BY InitInv, InitShelves
<1>2. ArchiveInv /\ [Next]_vars => [Shelves!Next]_<<Uses, ClosedUses, live, receipts>>
  BY ShelvesStep
<1>. QED BY <1>1, <1>2, ArchiveInvariant, PTL DEF Spec, ShelfSpec, Shelves!Spec
=============================================================================
