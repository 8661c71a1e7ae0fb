---------------------------- MODULE RecordShelves ----------------------------
(***************************************************************************)
(* What `wip archive` promises of the records of a repository: a record is *)
(* live or on the shelf of one batch and goes from one to the other alone; *)
(* only a closed use of a lane leaves, and only under a batch that names   *)
(* it; batches go prepared, complete, restoring, restored and never back,  *)
(* complete with all they name and restored with nothing left; manifests   *)
(* go last both ways; no two live records have one file name; and only a   *)
(* profile is ever replaced, by the one a restore brings back.             *)
(***************************************************************************)
EXTENDS Naturals

CONSTANT Lane  \* lane identifiers

VARIABLES uses,    \* how often each identifier has been used
          closed,  \* the uses, <<lane, number>>, that are over
          live,    \* records in the state directory
          batches  \* archive batches: files they name, state, records on the shelf

Kind == {"lane", "lease", "profile"}
Record(kind, l, g) == [kind |-> kind, lane |-> l, gen |-> g]

File(x) == [kind |-> x.kind, lane |-> x.lane, gen |-> IF x.kind = "lease" THEN x.gen ELSE 0]
Files(records) == {File(x) : x \in records}

Init ==
  /\ uses = [l \in Lane |-> 1]
  /\ closed \subseteq Lane \X {1}
  /\ live \subseteq {Record(kind, l, 1) : kind \in Kind, l \in Lane}
  /\ batches = {}

Use(l) ==
  LET x == Record("lane", l, uses[l] + 1) IN
  /\ File(x) \notin Files(live)
  /\ uses' = [uses EXCEPT ![l] = @ + 1]
  /\ live' = live \cup {x}
  /\ UNCHANGED <<closed, batches>>

\* The lease of a use that is not over, without leases of other uses beside it.
Lease(l, g) ==
  /\ Record("lane", l, g) \in live /\ <<l, g>> \notin closed
  /\ ~\E x \in live : x.kind = "lease" /\ x.lane = l
  /\ live' = live \cup {Record("lease", l, g)}
  /\ UNCHANGED <<uses, closed, batches>>

\* A profile comes at any time, but never over another one.
Profile(l, g) ==
  LET x == Record("profile", l, g) IN
  /\ File(x) \notin Files(live)
  /\ live' = live \cup {x}
  /\ UNCHANGED <<uses, closed, batches>>

Close(l, g) ==
  /\ Record("lane", l, g) \in live
  /\ closed' = closed \cup {<<l, g>>}
  /\ UNCHANGED <<uses, live, batches>>

\* A batch that names nothing but live files.
Prepare(b) ==
  /\ b.state = "prepared" /\ b.stored = {} /\ b.files \subseteq Files(live)
  /\ b \notin batches
  /\ batches' = batches \cup {b}
  /\ UNCHANGED <<uses, closed, live>>

Replace(b, new) == batches' = (batches \ {b}) \cup {new}

Away(b, x) ==
  /\ b.state = "prepared" /\ File(x) \in b.files \ Files(b.stored)
  /\ <<x.lane, x.gen>> \in closed
  /\ x.kind = "lane" => {n \in b.files : n.kind # "lane"} \subseteq Files(b.stored)
  /\ live' = live \ {x}
  /\ Replace(b, [b EXCEPT !.stored = @ \cup {x}])
  /\ UNCHANGED <<uses, closed>>

Back(b, x) ==
  /\ b.state = "restoring"
  /\ x.kind # "profile" => File(x) \notin Files(live)
  /\ x.kind = "lane" => \A y \in b.stored : y.kind = "lane"
  /\ live' = {y \in live : File(y) # File(x)} \cup {x}
  /\ Replace(b, [b EXCEPT !.stored = @ \ {x}])
  /\ UNCHANGED <<uses, closed>>

\* The next state of a batch.
Announce(b) ==
  /\ \/ b.state = "prepared" /\ Files(b.stored) = b.files /\ Replace(b, [b EXCEPT !.state = "complete"])
     \/ b.state = "complete" /\ Replace(b, [b EXCEPT !.state = "restoring"])
     \/ b.state = "restoring" /\ b.stored = {} /\ Replace(b, [b EXCEPT !.state = "restored"])
  /\ UNCHANGED <<uses, closed, live>>

Next ==
  \/ \E l \in Lane : Use(l)
  \/ \E l \in Lane : \E g \in 1..uses[l] : Close(l, g) \/ Lease(l, g) \/ Profile(l, g)
  \/ \E b \in batches' : Prepare(b)
  \/ \E b \in batches : \/ Announce(b)
                        \/ \E x \in live : Away(b, x)
                        \/ \E x \in b.stored : Back(b, x)

Spec == Init /\ [][Next]_<<uses, closed, live, batches>>
=============================================================================
