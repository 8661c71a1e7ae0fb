----------------------------- MODULE DomainOwner -----------------------------
(***************************************************************************)
(* What the bootstrap of the coordination domain promises: the lane state  *)
(* of a repository has at most one owner, which only an explicit creation  *)
(* claims; every command that works on the state works for that owner; and *)
(* a claim is never handed over.  Only a loss of power, which also stops   *)
(* every command, may undo it.                                             *)
(***************************************************************************)
CONSTANTS Proc,   \* processes
          Owner,  \* the legacy tool, and the releases by state version
          None    \* no owner

VARIABLES owner,   \* who owns the state
          claimers, \* processes running a command that may claim it
          using    \* the owner each process works for

Init == owner = None /\ claimers = {} /\ using = [p \in Proc |-> None]

Begin(p) == claimers' = claimers \cup {p} /\ UNCHANGED <<owner, using>>

Claim(o) ==
  /\ owner = None /\ claimers # {}
  /\ owner' = o
  /\ UNCHANGED <<claimers, using>>

Enter(p) ==
  /\ owner # None
  /\ using' = [using EXCEPT ![p] = owner]
  /\ UNCHANGED <<owner, claimers>>

Leave(p) ==
  /\ using' = [using EXCEPT ![p] = None]
  /\ claimers' = claimers \ {p}
  /\ UNCHANGED owner

PowerLoss ==
  /\ owner' \in {owner, None}
  /\ claimers' = {}
  /\ using' = [p \in Proc |-> None]

Next ==
  \/ \E p \in Proc : Begin(p) \/ Enter(p) \/ Leave(p)
  \/ \E o \in Owner : Claim(o)
  \/ PowerLoss

Spec == Init /\ [][Next]_<<owner, claimers, using>>
=============================================================================
