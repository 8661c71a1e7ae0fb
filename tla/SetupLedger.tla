----------------------------- MODULE SetupLedger -----------------------------
(***************************************************************************)
(* What `wip init` promises of the records it writes, whoever runs it how  *)
(* often and however often it stops: a lane is created once, for one setup *)
(* and on a checkout it may have, made active once and closed once; its    *)
(* leases come after it, its profile after its leases; none of these is    *)
(* ever replaced; and the ledger of a setup gets one step after the other, *)
(* each only when what it stands for is there.                             *)
(***************************************************************************)
EXTENDS Naturals

CONSTANTS Setup,  \* requested setups
          Lane,   \* lane identifiers
          None    \* an absent record

VARIABLES ledger,   \* recorded steps of each setup, or None
          lanes,    \* lane manifests
          leases,   \* leased paths of each lane
          profiles, \* lane profiles
          binary    \* what is at the install path

Manifest(s, state) == [agent |-> s.agent, mode |-> s.mode, tree |-> s.tree, state |-> state]
Profile(s) == [agent |-> s.agent, mode |-> s.mode, tree |-> s.tree]

Init ==
  /\ ledger = [s \in Setup |-> None]
  /\ lanes = [l \in Lane |-> None]
  /\ leases = [l \in Lane |-> {}]
  /\ profiles = [l \in Lane |-> None]
  /\ binary = "absent"

\* Another lane has the checkout of a setup, and one of the two does not share.
Taken(s) ==
  \E l \in Lane \ {s.lane} :
    /\ lanes[l] # None /\ lanes[l].state # "closed" /\ lanes[l].tree = s.tree
    /\ "worktree" \in {s.mode, lanes[l].mode}

Open(s) ==
  /\ ledger[s] = None
  /\ ledger' = [ledger EXCEPT ![s] = 0]
  /\ UNCHANGED <<lanes, leases, profiles, binary>>

Create(s) ==
  /\ ledger[s] # None /\ lanes[s.lane] = None /\ ~Taken(s)
  /\ lanes' = [lanes EXCEPT ![s.lane] = Manifest(s, "creating")]
  /\ UNCHANGED <<ledger, leases, profiles, binary>>

Activate(s) ==
  /\ lanes[s.lane] = Manifest(s, "creating")
  /\ lanes' = [lanes EXCEPT ![s.lane] = Manifest(s, "active")]
  /\ UNCHANGED <<ledger, leases, profiles, binary>>

Claim(s) ==
  /\ ledger[s] # None /\ ledger[s] >= 2 /\ lanes[s.lane] = Manifest(s, "active")
  /\ \A l \in Lane \ {s.lane} : leases[l] \cap s.paths = {}
  /\ leases' = [leases EXCEPT ![s.lane] = @ \cup s.paths]
  /\ UNCHANGED <<ledger, lanes, profiles, binary>>

Introduce(s) ==
  /\ ledger[s] # None /\ ledger[s] >= 3 /\ profiles[s.lane] = None
  /\ profiles' = [profiles EXCEPT ![s.lane] = Profile(s)]
  /\ UNCHANGED <<ledger, lanes, leases, binary>>

\* wip for a setup that asks for it, or another program.
Install ==
  /\ binary = "absent"
  /\ \/ binary' = "other"
     \/ binary' = "ours" /\ \E s \in Setup : s.install /\ ledger[s] # None /\ ledger[s] >= 4
  /\ UNCHANGED <<ledger, lanes, leases, profiles>>

\* What the n-th step stands for: the checkout, the lane, its leases, its
\* profile, the binary, the skill bundle; the first and the last have no record.
Behind(s, n) ==
  LET closed == lanes[s.lane] = Manifest(s, "closed") IN
  /\ n \in {2, 3} => closed \/ lanes[s.lane] = Manifest(s, "active")
  /\ n = 3 => closed \/ s.paths \subseteq leases[s.lane]
  /\ n = 4 => profiles[s.lane] = Profile(s)
  /\ n = 5 => (s.install => binary = "ours")

Record(s) ==
  /\ ledger[s] # None /\ ledger[s] < 6
  /\ Behind(s, ledger[s] + 1)
  /\ ledger' = [ledger EXCEPT ![s] = @ + 1]
  /\ UNCHANGED <<lanes, leases, profiles, binary>>

Close(l) ==
  /\ lanes[l] # None /\ lanes[l].state = "active"
  /\ lanes' = [lanes EXCEPT ![l].state = "closed"]
  /\ leases' = [leases EXCEPT ![l] = {}]
  /\ UNCHANGED <<ledger, profiles, binary>>

Next ==
  \/ \E s \in Setup : Open(s) \/ Create(s) \/ Activate(s) \/ Claim(s) \/ Introduce(s) \/ Record(s)
  \/ Install
  \/ \E l \in Lane : Close(l)

Spec == Init /\ [][Next]_<<ledger, lanes, leases, profiles, binary>>
=============================================================================
