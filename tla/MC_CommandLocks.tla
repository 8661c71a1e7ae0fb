--------------------------- MODULE MC_CommandLocks ---------------------------
(* Small instance of CommandLocks: any two commands at a time on two lanes. *)
EXTENDS CommandLocks

CONSTANTS p1, p2
=============================================================================
