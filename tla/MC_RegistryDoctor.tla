-------------------------- MODULE MC_RegistryDoctor --------------------------
(* Small instance of RegistryDoctor: one command at a time and one audit on  *)
(* two lanes that ask for the same path.                                     *)
EXTENDS RegistryDoctor, TLC

CONSTANTS p1, l1, l2

MCComponent == {"src"}
MCFold == [c \in MCComponent |-> c]
MCPath == {<<"src">>}
MCRequest == {MCPath}

Symmetric == Permutations({l1, l2})
=============================================================================
