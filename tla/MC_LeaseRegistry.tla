-------------------------- MODULE MC_LeaseRegistry --------------------------
(* Small instance of LeaseRegistry: two commands, two lanes, paths of which *)
(* one is below another in a different spelling and one is unrelated.       *)
EXTENDS LeaseRegistry, TLC

CONSTANTS p1, p2, l1, l2

MCComponent == {"src", "SRC", "doc", "a"}
MCFold == [c \in MCComponent |-> IF c = "SRC" THEN "src" ELSE c]
MCPath == {<<"src">>, <<"SRC", "a">>, <<"doc">>}
MCRequest == {{<<"src">>}, {<<"SRC", "a">>, <<"doc">>}}

Symmetric == Permutations({p1, p2}) \cup Permutations({l1, l2})
=============================================================================
