----------------------------- MODULE MCDecision -----------------------------
(* Instances of Decision: a group of two resources and the group of one.     *)
EXTENDS Decision, TLC

CONSTANTS r1, r2

\* The id of r1 is part of that of r2, as "fan/1" is of "fan/10".
Nested == [r \in Resource |-> IF r = r1 THEN {r1, r2} ELSE {r}]

\* r1 has decisions of two times, the later one that of the decision of r2.
Keys == {<<r1, 1>>, <<r1, 2>>, <<r2, 2>>}

Groups == {<<r1, r2>>, <<r1>>}

\* Monitors are interchangeable.
Symmetry == Permutations(Monitor)
=============================================================================
