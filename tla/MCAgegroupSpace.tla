-------------------------- MODULE MCAgegroupSpace --------------------------
(* Small instances of AgegroupSpace.                                       *)
EXTENDS AgegroupSpace, TLC

Symmetry == Permutations(Hostthread)

\* Small enough for trim_heap to have work in the first two agegroups.
SoftMax == [a \in Age |-> IF a = 1 THEN 6 ELSE 3]

\* Agegroup 1 can fill up; the others hold what it promotes.
MaxUsed == [a \in Age |-> IF a = 1 THEN 4 ELSE IF a = 2 THEN 2 ELSE 1]
=============================================================================
