------------------------ MODULE MCInterprocessSignals ------------------------
(* TLC instances of InterprocessSignals. *)
EXTENDS InterprocessSignals, TLC

Symmetry == Permutations(Threads)
=============================================================================
