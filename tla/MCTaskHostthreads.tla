------------------------- MODULE MCTaskHostthreads -------------------------
(* TLC instances of TaskHostthreads. *)
EXTENDS TaskHostthreads
=============================================================================
