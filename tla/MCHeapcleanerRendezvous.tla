---------------------- MODULE MCHeapcleanerRendezvous ----------------------
(* TLC instances of HeapcleanerRendezvous. *)
EXTENDS HeapcleanerRendezvous
=============================================================================
