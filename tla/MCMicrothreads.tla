--------------------------- MODULE MCMicrothreads ---------------------------
\* TLC instances of Microthreads.
EXTENDS Microthreads, TLC
=============================================================================
