---------------------------- MODULE StopTheWorld ----------------------------
(***************************************************************************)
(* What the hostthread/heapcleaner rendezvous promises to the rest of the  *)
(* Mythryl runtime: a set of hostthreads that may touch the Mythryl heap,  *)
(* and a heapcleaner that moves heap values only while that set is empty.  *)
(* (src/c/h/runtime-base.h: "MUST NOT REFERENCE MYTHRYL HEAP IN ANY WAY    *)
(* WHEN IN THIS STATE because heapcleaner may be running!")                *)
(***************************************************************************)
CONSTANT Threads

VARIABLES using,      \* the hostthreads that may touch the Mythryl heap
          cleaning    \* is the heap being rearranged?

vars == <<using, cleaning>>

Init == using \in SUBSET Threads /\ cleaning = FALSE

\* A hostthread may start to use the heap only while no cleaning is under way.
Enter(t) == /\ ~cleaning
            /\ t \notin using
            /\ using' = using \cup {t}
            /\ UNCHANGED cleaning

Leave(t) == /\ t \in using
            /\ using' = using \ {t}
            /\ UNCHANGED cleaning

\* The last user leaves and turns into the cleaner in one step, or an
\* earlier leaver finds the heap free.
BeginClean == /\ ~cleaning
              /\ \E t \in Threads : using \subseteq {t}
              /\ using' = {}
              /\ cleaning' = TRUE

\* The cleaner becomes a user again in the step that ends the cleaning.
EndClean(t) == /\ cleaning
               /\ cleaning' = FALSE
               /\ using' = using \cup {t}

Next == \/ \E t \in Threads : Enter(t) \/ Leave(t) \/ EndClean(t)
        \/ BeginClean

Spec == Init /\ [][Next]_vars
=============================================================================
