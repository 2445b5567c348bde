----------------------- MODULE HeapcleanerRendezvous -----------------------
(***************************************************************************)
(* The rendezvous by which Mythryl hostthreads (posix threads) stop using  *)
(* the shared heap while one of them cleans it, and the life of a slot of  *)
(* hostthread_table__global[].                                             *)
(*                                                                         *)
(*   src/c/heapcleaner/hostthread-heapcleaner-stuff.c  start/finish        *)
(*   src/c/heapcleaner/call-heapcleaner.c              the cleaning itself *)
(*   src/c/hostthread/hostthread-on-posix-threads.c    create/exit and the *)
(*                                                     release/recover pair*)
(*                                                                         *)
(* pth__mutex is held from the start to the end of one critical section,   *)
(* so a critical section is one step.  It is given up in two places only:  *)
(* inside pthread_cond_wait, which ends a step, and in pth__pthread_create,*)
(* which leaves it locked for the child: pc = "hostthread_main" is a child *)
(* that has not yet unlocked it.                                           *)
(***************************************************************************)
EXTENDS Integers, Sequences, FiniteSets

CONSTANT MAX_HOSTTHREADS            \* size of hostthread_table__global[]

ASSUME MaxHostthreadsAssumption == MAX_HOSTTHREADS \in Nat \ {0}

VARIABLES
    mode,                        \* hostthread->mode, per table slot
    heapcleaner_state,           \* pth__heapcleaner_state__global
    running_hostthreads_count,   \* pth__running_hostthreads_count__global
    extra_heapcleaner_roots,     \* pth__extra_heapcleaner_roots__global: whose
                                 \* C-level references it points at, in order
    protected_c_arg,             \* is task->protected_c_arg a caller's value?
    agegroup0,                   \* contents of the slot's agegroup0 buffer
    waiters,                     \* hostthreads asleep in pth__condvar
    pc,                          \* where the hostthread of the slot is
    held,                        \* the heap reference its C frames hold
    exiting                      \* inside pth__pthread_exit?

vars == <<mode, heapcleaner_state, running_hostthreads_count,
          extra_heapcleaner_roots, protected_c_arg, agegroup0, waiters, pc,
          held, exiting>>

Hostthreads == 0 .. MAX_HOSTTHREADS - 1

Modes  == {"RUNNING", "BLOCKED", "PRIMARY_HEAPCLEANER",
           "SECONDARY_HEAPCLEANER", "VOID"}
States == {"OFF", "STARTING", "RUNNING"}
PCs    == {"void", "hostthread_main", "user", "primary_wait", "clean",
           "swept", "secondary_wait", "blocked", "recover_wait", "exit"}

TypeOK ==
    /\ mode \in [Hostthreads -> Modes]
    /\ heapcleaner_state \in States
    /\ running_hostthreads_count \in Nat
    /\ extra_heapcleaner_roots \in Seq(Hostthreads)
    /\ protected_c_arg \in [Hostthreads -> BOOLEAN]
    /\ agegroup0 \in [Hostthreads -> {"empty", "live", "swept"}]
    /\ waiters \in SUBSET Hostthreads
    /\ pc \in [Hostthreads -> PCs]
    /\ held \in [Hostthreads -> {"none", "extra", "arg"}]
    /\ exiting \in [Hostthreads -> BOOLEAN]

\* make_task: slot 0 is the initial hostthread, every other slot is VOID.
Init ==
    /\ mode = [h \in Hostthreads |-> IF h = 0 THEN "RUNNING" ELSE "VOID"]
    /\ heapcleaner_state = "OFF"
    /\ running_hostthreads_count = 1
    /\ extra_heapcleaner_roots = <<>>
    /\ protected_c_arg = [h \in Hostthreads |-> FALSE]
    /\ agegroup0 = [h \in Hostthreads |-> "empty"]
    /\ waiters = {}
    /\ pc = [h \in Hostthreads |-> IF h = 0 THEN "user" ELSE "void"]
    /\ held = [h \in Hostthreads |-> "none"]
    /\ exiting = [h \in Hostthreads |-> FALSE]

-----------------------------------------------------------------------------
(* Helpers *)

\* Nobody holds pth__mutex between steps, except on behalf of a child that
\* pth__pthread_create has started and that has not reached its first line.
MutexIsFree == \A h \in Hostthreads : pc[h] # "hostthread_main"

\* h is in a pthread_cond_wait loop and has been woken (or woke up by itself).
Woken(h, loop) == pc[h] = loop /\ h \notin waiters

Goto(h, l) == pc' = [pc EXCEPT ![h] = l]

\* Where call_heapcleaner returns to.
Return(h) == IF exiting[h] THEN "exit" ELSE "user"

\* pthread_cond_broadcast( &pth__condvar ): every sleeper is made runnable;
\* those in "asleep" go to sleep later in the same critical section.
M_broadcast(asleep) ==
    waiters' \in IF waiters = {} THEN {asleep}
                 ELSE {(waiters \ {w}) \cup asleep : w \in waiters}
broadcast(asleep) == waiters' = asleep

-----------------------------------------------------------------------------
(* call_heapcleaner and call_heapcleaner_with_extra_roots *)

\* The primary's while condition, with n hostthreads RUNNING.
M_primary_must_wait(n) == n > 1
primary_must_wait(n) == n > 0

\* The tail of the primary's critical section: wait, or start to clean.
primary_loop(h, n) ==
    \/ /\ primary_must_wait(n)
       /\ heapcleaner_state' = "STARTING"
       /\ Goto(h, "primary_wait")
    \/ /\ ~primary_must_wait(n)
       /\ heapcleaner_state' = "RUNNING"
       /\ Goto(h, "clean")

\* What the first arrival leaves in the extra-roots buffer.
M_cleared_then(roots) == extra_heapcleaner_roots \o roots
cleared_then(roots) == roots

become_primary(h, roots) ==
    /\ heapcleaner_state = "OFF"
    /\ mode' = [mode EXCEPT ![h] = "PRIMARY_HEAPCLEANER"]
    /\ running_hostthreads_count' = running_hostthreads_count - 1
    /\ extra_heapcleaner_roots' = cleared_then(roots)
    /\ primary_loop(h, running_hostthreads_count - 1)
    /\ broadcast(IF primary_must_wait(running_hostthreads_count - 1)
                 THEN {h} ELSE {})

become_secondary(h, roots) ==
    /\ heapcleaner_state # "OFF"
    /\ mode' = [mode EXCEPT ![h] = "SECONDARY_HEAPCLEANER"]
    /\ running_hostthreads_count' = running_hostthreads_count - 1
    /\ extra_heapcleaner_roots' = extra_heapcleaner_roots \o roots
    /\ Goto(h, "secondary_wait")
    /\ broadcast({h})
    /\ UNCHANGED heapcleaner_state

enter_heapcleaner(h, roots) ==
    /\ pc[h] = "user"
    /\ MutexIsFree
    /\ become_primary(h, roots) \/ become_secondary(h, roots)
    /\ UNCHANGED <<protected_c_arg, agegroup0>>

pth__start_heapcleaning(h) ==
    /\ enter_heapcleaner(h, <<>>)
    /\ UNCHANGED <<held, exiting>>

pth__start_heapcleaning_with_extra_roots(h) ==
    /\ enter_heapcleaner(h, <<h>>)
    /\ held' = [held EXCEPT ![h] = "extra"]
    /\ UNCHANGED exiting

\* The primary wakes up in its wait loop and tests the count again.
primary_wakes(h) ==
    /\ Woken(h, "primary_wait")
    /\ MutexIsFree
    /\ primary_loop(h, running_hostthreads_count)
    /\ IF primary_must_wait(running_hostthreads_count)
       THEN waiters' = waiters \cup {h}
       ELSE broadcast({})
    /\ UNCHANGED <<mode, running_hostthreads_count, extra_heapcleaner_roots,
                   protected_c_arg, agegroup0, held, exiting>>

\* A secondary wakes up: back to sleep, or back to user code.
secondary_wakes(h) ==
    /\ Woken(h, "secondary_wait")
    /\ MutexIsFree
    /\ \/ /\ heapcleaner_state # "OFF"
          /\ waiters' = waiters \cup {h}
          /\ UNCHANGED <<mode, running_hostthreads_count, pc, held>>
       \/ /\ heapcleaner_state = "OFF"
          /\ mode' = [mode EXCEPT ![h] = "RUNNING"]
          /\ running_hostthreads_count' = running_hostthreads_count + 1
          /\ Goto(h, Return(h))
          /\ held' = [held EXCEPT ![h] = "none"]
          /\ broadcast({})
    /\ UNCHANGED <<heapcleaner_state, extra_heapcleaner_roots,
                   protected_c_arg, agegroup0, exiting>>

\* The slots whose registers become heapcleaner roots.
M_is_root(g) == mode[g] \notin {"VOID", "BLOCKED"}
is_root(g) == mode[g] # "VOID"

\* The primary gathers the roots and copies what they reach out of the
\* agegroup0 buffers.
call_heapcleaner(h) ==
    /\ pc[h] = "clean"
    /\ agegroup0' = [g \in Hostthreads |->
                       IF is_root(g) /\ agegroup0[g] = "live"
                       THEN "swept" ELSE agegroup0[g]]
    /\ Goto(h, "swept")
    /\ UNCHANGED <<mode, heapcleaner_state, running_hostthreads_count,
                   extra_heapcleaner_roots, protected_c_arg, waiters, held,
                   exiting>>

\* partition_agegroup0_buffer_between_hostthreads resets the allocation
\* pointer of EVERY slot.
partition_agegroup0_buffer_between_hostthreads ==
    agegroup0' = [g \in Hostthreads |-> "empty"]

pth__finish_heapcleaning(h) ==
    /\ pc[h] = "swept"
    /\ MutexIsFree
    /\ partition_agegroup0_buffer_between_hostthreads
    /\ heapcleaner_state' = "OFF"
    /\ mode' = [mode EXCEPT ![h] = "RUNNING"]
    /\ running_hostthreads_count' = running_hostthreads_count + 1
    /\ broadcast({})
    /\ Goto(h, Return(h))
    /\ held' = [held EXCEPT ![h] = "none"]
    /\ UNCHANGED <<extra_heapcleaner_roots, protected_c_arg, exiting>>

-----------------------------------------------------------------------------
(* Blocking system calls: RELEASE_MYTHRYL_HEAP ... RECOVER_MYTHRYL_HEAP *)

\* task->protected_c_arg is set when there is an argument to protect.
protect(h, arg) == protected_c_arg[h] \/ arg

release_mythryl_heap(h, arg) ==
    /\ pc[h] = "user"
    /\ MutexIsFree
    /\ mode' = [mode EXCEPT ![h] = "BLOCKED"]
    /\ running_hostthreads_count' = running_hostthreads_count - 1
    /\ protected_c_arg' = [protected_c_arg EXCEPT ![h] = protect(h, arg)]
    /\ held' = [held EXCEPT ![h] = IF arg THEN "arg" ELSE "none"]
    /\ broadcast({})
    /\ Goto(h, "blocked")
    /\ UNCHANGED <<heapcleaner_state, extra_heapcleaner_roots, agegroup0,
                   exiting>>

\* "Don't re-enter RUNNING mode while a heapcleaning is in progress."
M_recover_must_wait(h) == heapcleaner_state # "OFF" /\ pc[h] = "blocked"
recover_must_wait(h) == heapcleaner_state # "OFF"

recover_mythryl_heap(h) ==
    /\ pc[h] = "blocked" \/ Woken(h, "recover_wait")
    /\ MutexIsFree
    /\ \/ /\ recover_must_wait(h)
          /\ waiters' = waiters \cup {h}
          /\ Goto(h, "recover_wait")
          /\ UNCHANGED <<mode, running_hostthreads_count, protected_c_arg, held>>
       \/ /\ ~recover_must_wait(h)
          /\ mode' = [mode EXCEPT ![h] = "RUNNING"]
          /\ running_hostthreads_count' = running_hostthreads_count + 1
          /\ protected_c_arg' = [protected_c_arg EXCEPT ![h] = FALSE]
          /\ held' = [held EXCEPT ![h] = "none"]
          /\ broadcast({})
          /\ Goto(h, "user")
    /\ UNCHANGED <<heapcleaner_state, extra_heapcleaner_roots, agegroup0,
                   exiting>>

-----------------------------------------------------------------------------
(* The life of a slot of hostthread_table__global[] *)

\* The first VOID slot, as the search loop of pth__pthread_create finds it.
IsFirstVoidSlot(i) == /\ mode[i] = "VOID"
                      /\ \A j \in Hostthreads : j < i => mode[j] # "VOID"

\* The count after pthread_create() has failed: ++, then --.
M_count_after_failure == running_hostthreads_count + 1
count_after_failure == (running_hostthreads_count + 1) - 1

\* A hostthread in user code creates another.  (With a full table the call
\* returns an error and changes nothing.)
pth__pthread_create(h) ==
    /\ pc[h] = "user"
    /\ MutexIsFree
    /\ \E i \in Hostthreads :
          /\ IsFirstVoidSlot(i)
          /\ \/ /\ mode' = [mode EXCEPT ![i] = "RUNNING"]
                /\ running_hostthreads_count' = running_hostthreads_count + 1
                /\ Goto(i, "hostthread_main")
             \/ /\ running_hostthreads_count' = count_after_failure
                /\ UNCHANGED <<mode, pc>>
    /\ broadcast({})
    /\ UNCHANGED <<heapcleaner_state, extra_heapcleaner_roots,
                   protected_c_arg, agegroup0, held, exiting>>

\* The child's first line: unlock the mutex its creator locked.
hostthread_main(h) ==
    /\ pc[h] = "hostthread_main"
    /\ Goto(h, "user")
    /\ UNCHANGED <<mode, heapcleaner_state, running_hostthreads_count,
                   extra_heapcleaner_roots, protected_c_arg, agegroup0,
                   waiters, held, exiting>>

\* pth__pthread_exit begins with a heapcleaning ...
exit_cleans(h) ==
    /\ enter_heapcleaner(h, <<>>)
    /\ exiting' = [exiting EXCEPT ![h] = TRUE]
    /\ UNCHANGED held

\* ... and ends by freeing the slot.
exit_voids(h) ==
    /\ pc[h] = "exit"
    /\ MutexIsFree
    /\ mode' = [mode EXCEPT ![h] = "VOID"]
    /\ running_hostthreads_count' = running_hostthreads_count - 1
    /\ exiting' = [exiting EXCEPT ![h] = FALSE]
    /\ broadcast({})
    /\ Goto(h, "void")
    /\ UNCHANGED <<heapcleaner_state, extra_heapcleaner_roots,
                   protected_c_arg, agegroup0, held>>

\* Only created hostthreads call it: the initial one ends with the process.
pth__pthread_exit(h) ==
    /\ h # 0
    /\ exit_cleans(h) \/ exit_voids(h)

-----------------------------------------------------------------------------
(* The environment *)

\* User code allocates in its own agegroup0 buffer, without any lock.
allocate(h) ==
    /\ pc[h] = "user"
    /\ agegroup0' = [agegroup0 EXCEPT ![h] = "live"]
    /\ UNCHANGED <<mode, heapcleaner_state, running_hostthreads_count,
                   extra_heapcleaner_roots, protected_c_arg, waiters, pc,
                   held, exiting>>

\* pthread_cond_wait may return without a broadcast.
spurious_wakeup(h) ==
    /\ h \in waiters
    /\ waiters' = waiters \ {h}
    /\ UNCHANGED <<mode, heapcleaner_state, running_hostthreads_count,
                   extra_heapcleaner_roots, protected_c_arg, agegroup0, pc,
                   held, exiting>>

Next ==
    \E h \in Hostthreads :
        \/ pth__start_heapcleaning(h)
        \/ pth__start_heapcleaning_with_extra_roots(h)
        \/ primary_wakes(h)
        \/ secondary_wakes(h)
        \/ call_heapcleaner(h)
        \/ pth__finish_heapcleaning(h)
        \/ \E arg \in BOOLEAN : release_mythryl_heap(h, arg)
        \/ recover_mythryl_heap(h)
        \/ pth__pthread_create(h)
        \/ hostthread_main(h)
        \/ pth__pthread_exit(h)
        \/ allocate(h)
        \/ spurious_wakeup(h)

Spec == Init /\ [][Next]_vars

\* need_to_call_heapcleaner answers TRUE while a heapcleaning is under way,
\* so a hostthread in user code that still meets heap-limit probes joins it.
joins_heapcleaning(h) ==
    /\ heapcleaner_state # "OFF"
    /\ \/ pth__start_heapcleaning(h)
       \/ pth__start_heapcleaning_with_extra_roots(h)
       \/ exit_cleans(h)

\* A hostthread gets pth__mutex back between two heapcleanings.
resumes(h) ==
    /\ heapcleaner_state = "OFF"
    /\ \/ secondary_wakes(h)
       \/ pc[h] = "recover_wait" /\ recover_mythryl_heap(h)

\* Weak fairness: a posix thread that can run does run.  Strong fairness on
\* the return to user code: a hostthread that contends for pth__mutex is not
\* overtaken by a new primary heapcleaner for ever.
Fairness ==
    \A h \in Hostthreads :
        /\ WF_vars(joins_heapcleaning(h))
        /\ WF_vars(primary_wakes(h))
        /\ WF_vars(call_heapcleaner(h))
        /\ WF_vars(pth__finish_heapcleaning(h))
        /\ WF_vars(hostthread_main(h))
        /\ WF_vars(exit_voids(h))
        /\ SF_vars(resumes(h))

FairSpec == Spec /\ Fairness

-----------------------------------------------------------------------------
(* Properties *)

Running == {h \in Hostthreads : mode[h] = "RUNNING"}

\* pth__validate_running_hostthreads_count dies unless the global count is
\* the number of RUNNING slots whenever a hostthread turns primary.
CountMatchesTable == running_hostthreads_count = Cardinality(Running)

\* While the heap is being rearranged no hostthread runs user code, and
\* exactly one hostthread does the rearranging: the two facts
\* call_heapcleaner states before it falls into the single-threaded cleaner.
CleanerIsAlone ==
    heapcleaner_state = "RUNNING" =>
        /\ Running = {}
        /\ \E p \in Hostthreads :
              /\ mode[p] = "PRIMARY_HEAPCLEANER"
              /\ \A h \in Hostthreads \ {p} : mode[h] # "PRIMARY_HEAPCLEANER"

\* Every pointer in the extra-roots buffer leads into a C frame that is
\* still there when the heapcleaner follows it: a hostthread whose call has
\* returned left no root behind.
NoDanglingRoots ==
    heapcleaner_state = "RUNNING" =>
        \A i \in DOMAIN extra_heapcleaner_roots :
            held[extra_heapcleaner_roots[i]] = "extra"

\* A value handed to RELEASE_MYTHRYL_HEAP is a heapcleaner root in every
\* cleaning that runs before RECOVER_MYTHRYL_HEAP has returned.
BlockedArgIsRoot ==
    heapcleaner_state = "RUNNING" =>
        \A h \in Hostthreads : held[h] = "arg" => protected_c_arg[h]

\* The roots of every cleaning are right: what blocked hostthreads hold is
\* among them, and none leads into a C frame that is gone.
RootsAreRight == NoDanglingRoots /\ BlockedArgIsRoot

\* No hostthread's extra roots are lost, even when it is not the hostthread
\* that cleans (the comment in call_heapcleaner_with_extra_roots).
ExtraRootsNotLost ==
    heapcleaner_state = "RUNNING" =>
        \A h \in Hostthreads :
            held[h] = "extra" =>
                \E i \in DOMAIN extra_heapcleaner_roots :
                    extra_heapcleaner_roots[i] = h

\* The partition at the end of a cleaning empties no buffer that holds
\* values allocated since the cleaner copied the live ones out.
NoAllocationLost ==
    [][\A h \in Hostthreads : agegroup0[h] = "live" => agegroup0'[h] # "empty"]_vars

\* A requested cleaning does start: every RUNNING hostthread leaves the heap
\* and the primary learns of it.
CleaningStarts == heapcleaner_state = "STARTING" ~> heapcleaner_state = "RUNNING"

\* "Ensure that all hostthreads resume running user code after heapcleaning
\* completes."
WorldResumes ==
    \A h \in Hostthreads :
        pc[h] \in {"secondary_wait", "recover_wait"} ~> mode[h] = "RUNNING"

-----------------------------------------------------------------------------
(* The inductive invariant from which the safety properties follow *)

InCleaner == {"primary_wait", "clean", "swept"}

ModeMatchesPC ==
    \A h \in Hostthreads :
        /\ mode[h] = "RUNNING" <=> pc[h] \in {"hostthread_main", "user", "exit"}
        /\ mode[h] = "PRIMARY_HEAPCLEANER" <=> pc[h] \in InCleaner
        /\ mode[h] = "SECONDARY_HEAPCLEANER" <=> pc[h] = "secondary_wait"
        /\ mode[h] = "VOID" <=> pc[h] = "void"

\* The heapcleaner state is the state of its one primary.
StateMatchesPrimary ==
    /\ \A g, h \in Hostthreads :
          pc[g] \in InCleaner /\ pc[h] \in InCleaner => g = h
    /\ heapcleaner_state = "OFF" <=> \A h \in Hostthreads : pc[h] \notin InCleaner
    /\ heapcleaner_state = "STARTING" <=>
          \E h \in Hostthreads : pc[h] = "primary_wait"
    /\ heapcleaner_state = "RUNNING" => \A h \in Hostthreads : mode[h] # "RUNNING"

\* A root in the buffer belongs to a hostthread that waits for this cleaning
\* to end; a protected argument to one that is between release and recover.
RootsAreHeld ==
    /\ heapcleaner_state # "OFF" =>
          \A i \in DOMAIN extra_heapcleaner_roots :
              /\ held[extra_heapcleaner_roots[i]] = "extra"
              /\ pc[extra_heapcleaner_roots[i]] \in InCleaner \cup {"secondary_wait"}
    /\ \A h \in Hostthreads : held[h] = "arg" => protected_c_arg[h]

\* Where an agegroup0 buffer may hold values that no cleaning has copied.
BuffersAreSwept ==
    \A h \in Hostthreads :
        /\ \/ pc[h] \in {"void", "hostthread_main", "exit"}
           \/ pc[h] = "secondary_wait" /\ heapcleaner_state = "OFF"
           \/ \E p \in Hostthreads : pc[p] = "swept"
           => agegroup0[h] # "live"

\* The strengthening of CountMatchesTable, CleanerIsAlone, NoDanglingRoots,
\* BlockedArgIsRoot and NoAllocationLost that every step preserves.
IInv == /\ TypeOK
        /\ CountMatchesTable
        /\ ModeMatchesPC
        /\ StateMatchesPrimary
        /\ RootsAreHeld
        /\ BuffersAreSwept

-----------------------------------------------------------------------------
\* The rendezvous implements the stop-the-world contract.
STW == INSTANCE StopTheWorld WITH
          Threads  <- Hostthreads,
          using    <- Running,
          cleaning <- (heapcleaner_state = "RUNNING")

StopsTheWorld == STW!Spec
=============================================================================
