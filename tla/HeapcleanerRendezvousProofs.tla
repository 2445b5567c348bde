-------------------- MODULE HeapcleanerRendezvousProofs --------------------
(***************************************************************************)
(* Proofs about HeapcleanerRendezvous for every size of the hostthread     *)
(* table.                                                                  *)
(***************************************************************************)
EXTENDS HeapcleanerRendezvous, FiniteSetTheorems, SequenceTheorems, TLAPS

\* The number of RUNNING slots is a number.
LEMMA RunningIsFinite ==
    /\ IsFiniteSet(Running)
    /\ Cardinality(Running) \in Nat
    /\ Cardinality(Running) = 0 <=> Running = {}
<1>1. IsFiniteSet(Hostthreads)
  BY FS_Interval, MaxHostthreadsAssumption DEF Hostthreads
<1>2. IsFiniteSet(Running)
  BY <1>1, FS_Subset DEF Running
<1>. QED  BY <1>2, FS_EmptySet, FS_CardinalityType

\* A slot that turns RUNNING adds one to the number of RUNNING slots.
LEMMA OneMoreRunning ==
    ASSUME TypeOK, NEW h \in Hostthreads, mode[h] # "RUNNING",
           mode' = [mode EXCEPT ![h] = "RUNNING"]
    PROVE  Cardinality(Running') = Cardinality(Running) + 1
<1>1. Running' = Running \cup {h}
  BY DEF Running, TypeOK
<1>2. h \notin Running
  BY DEF Running
<1>. QED  BY <1>1, <1>2, RunningIsFinite, FS_AddElement

\* A slot that stops RUNNING takes one from the number of RUNNING slots.
LEMMA OneLessRunning ==
    ASSUME TypeOK, NEW h \in Hostthreads, mode[h] = "RUNNING",
           NEW m, m # "RUNNING", mode' = [mode EXCEPT ![h] = m]
    PROVE  Cardinality(Running') = Cardinality(Running) - 1
<1>1. Running' = Running \ {h}
  BY DEF Running, TypeOK
<1>2. h \in Running
  BY DEF Running
<1>. QED  BY <1>1, <1>2, RunningIsFinite, FS_RemoveElement

\* The initial states satisfy the inductive invariant.
LEMMA InitIInv == Init => IInv
<1>. SUFFICES ASSUME Init PROVE IInv
  OBVIOUS
<1>0. 0 \in Hostthreads
  BY MaxHostthreadsAssumption DEF Hostthreads
<1>1. TypeOK
  BY DEF Init, TypeOK, Modes, States, PCs
<1>2. CountMatchesTable
  <2>1. Running = {0}
    BY <1>0 DEF Init, Running
  <2>. QED  BY <2>1, FS_Singleton DEF Init, CountMatchesTable
<1>3. ModeMatchesPC
  BY DEF Init, ModeMatchesPC, InCleaner
<1>4. StateMatchesPrimary
  BY DEF Init, StateMatchesPrimary, InCleaner
<1>5. RootsAreHeld
  BY DEF Init, RootsAreHeld
<1>6. BuffersAreSwept
  BY DEF Init, BuffersAreSwept
<1>. QED  BY <1>1, <1>2, <1>3, <1>4, <1>5, <1>6 DEF IInv

\* Entering the heapcleaner, as its primary or as a secondary, preserves the
\* invariant.
LEMMA EnterStep ==
    ASSUME IInv, NEW h \in Hostthreads, NEW roots \in Seq(Hostthreads),
           enter_heapcleaner(h, roots),
           \/ roots = <<>> /\ UNCHANGED held
           \/ roots = <<h>> /\ held' = [held EXCEPT ![h] = "extra"],
           exiting' \in [Hostthreads -> BOOLEAN]
    PROVE  IInv'
<1>. USE DEF IInv
<1>0. /\ pc[h] = "user" /\ mode[h] = "RUNNING"
      /\ heapcleaner_state # "RUNNING"
      /\ running_hostthreads_count' = running_hostthreads_count - 1
      /\ UNCHANGED <<protected_c_arg, agegroup0>>
  BY DEF enter_heapcleaner, become_primary, become_secondary, ModeMatchesPC,
         StateMatchesPrimary
<1>1. CountMatchesTable'
  <2>1. PICK m : m # "RUNNING" /\ mode' = [mode EXCEPT ![h] = m]
    BY DEF enter_heapcleaner, become_primary, become_secondary
  <2>2. Cardinality(Running') = Cardinality(Running) - 1
    BY <1>0, <2>1, OneLessRunning
  <2>. QED  BY <1>0, <2>2 DEF CountMatchesTable
<1>2. running_hostthreads_count' \in Nat
  <2>1. h \in Running
    BY <1>0 DEF Running
  <2>2. running_hostthreads_count # 0
    BY <2>1, RunningIsFinite DEF CountMatchesTable
  <2>. QED  BY <1>0, <2>2 DEF TypeOK
<1>3. TypeOK'
  <2>1. /\ mode' \in [Hostthreads -> Modes]
        /\ heapcleaner_state' \in States
        /\ pc' \in [Hostthreads -> PCs]
        /\ waiters' \in SUBSET Hostthreads
    BY DEF enter_heapcleaner, become_primary, become_secondary, primary_loop,
           broadcast, Goto, TypeOK, Modes, States, PCs
  <2>2. extra_heapcleaner_roots' \in Seq(Hostthreads)
    <3>1. extra_heapcleaner_roots \o roots \in Seq(Hostthreads)
      BY ConcatProperties DEF TypeOK
    <3>. QED  BY <3>1 DEF enter_heapcleaner, become_primary, become_secondary,
                          cleared_then
  <2>3. held' \in [Hostthreads -> {"none", "extra", "arg"}]
    BY DEF TypeOK
  <2>. QED  BY <1>0, <1>2, <2>1, <2>2, <2>3 DEF TypeOK
<1>4. CASE become_secondary(h, roots)
  <2>0. /\ heapcleaner_state = "STARTING" /\ UNCHANGED heapcleaner_state
        /\ mode' = [mode EXCEPT ![h] = "SECONDARY_HEAPCLEANER"]
        /\ pc' = [pc EXCEPT ![h] = "secondary_wait"]
        /\ extra_heapcleaner_roots' = extra_heapcleaner_roots \o roots
    BY <1>0, <1>4 DEF become_secondary, Goto, TypeOK, States
  <2>1. ModeMatchesPC'
    BY <1>0, <2>0 DEF ModeMatchesPC, TypeOK, InCleaner
  <2>2. StateMatchesPrimary'
    BY <1>0, <2>0 DEF StateMatchesPrimary, TypeOK, InCleaner
  <2>3. RootsAreHeld'
    <3>1. \A i \in DOMAIN extra_heapcleaner_roots' :
             \/ /\ i \in DOMAIN extra_heapcleaner_roots
                /\ extra_heapcleaner_roots'[i] = extra_heapcleaner_roots[i]
             \/ extra_heapcleaner_roots'[i] = h /\ roots = <<h>>
      BY <2>0 DEF TypeOK
    <3>2. \A i \in DOMAIN extra_heapcleaner_roots :
             extra_heapcleaner_roots[i] \in Hostthreads
      BY DEF TypeOK
    <3>. QED  BY <1>0, <2>0, <3>1, <3>2 DEF RootsAreHeld, TypeOK
  <2>4. BuffersAreSwept'
    BY <1>0, <2>0 DEF BuffersAreSwept, TypeOK
  <2>. QED  BY <1>1, <1>3, <2>1, <2>2, <2>3, <2>4
<1>5. CASE become_primary(h, roots)
  <2>0. /\ heapcleaner_state = "OFF"
        /\ mode' = [mode EXCEPT ![h] = "PRIMARY_HEAPCLEANER"]
        /\ extra_heapcleaner_roots' = roots
    BY <1>5 DEF become_primary, cleared_then
  <2>1. \/ /\ heapcleaner_state' = "STARTING"
           /\ pc' = [pc EXCEPT ![h] = "primary_wait"]
        \/ /\ heapcleaner_state' = "RUNNING"
           /\ running_hostthreads_count' <= 0
           /\ pc' = [pc EXCEPT ![h] = "clean"]
    BY <1>0, <1>2, <1>5 DEF become_primary, primary_loop, primary_must_wait, Goto
  <2>2. ModeMatchesPC'
    BY <1>0, <2>0, <2>1 DEF ModeMatchesPC, TypeOK, InCleaner
  <2>3. StateMatchesPrimary'
    <3>1. heapcleaner_state' = "RUNNING" => \A g \in Hostthreads : mode'[g] # "RUNNING"
      <4>1. SUFFICES ASSUME running_hostthreads_count' <= 0
                     PROVE  \A g \in Hostthreads : mode'[g] # "RUNNING"
        BY <2>1
      <4>2. Cardinality(Running') = 0
        BY <1>1, <1>2, <4>1 DEF CountMatchesTable
      <4>3. IsFiniteSet(Running')
        <5>1. Running' = Running \ {h}
          BY <2>0 DEF Running, TypeOK
        <5>. QED  BY <5>1, RunningIsFinite, FS_RemoveElement
      <4>4. Running' = {}
        BY <4>2, <4>3, FS_EmptySet
      <4>. QED  BY <4>4 DEF Running
    <3>2. \A g \in Hostthreads : pc[g] \notin InCleaner
      BY <2>0 DEF StateMatchesPrimary
    <3>. QED  BY <1>0, <2>0, <2>1, <3>1, <3>2 DEF StateMatchesPrimary, TypeOK, InCleaner
  <2>4. RootsAreHeld'
    <3>1. pc'[h] \in InCleaner
      BY <2>1 DEF TypeOK, InCleaner
    <3>. QED  BY <1>0, <2>0, <3>1 DEF RootsAreHeld, TypeOK
  <2>5. BuffersAreSwept'
    <3>1. \A p \in Hostthreads : pc'[p] # "swept"
      BY <2>0, <2>1 DEF StateMatchesPrimary, TypeOK, InCleaner
    <3>. QED  BY <1>0, <2>0, <2>1, <3>1 DEF BuffersAreSwept, TypeOK
  <2>. QED  BY <1>1, <1>3, <2>2, <2>3, <2>4, <2>5
<1>. QED  BY <1>4, <1>5 DEF enter_heapcleaner

\* The wait loop of the primary preserves the invariant.
LEMMA PrimaryWakesStep ==
    ASSUME IInv, NEW h \in Hostthreads, primary_wakes(h)
    PROVE  IInv'
<1>. USE DEF IInv
<1>0. /\ pc[h] = "primary_wait" /\ heapcleaner_state = "STARTING"
      /\ UNCHANGED <<mode, running_hostthreads_count, extra_heapcleaner_roots,
                     protected_c_arg, agegroup0, held, exiting>>
  BY DEF primary_wakes, Woken, StateMatchesPrimary
<1>1. \/ /\ heapcleaner_state' = "STARTING"
         /\ pc' = [pc EXCEPT ![h] = "primary_wait"]
      \/ /\ heapcleaner_state' = "RUNNING"
         /\ running_hostthreads_count = 0
         /\ pc' = [pc EXCEPT ![h] = "clean"]
  BY DEF primary_wakes, primary_loop, primary_must_wait, Goto, TypeOK
<1>2. CountMatchesTable'
  BY <1>0 DEF CountMatchesTable, Running
<1>3. TypeOK'
  <2>1. waiters' \in SUBSET Hostthreads
    BY DEF primary_wakes, broadcast, TypeOK
  <2>. QED  BY <1>0, <1>1, <2>1 DEF TypeOK, States, PCs
<1>4. ModeMatchesPC'
  BY <1>0, <1>1 DEF ModeMatchesPC, TypeOK, InCleaner
<1>5. StateMatchesPrimary'
  <2>1. heapcleaner_state' = "RUNNING" => \A g \in Hostthreads : mode[g] # "RUNNING"
    BY <1>1, RunningIsFinite DEF CountMatchesTable, Running
  <2>. QED  BY <1>0, <1>1, <2>1 DEF StateMatchesPrimary, TypeOK, InCleaner
<1>6. RootsAreHeld'
  <2>1. \A i \in DOMAIN extra_heapcleaner_roots :
           extra_heapcleaner_roots[i] \in Hostthreads
    BY DEF TypeOK
  <2>. QED  BY <1>0, <1>1, <2>1 DEF RootsAreHeld, TypeOK, InCleaner
<1>7. BuffersAreSwept'
  BY <1>0, <1>1 DEF BuffersAreSwept, TypeOK
<1>. QED  BY <1>2, <1>3, <1>4, <1>5, <1>6, <1>7

\* The wait loop of a secondary preserves the invariant.
LEMMA SecondaryWakesStep ==
    ASSUME IInv, NEW h \in Hostthreads, secondary_wakes(h)
    PROVE  IInv'
<1>. USE DEF IInv
<1>0. /\ pc[h] = "secondary_wait" /\ mode[h] = "SECONDARY_HEAPCLEANER"
      /\ UNCHANGED <<heapcleaner_state, extra_heapcleaner_roots,
                     protected_c_arg, agegroup0, exiting>>
  BY DEF secondary_wakes, Woken, ModeMatchesPC
<1>1. CASE heapcleaner_state # "OFF"
  <2>1. /\ waiters' \in SUBSET Hostthreads
        /\ UNCHANGED <<mode, running_hostthreads_count, pc, held>>
    BY <1>1 DEF secondary_wakes, TypeOK
  <2>. QED  BY <1>0, <2>1 DEF TypeOK, CountMatchesTable, Running, ModeMatchesPC,
                 StateMatchesPrimary, RootsAreHeld, BuffersAreSwept
<1>2. CASE heapcleaner_state = "OFF"
  <2>0. /\ mode' = [mode EXCEPT ![h] = "RUNNING"]
        /\ running_hostthreads_count' = running_hostthreads_count + 1
        /\ \/ pc' = [pc EXCEPT ![h] = "user"]
           \/ pc' = [pc EXCEPT ![h] = "exit"]
        /\ held' = [held EXCEPT ![h] = "none"]
        /\ waiters' = {}
    BY <1>2 DEF secondary_wakes, Goto, Return, broadcast
  <2>1. CountMatchesTable'
    BY <1>0, <2>0, OneMoreRunning DEF CountMatchesTable
  <2>2. TypeOK'
    BY <1>0, <2>0 DEF TypeOK, Modes, PCs
  <2>3. ModeMatchesPC'
    BY <1>0, <2>0 DEF ModeMatchesPC, TypeOK, InCleaner
  <2>4. StateMatchesPrimary'
    BY <1>0, <1>2, <2>0 DEF StateMatchesPrimary, TypeOK, InCleaner
  <2>5. RootsAreHeld'
    BY <1>0, <1>2, <2>0 DEF RootsAreHeld, TypeOK
  <2>6. BuffersAreSwept'
    BY <1>0, <1>2, <2>0 DEF BuffersAreSwept, TypeOK
  <2>. QED  BY <2>1, <2>2, <2>3, <2>4, <2>5, <2>6
<1>. QED  BY <1>1, <1>2

\* The copying of live values preserves the invariant.
LEMMA CallHeapcleanerStep ==
    ASSUME IInv, NEW h \in Hostthreads, call_heapcleaner(h)
    PROVE  IInv'
<1>. USE DEF IInv
<1>0. /\ pc[h] = "clean" /\ mode[h] = "PRIMARY_HEAPCLEANER"
      /\ heapcleaner_state = "RUNNING"
      /\ pc' = [pc EXCEPT ![h] = "swept"]
      /\ UNCHANGED <<mode, heapcleaner_state, running_hostthreads_count,
                     extra_heapcleaner_roots, protected_c_arg, waiters, held,
                     exiting>>
  BY DEF call_heapcleaner, Goto, ModeMatchesPC, StateMatchesPrimary, InCleaner,
         TypeOK, States
<1>1. CountMatchesTable'
  BY <1>0 DEF CountMatchesTable, Running
<1>2. /\ agegroup0' \in [Hostthreads -> {"empty", "live", "swept"}]
      /\ \A g \in Hostthreads : agegroup0'[g] # "live"
  BY DEF call_heapcleaner, is_root, TypeOK, ModeMatchesPC, BuffersAreSwept
<1>3. TypeOK'
  BY <1>0, <1>2 DEF TypeOK, PCs
<1>4. ModeMatchesPC'
  BY <1>0 DEF ModeMatchesPC, TypeOK, InCleaner
<1>5. StateMatchesPrimary'
  BY <1>0 DEF StateMatchesPrimary, TypeOK, InCleaner
<1>6. RootsAreHeld'
  <2>1. \A i \in DOMAIN extra_heapcleaner_roots :
           extra_heapcleaner_roots[i] \in Hostthreads
    BY DEF TypeOK
  <2>. QED  BY <1>0, <2>1 DEF RootsAreHeld, TypeOK, InCleaner
<1>7. BuffersAreSwept'
  BY <1>2 DEF BuffersAreSwept
<1>. QED  BY <1>1, <1>3, <1>4, <1>5, <1>6, <1>7

\* The end of a heapcleaning preserves the invariant.
LEMMA FinishStep ==
    ASSUME IInv, NEW h \in Hostthreads, pth__finish_heapcleaning(h)
    PROVE  IInv'
<1>. USE DEF IInv
<1>0. /\ pc[h] = "swept" /\ mode[h] = "PRIMARY_HEAPCLEANER"
      /\ heapcleaner_state' = "OFF"
      /\ mode' = [mode EXCEPT ![h] = "RUNNING"]
      /\ running_hostthreads_count' = running_hostthreads_count + 1
      /\ waiters' = {}
      /\ \/ pc' = [pc EXCEPT ![h] = "user"]
         \/ pc' = [pc EXCEPT ![h] = "exit"]
      /\ held' = [held EXCEPT ![h] = "none"]
      /\ agegroup0' = [g \in Hostthreads |-> "empty"]
      /\ UNCHANGED <<extra_heapcleaner_roots, protected_c_arg, exiting>>
  BY DEF pth__finish_heapcleaning, Goto, Return, broadcast, ModeMatchesPC,
         InCleaner, partition_agegroup0_buffer_between_hostthreads
<1>1. CountMatchesTable'
  BY <1>0, OneMoreRunning DEF CountMatchesTable
<1>2. TypeOK'
  BY <1>0 DEF TypeOK, Modes, PCs, States
<1>3. ModeMatchesPC'
  BY <1>0 DEF ModeMatchesPC, TypeOK, InCleaner
<1>4. StateMatchesPrimary'
  BY <1>0 DEF StateMatchesPrimary, TypeOK, InCleaner
<1>5. RootsAreHeld'
  BY <1>0 DEF RootsAreHeld, TypeOK
<1>6. BuffersAreSwept'
  BY <1>0 DEF BuffersAreSwept
<1>. QED  BY <1>1, <1>2, <1>3, <1>4, <1>5, <1>6

\* Giving up the heap for a blocking call preserves the invariant.
LEMMA ReleaseStep ==
    ASSUME IInv, NEW h \in Hostthreads, NEW arg \in BOOLEAN,
           release_mythryl_heap(h, arg)
    PROVE  IInv'
<1>. USE DEF IInv
<1>0. /\ pc[h] = "user" /\ mode[h] = "RUNNING"
      /\ mode' = [mode EXCEPT ![h] = "BLOCKED"]
      /\ running_hostthreads_count' = running_hostthreads_count - 1
      /\ waiters' = {}
      /\ pc' = [pc EXCEPT ![h] = "blocked"]
      /\ UNCHANGED <<heapcleaner_state, extra_heapcleaner_roots, agegroup0,
                     exiting>>
  BY DEF release_mythryl_heap, Goto, broadcast, ModeMatchesPC
<1>1. CountMatchesTable'
  BY <1>0, OneLessRunning DEF CountMatchesTable
<1>2. /\ protected_c_arg' \in [Hostthreads -> BOOLEAN]
      /\ held' \in [Hostthreads -> {"none", "extra", "arg"}]
      /\ \A g \in Hostthreads : held'[g] = "arg" => protected_c_arg'[g]
      /\ \A g \in Hostthreads \ {h} : held'[g] = held[g]
  <2>1. /\ held' = [held EXCEPT ![h] = IF arg THEN "arg" ELSE "none"]
        /\ protected_c_arg' = [protected_c_arg EXCEPT ![h] = protected_c_arg[h] \/ arg]
    BY DEF release_mythryl_heap, protect
  <2>2. CASE arg = TRUE
    <3>1. /\ held' = [held EXCEPT ![h] = "arg"]
          /\ protected_c_arg' = [protected_c_arg EXCEPT ![h] = TRUE]
      BY <2>1, <2>2, Zenon
    <3>. QED  BY <3>1 DEF TypeOK, RootsAreHeld
  <2>3. CASE arg = FALSE
    <3>1. held' = [held EXCEPT ![h] = "none"]
      BY <2>1, <2>3, Zenon
    <3>2. protected_c_arg' = [protected_c_arg EXCEPT ![h] = protected_c_arg[h]]
      BY <2>1, <2>3, Zenon DEF TypeOK
    <3>. QED  BY <3>1, <3>2 DEF TypeOK, RootsAreHeld
  <2>. QED  BY <2>2, <2>3
<1>3. TypeOK'
  <2>1. h \in Running
    BY <1>0 DEF Running
  <2>2. running_hostthreads_count # 0
    BY <2>1, RunningIsFinite DEF CountMatchesTable
  <2>3. running_hostthreads_count' \in Nat
    BY <1>0, <2>2 DEF TypeOK
  <2>4. mode' \in [Hostthreads -> Modes] /\ pc' \in [Hostthreads -> PCs]
    BY <1>0 DEF TypeOK, Modes, PCs
  <2>. QED  BY <1>0, <1>2, <2>3, <2>4 DEF TypeOK
<1>4. ModeMatchesPC'
  BY <1>0 DEF ModeMatchesPC, TypeOK, InCleaner
<1>5. StateMatchesPrimary'
  BY <1>0 DEF StateMatchesPrimary, TypeOK, InCleaner
<1>6. RootsAreHeld'
  <2>1. \A i \in DOMAIN extra_heapcleaner_roots :
           extra_heapcleaner_roots[i] \in Hostthreads
    BY DEF TypeOK
  <2>. QED  BY <1>0, <1>2, <2>1 DEF RootsAreHeld, TypeOK, InCleaner
<1>7. BuffersAreSwept'
  BY <1>0 DEF BuffersAreSwept, TypeOK
<1>. QED  BY <1>1, <1>3, <1>4, <1>5, <1>6, <1>7

\* Taking the heap back after a blocking call preserves the invariant.
LEMMA RecoverStep ==
    ASSUME IInv, NEW h \in Hostthreads, recover_mythryl_heap(h)
    PROVE  IInv'
<1>. USE DEF IInv
<1>0. /\ pc[h] \in {"blocked", "recover_wait"}
      /\ UNCHANGED <<heapcleaner_state, extra_heapcleaner_roots, agegroup0,
                     exiting>>
  BY DEF recover_mythryl_heap, Woken
<1>a. \A i \in DOMAIN extra_heapcleaner_roots :
         extra_heapcleaner_roots[i] \in Hostthreads
  BY DEF TypeOK
<1>1. CASE heapcleaner_state # "OFF"
  <2>0. /\ waiters' \in SUBSET Hostthreads
        /\ pc' = [pc EXCEPT ![h] = "recover_wait"]
        /\ UNCHANGED <<mode, running_hostthreads_count, protected_c_arg, held>>
    BY <1>1 DEF recover_mythryl_heap, recover_must_wait, Goto, TypeOK
  <2>1. CountMatchesTable'
    BY <2>0 DEF CountMatchesTable, Running
  <2>2. TypeOK'
    BY <1>0, <2>0 DEF TypeOK, PCs
  <2>3. ModeMatchesPC'
    BY <1>0, <2>0 DEF ModeMatchesPC, TypeOK, InCleaner
  <2>4. StateMatchesPrimary'
    BY <1>0, <2>0 DEF StateMatchesPrimary, TypeOK, InCleaner
  <2>5. RootsAreHeld'
    BY <1>0, <1>a, <2>0 DEF RootsAreHeld, TypeOK, InCleaner
  <2>6. BuffersAreSwept'
    BY <1>0, <2>0 DEF BuffersAreSwept, TypeOK
  <2>. QED  BY <2>1, <2>2, <2>3, <2>4, <2>5, <2>6
<1>2. CASE heapcleaner_state = "OFF"
  <2>0. /\ mode[h] # "RUNNING"
        /\ mode' = [mode EXCEPT ![h] = "RUNNING"]
        /\ running_hostthreads_count' = running_hostthreads_count + 1
        /\ protected_c_arg' = [protected_c_arg EXCEPT ![h] = FALSE]
        /\ held' = [held EXCEPT ![h] = "none"]
        /\ pc' = [pc EXCEPT ![h] = "user"]
        /\ waiters' = {}
    BY <1>0, <1>2 DEF recover_mythryl_heap, recover_must_wait, Goto, broadcast,
                      ModeMatchesPC
  <2>1. CountMatchesTable'
    BY <2>0, OneMoreRunning DEF CountMatchesTable
  <2>2. TypeOK'
    BY <1>0, <2>0 DEF TypeOK, Modes, PCs
  <2>3. ModeMatchesPC'
    BY <1>0, <2>0 DEF ModeMatchesPC, TypeOK, InCleaner
  <2>4. StateMatchesPrimary'
    BY <1>0, <1>2, <2>0 DEF StateMatchesPrimary, TypeOK, InCleaner
  <2>5. RootsAreHeld'
    BY <1>0, <1>2, <2>0 DEF RootsAreHeld, TypeOK
  <2>6. BuffersAreSwept'
    BY <1>0, <2>0 DEF BuffersAreSwept, TypeOK
  <2>. QED  BY <2>1, <2>2, <2>3, <2>4, <2>5, <2>6
<1>. QED  BY <1>1, <1>2

\* Creating a hostthread, or failing to, preserves the invariant.
LEMMA CreateStep ==
    ASSUME IInv, NEW h \in Hostthreads, pth__pthread_create(h)
    PROVE  IInv'
<1>. USE DEF IInv
<1>0. /\ pc[h] = "user" /\ heapcleaner_state # "RUNNING"
      /\ waiters' = {}
      /\ UNCHANGED <<heapcleaner_state, extra_heapcleaner_roots,
                     protected_c_arg, agegroup0, held, exiting>>
  BY DEF pth__pthread_create, broadcast, StateMatchesPrimary, ModeMatchesPC
<1>1. CASE UNCHANGED <<mode, running_hostthreads_count, pc>>
  BY <1>0, <1>1 DEF TypeOK, CountMatchesTable, Running, ModeMatchesPC,
       StateMatchesPrimary, RootsAreHeld, BuffersAreSwept
<1>2. ASSUME NEW i \in Hostthreads, mode[i] = "VOID",
             mode' = [mode EXCEPT ![i] = "RUNNING"],
             running_hostthreads_count' = running_hostthreads_count + 1,
             pc' = [pc EXCEPT ![i] = "hostthread_main"]
      PROVE  IInv'
  <2>0. pc[i] = "void"
    BY <1>2 DEF ModeMatchesPC
  <2>1. CountMatchesTable'
    BY <1>2, OneMoreRunning DEF CountMatchesTable
  <2>2. TypeOK'
    BY <1>0, <1>2 DEF TypeOK, Modes, PCs
  <2>3. ModeMatchesPC'
    BY <1>2 DEF ModeMatchesPC, TypeOK, InCleaner
  <2>4. StateMatchesPrimary'
    BY <1>0, <1>2, <2>0 DEF StateMatchesPrimary, TypeOK, InCleaner
  <2>5. RootsAreHeld'
    <3>1. \A j \in DOMAIN extra_heapcleaner_roots :
             extra_heapcleaner_roots[j] \in Hostthreads
      BY DEF TypeOK
    <3>. QED  BY <1>0, <1>2, <2>0, <3>1 DEF RootsAreHeld, TypeOK, InCleaner
  <2>6. BuffersAreSwept'
    BY <1>0, <1>2, <2>0 DEF BuffersAreSwept, TypeOK
  <2>. QED  BY <2>1, <2>2, <2>3, <2>4, <2>5, <2>6
<1>3. count_after_failure = running_hostthreads_count
  BY DEF count_after_failure, TypeOK
<1>. QED  BY <1>1, <1>2, <1>3 DEF pth__pthread_create, IsFirstVoidSlot, Goto

\* The birth of a hostthread, its allocations and a spurious wakeup preserve
\* the invariant.
LEMMA MainAllocateSpuriousStep ==
    ASSUME IInv, NEW h \in Hostthreads,
           hostthread_main(h) \/ allocate(h) \/ spurious_wakeup(h)
    PROVE  IInv'
<1>. USE DEF IInv
<1>0. /\ waiters' \in SUBSET Hostthreads
      /\ UNCHANGED <<mode, heapcleaner_state, running_hostthreads_count,
                     extra_heapcleaner_roots, protected_c_arg, held, exiting>>
  BY DEF hostthread_main, allocate, spurious_wakeup, TypeOK
<1>1. CountMatchesTable'
  BY <1>0 DEF CountMatchesTable, Running
<1>a. \A j \in DOMAIN extra_heapcleaner_roots :
         extra_heapcleaner_roots[j] \in Hostthreads
  BY DEF TypeOK
<1>2. CASE hostthread_main(h)
  <2>0. /\ pc[h] = "hostthread_main" /\ pc' = [pc EXCEPT ![h] = "user"]
        /\ UNCHANGED agegroup0
    BY <1>2 DEF hostthread_main, Goto
  <2>2. TypeOK'
    BY <1>0, <2>0 DEF TypeOK, PCs
  <2>3. ModeMatchesPC'
    BY <1>0, <2>0 DEF ModeMatchesPC, TypeOK, InCleaner
  <2>4. StateMatchesPrimary'
    BY <1>0, <2>0 DEF StateMatchesPrimary, TypeOK, InCleaner
  <2>5. RootsAreHeld'
    BY <1>0, <1>a, <2>0 DEF RootsAreHeld, TypeOK, InCleaner
  <2>6. BuffersAreSwept'
    BY <1>0, <2>0 DEF BuffersAreSwept, TypeOK
  <2>. QED  BY <1>1, <2>2, <2>3, <2>4, <2>5, <2>6
<1>3. CASE allocate(h)
  <2>0. /\ pc[h] = "user" /\ UNCHANGED pc
        /\ agegroup0' = [agegroup0 EXCEPT ![h] = "live"]
    BY <1>3 DEF allocate
  <2>2. TypeOK'
    BY <1>0, <2>0 DEF TypeOK
  <2>3. ModeMatchesPC' /\ StateMatchesPrimary' /\ RootsAreHeld'
    BY <1>0, <2>0 DEF ModeMatchesPC, StateMatchesPrimary, RootsAreHeld
  <2>4. \A p \in Hostthreads : pc[p] # "swept"
    BY <2>0 DEF StateMatchesPrimary, ModeMatchesPC, InCleaner, TypeOK, States
  <2>5. BuffersAreSwept'
    BY <1>0, <2>0, <2>4 DEF BuffersAreSwept, TypeOK
  <2>. QED  BY <1>1, <2>2, <2>3, <2>5
<1>4. CASE spurious_wakeup(h)
  <2>0. UNCHANGED <<agegroup0, pc>>
    BY <1>4 DEF spurious_wakeup
  <2>. QED  BY <1>0, <1>1, <2>0 DEF TypeOK, ModeMatchesPC, StateMatchesPrimary,
              RootsAreHeld, BuffersAreSwept
<1>. QED  BY <1>2, <1>3, <1>4

\* Freeing a slot preserves the invariant.
LEMMA ExitVoidsStep ==
    ASSUME IInv, NEW h \in Hostthreads, exit_voids(h)
    PROVE  IInv'
<1>. USE DEF IInv
<1>0. /\ pc[h] = "exit" /\ mode[h] = "RUNNING"
      /\ mode' = [mode EXCEPT ![h] = "VOID"]
      /\ running_hostthreads_count' = running_hostthreads_count - 1
      /\ exiting' = [exiting EXCEPT ![h] = FALSE]
      /\ waiters' = {}
      /\ pc' = [pc EXCEPT ![h] = "void"]
      /\ UNCHANGED <<heapcleaner_state, extra_heapcleaner_roots,
                     protected_c_arg, agegroup0, held>>
  BY DEF exit_voids, Goto, broadcast, ModeMatchesPC
<1>1. CountMatchesTable'
  BY <1>0, OneLessRunning DEF CountMatchesTable
<1>2. TypeOK'
  <2>1. h \in Running
    BY <1>0 DEF Running
  <2>2. running_hostthreads_count # 0
    BY <2>1, RunningIsFinite DEF CountMatchesTable
  <2>3. running_hostthreads_count' \in Nat
    BY <1>0, <2>2 DEF TypeOK
  <2>4. mode' \in [Hostthreads -> Modes] /\ pc' \in [Hostthreads -> PCs]
    BY <1>0 DEF TypeOK, Modes, PCs
  <2>. QED  BY <1>0, <2>3, <2>4 DEF TypeOK
<1>3. ModeMatchesPC'
  BY <1>0 DEF ModeMatchesPC, TypeOK, InCleaner
<1>4. StateMatchesPrimary'
  BY <1>0 DEF StateMatchesPrimary, TypeOK, InCleaner
<1>5. RootsAreHeld'
  <2>1. \A j \in DOMAIN extra_heapcleaner_roots :
           extra_heapcleaner_roots[j] \in Hostthreads
    BY DEF TypeOK
  <2>. QED  BY <1>0, <2>1 DEF RootsAreHeld, TypeOK, InCleaner
<1>6. BuffersAreSwept'
  BY <1>0 DEF BuffersAreSwept, TypeOK
<1>. QED  BY <1>1, <1>2, <1>3, <1>4, <1>5, <1>6

\* Every step preserves the inductive invariant.
LEMMA NextIInv == IInv /\ [Next]_vars => IInv'
<1>. SUFFICES ASSUME IInv, [Next]_vars PROVE IInv'
  OBVIOUS
<1>1. ASSUME NEW h \in Hostthreads, pth__start_heapcleaning(h) PROVE IInv'
  <2>1. <<>> \in Seq(Hostthreads) /\ exiting' \in [Hostthreads -> BOOLEAN]
    BY <1>1 DEF pth__start_heapcleaning, IInv, TypeOK
  <2>. QED  BY <1>1, <2>1, EnterStep DEF pth__start_heapcleaning
<1>2. ASSUME NEW h \in Hostthreads, pth__start_heapcleaning_with_extra_roots(h)
      PROVE  IInv'
  <2>1. <<h>> \in Seq(Hostthreads) /\ exiting' \in [Hostthreads -> BOOLEAN]
    BY <1>2 DEF pth__start_heapcleaning_with_extra_roots, IInv, TypeOK
  <2>. QED  BY <1>2, <2>1, EnterStep DEF pth__start_heapcleaning_with_extra_roots
<1>3. ASSUME NEW h \in Hostthreads, pth__pthread_exit(h) PROVE IInv'
  <2>1. CASE exit_cleans(h)
    <3>1. <<>> \in Seq(Hostthreads) /\ exiting' \in [Hostthreads -> BOOLEAN]
      BY <2>1 DEF exit_cleans, IInv, TypeOK
    <3>. QED  BY <2>1, <3>1, EnterStep DEF exit_cleans
  <2>. QED  BY <1>3, <2>1, ExitVoidsStep DEF pth__pthread_exit
<1>4. CASE UNCHANGED vars
  BY <1>4 DEF vars, IInv, TypeOK, CountMatchesTable, Running, ModeMatchesPC,
       StateMatchesPrimary, RootsAreHeld, BuffersAreSwept
<1>. QED
  BY <1>1, <1>2, <1>3, <1>4, PrimaryWakesStep, SecondaryWakesStep,
     CallHeapcleanerStep, FinishStep, ReleaseStep, RecoverStep, CreateStep,
     MainAllocateSpuriousStep DEF Next

\* The inductive invariant holds in every reachable state.
LEMMA Invariance == Spec => []IInv
<1>. QED  BY InitIInv, NextIInv, PTL DEF Spec

\* Type correctness; in particular the count of RUNNING hostthreads, which the
\* C code decrements without a test, never becomes negative.
THEOREM TypeCorrect == Spec => []TypeOK
<1>1. IInv => TypeOK
  BY DEF IInv
<1>. QED  BY <1>1, Invariance, PTL

\* pth__validate_running_hostthreads_count never finds a mismatch.
THEOREM CountIsRight == Spec => []CountMatchesTable
<1>1. IInv => CountMatchesTable
  BY DEF IInv
<1>. QED  BY <1>1, Invariance, PTL

\* While the heap is rearranged one primary is at work and nobody else uses
\* the heap.
THEOREM CleanerAlone == Spec => []CleanerIsAlone
<1>1. IInv => CleanerIsAlone
  BY DEF IInv, CleanerIsAlone, StateMatchesPrimary, ModeMatchesPC, Running,
         InCleaner
<1>. QED  BY <1>1, Invariance, PTL

\* The extra-roots buffer never leads the heapcleaner into a dead C frame.
THEOREM RootsDoNotDangle == Spec => []NoDanglingRoots
<1>1. IInv => NoDanglingRoots
  BY DEF IInv, NoDanglingRoots, RootsAreHeld
<1>. QED  BY <1>1, Invariance, PTL

\* An argument given to RELEASE_MYTHRYL_HEAP is a root until RECOVER returns.
THEOREM BlockedArgProtected == Spec => []BlockedArgIsRoot
<1>1. IInv => BlockedArgIsRoot
  BY DEF IInv, BlockedArgIsRoot, RootsAreHeld
<1>. QED  BY <1>1, Invariance, PTL

\* Both together, for the roots the heapcleaner is given in every cleaning.
THEOREM RootsRight == Spec => []RootsAreRight
<1>1. NoDanglingRoots /\ BlockedArgIsRoot => RootsAreRight
  BY DEF RootsAreRight
<1>. QED  BY <1>1, RootsDoNotDangle, BlockedArgProtected, PTL

\* No step empties an agegroup0 buffer whose values were not copied.
THEOREM AllocationsSurvive == Spec => NoAllocationLost
<1>. DEFINE Keeps == \A h \in Hostthreads :
                        agegroup0[h] = "live" => agegroup0'[h] # "empty"
<1>1. IInv /\ [Next]_vars => [Keeps]_vars
  <2>. SUFFICES ASSUME IInv, Next PROVE Keeps
    OBVIOUS
  <2>1. ASSUME NEW h \in Hostthreads, pth__finish_heapcleaning(h) PROVE Keeps
    BY <2>1 DEF pth__finish_heapcleaning, IInv, BuffersAreSwept
  <2>2. ASSUME NEW h \in Hostthreads, call_heapcleaner(h) PROVE Keeps
    BY <2>2 DEF call_heapcleaner
  <2>3. ASSUME NEW h \in Hostthreads, allocate(h) PROVE Keeps
    BY <2>3 DEF allocate, IInv, TypeOK
  <2>4. CASE UNCHANGED agegroup0
    BY <2>4
  <2>. QED
    BY <2>1, <2>2, <2>3, <2>4
       DEF Next, pth__start_heapcleaning, enter_heapcleaner,
           pth__start_heapcleaning_with_extra_roots, primary_wakes,
           secondary_wakes, release_mythryl_heap, recover_mythryl_heap,
           pth__pthread_create, hostthread_main, pth__pthread_exit,
           exit_cleans, exit_voids, spurious_wakeup
<1>2. IInv /\ [Next]_vars => [\A h \in Hostthreads :
                        agegroup0[h] = "live" => agegroup0'[h] # "empty"]_vars
  BY <1>1
<1>. QED  BY <1>2, Invariance, PTL DEF Spec, NoAllocationLost

\* The rendezvous implements the stop-the-world contract: heap values move
\* only while the set of hostthreads that may touch them is empty.
THEOREM Refinement == Spec => StopsTheWorld
<1>1. Init => STW!Init
  BY DEF Init, STW!Init, Running
<1>2. IInv /\ [Next]_vars => [STW!Next]_STW!vars
  <2>. SUFFICES ASSUME IInv, Next, ~ UNCHANGED STW!vars PROVE STW!Next
    BY DEF vars, STW!vars, Running
  <2>. USE DEF IInv
  <2>1. ASSUME NEW h \in Hostthreads, mode[h] # "RUNNING",
               mode' = [mode EXCEPT ![h] = "RUNNING"],
               heapcleaner_state # "RUNNING", UNCHANGED heapcleaner_state
        PROVE  STW!Next
    <3>1. h \notin Running /\ Running' = Running \cup {h}
      BY <2>1 DEF Running, TypeOK
    <3>2. STW!Enter(h)
      BY <2>1, <3>1 DEF STW!Enter
    <3>. QED  BY <3>2 DEF STW!Next
  <2>2. ASSUME NEW h \in Hostthreads, mode[h] = "RUNNING", NEW m,
               m # "RUNNING", mode' = [mode EXCEPT ![h] = m],
               heapcleaner_state # "RUNNING", heapcleaner_state' # "RUNNING"
        PROVE  STW!Next
    <3>1. h \in Running /\ Running' = Running \ {h}
      BY <2>2 DEF Running, TypeOK
    <3>2. STW!Leave(h)
      BY <2>2, <3>1 DEF STW!Leave
    <3>. QED  BY <3>2 DEF STW!Next
  <2>3. ASSUME NEW h \in Hostthreads, heapcleaner_state # "RUNNING",
               heapcleaner_state' = "RUNNING",
               \A g \in Hostthreads \ {h} : mode[g] = mode'[g]
        PROVE  STW!Next
    <3>1. IInv'
      BY NextIInv
    <3>2. Running' = {}
      BY <2>3, <3>1 DEF StateMatchesPrimary, Running
    <3>3. Running \subseteq {h}
      BY <2>3, <3>2 DEF Running
    <3>4. STW!BeginClean
      BY <2>3, <3>2, <3>3 DEF STW!BeginClean
    <3>. QED  BY <3>4 DEF STW!Next
  <2>4. ASSUME NEW h \in Hostthreads, pth__finish_heapcleaning(h) PROVE STW!Next
    <3>1. heapcleaner_state = "RUNNING"
      BY <2>4 DEF pth__finish_heapcleaning, StateMatchesPrimary, InCleaner,
                  TypeOK, States
    <3>2. Running' = Running \cup {h} /\ heapcleaner_state' = "OFF"
      BY <2>4 DEF pth__finish_heapcleaning, Running, TypeOK
    <3>3. STW!EndClean(h)
      BY <3>1, <3>2 DEF STW!EndClean
    <3>. QED  BY <3>3 DEF STW!Next
  <2>5. ASSUME NEW h \in Hostthreads, NEW roots, enter_heapcleaner(h, roots)
        PROVE  STW!Next
    <3>1. mode[h] = "RUNNING" /\ heapcleaner_state # "RUNNING"
      BY <2>5 DEF enter_heapcleaner, ModeMatchesPC, StateMatchesPrimary
    <3>2. PICK m : m # "RUNNING" /\ mode' = [mode EXCEPT ![h] = m]
      BY <2>5 DEF enter_heapcleaner, become_primary, become_secondary
    <3>3. CASE heapcleaner_state' = "RUNNING"
      BY <2>3, <3>1, <3>2, <3>3 DEF TypeOK
    <3>4. CASE heapcleaner_state' # "RUNNING"
      BY <2>2, <3>1, <3>2, <3>4
    <3>. QED  BY <3>3, <3>4
  <2>6. ASSUME NEW h \in Hostthreads, primary_wakes(h) PROVE STW!Next
    <3>1. /\ UNCHANGED mode
          /\ heapcleaner_state = "STARTING"
      BY <2>6 DEF primary_wakes, Woken, StateMatchesPrimary
    <3>2. UNCHANGED Running
      BY <3>1 DEF Running
    <3>3. heapcleaner_state' = "RUNNING"
      BY <3>1, <3>2 DEF STW!vars
    <3>. QED  BY <2>3, <3>1, <3>3
  <2>7. ASSUME NEW h \in Hostthreads, secondary_wakes(h) PROVE STW!Next
    <3>1. mode[h] # "RUNNING" /\ UNCHANGED heapcleaner_state
      BY <2>7 DEF secondary_wakes, Woken, ModeMatchesPC
    <3>2. CASE heapcleaner_state # "OFF"
      BY <2>7, <3>1, <3>2 DEF secondary_wakes, STW!vars, Running
    <3>3. CASE heapcleaner_state = "OFF"
      BY <2>1, <2>7, <3>1, <3>3 DEF secondary_wakes
    <3>. QED  BY <3>2, <3>3
  <2>8. ASSUME NEW h \in Hostthreads, recover_mythryl_heap(h) PROVE STW!Next
    <3>1. mode[h] # "RUNNING" /\ UNCHANGED heapcleaner_state
      BY <2>8 DEF recover_mythryl_heap, Woken, ModeMatchesPC
    <3>2. CASE heapcleaner_state # "OFF"
      BY <2>8, <3>1, <3>2 DEF recover_mythryl_heap, recover_must_wait, STW!vars,
                              Running
    <3>3. CASE heapcleaner_state = "OFF"
      BY <2>1, <2>8, <3>1, <3>3 DEF recover_mythryl_heap, recover_must_wait
    <3>. QED  BY <3>2, <3>3
  <2>9. ASSUME NEW h \in Hostthreads, NEW arg \in BOOLEAN,
               release_mythryl_heap(h, arg)
        PROVE  STW!Next
    <3>1. /\ mode[h] = "RUNNING" /\ UNCHANGED heapcleaner_state
          /\ mode' = [mode EXCEPT ![h] = "BLOCKED"]
      BY <2>9 DEF release_mythryl_heap, ModeMatchesPC
    <3>2. heapcleaner_state # "RUNNING"
      BY <3>1 DEF StateMatchesPrimary
    <3>. QED  BY <2>2, <3>1, <3>2
  <2>10. ASSUME NEW h \in Hostthreads, pth__pthread_create(h) PROVE STW!Next
    <3>1. heapcleaner_state # "RUNNING" /\ UNCHANGED heapcleaner_state
      BY <2>10 DEF pth__pthread_create, ModeMatchesPC, StateMatchesPrimary
    <3>2. CASE UNCHANGED mode
      BY <3>1, <3>2 DEF STW!vars, Running
    <3>. QED  BY <2>1, <2>10, <3>1, <3>2 DEF pth__pthread_create, IsFirstVoidSlot
  <2>11. ASSUME NEW h \in Hostthreads, exit_voids(h) PROVE STW!Next
    <3>1. /\ mode[h] = "RUNNING" /\ UNCHANGED heapcleaner_state
          /\ mode' = [mode EXCEPT ![h] = "VOID"]
      BY <2>11 DEF exit_voids, ModeMatchesPC
    <3>2. heapcleaner_state # "RUNNING"
      BY <3>1 DEF StateMatchesPrimary
    <3>. QED  BY <2>2, <3>1, <3>2
  <2>12. ASSUME NEW h \in Hostthreads,
                \/ call_heapcleaner(h) \/ hostthread_main(h)
                \/ allocate(h) \/ spurious_wakeup(h)
         PROVE  STW!Next
    BY <2>12 DEF call_heapcleaner, hostthread_main, allocate, spurious_wakeup,
                 STW!vars, Running
  <2>. QED
    BY <2>4, <2>5, <2>6, <2>7, <2>8, <2>9, <2>10, <2>11, <2>12
       DEF Next, pth__start_heapcleaning,
           pth__start_heapcleaning_with_extra_roots, pth__pthread_exit,
           exit_cleans
<1>. QED  BY <1>1, <1>2, Invariance, PTL DEF Spec, StopsTheWorld, STW!Spec
=============================================================================
