------------------------ MODULE AgegroupSpaceProofs ------------------------
(***************************************************************************)
(* Proofs about AgegroupSpace for every number of hostthreads and          *)
(* agegroups and for all sizes: the buffers that the heapcleaner computes  *)
(* beforehand hold whatever survives.                                      *)
(***************************************************************************)
EXTENDS AgegroupSpace, TLAPS

-----------------------------------------------------------------------------
(* Arithmetic of the sizes.                                                *)

\* Rounding up to whole books never makes a size smaller.
LEMMA BookRounding ==
    ASSUME NEW b \in Nat
    PROVE  BOOKROUNDED_BYTESIZE(b) \in Nat /\ BOOKROUNDED_BYTESIZE(b) >= b
<1>1. (-b) % BOOK \in Nat
  BY ConstantsAssumption
<1>. QED  BY <1>1 DEF BOOKROUNDED_BYTESIZE

\* The agegroup0 master buffer holds at least one hostthread's buffer, which
\* is not empty.
LEMMA Agegroup0Sizes ==
    /\ heap_allocation_buffer_bytesize \in Nat
    /\ heap_allocation_buffer_bytesize >= LIMIT
    /\ heap_allocation_buffer_bytesize >= 1
    /\ agegroup0_master_buffer_bytesize \in Nat
    /\ agegroup0_master_buffer_bytesize >= heap_allocation_buffer_bytesize
<1>1. /\ heap_allocation_buffer_bytesize \in Nat
      /\ heap_allocation_buffer_bytesize >= LIMIT
      /\ heap_allocation_buffer_bytesize >= 1
  BY ConstantsAssumption DEF heap_allocation_buffer_bytesize
<1>2. \A x, y \in Nat : x >= 1 => x * y \in Nat /\ x * y >= y
  OBVIOUS
<1>. QED
  BY <1>1, <1>2, ConstantsAssumption DEF agegroup0_master_buffer_bytesize

\* Age 1 and the oldest agegroup exist.
LEMMA AgesExist == 1 \in Age /\ ACTIVE_AGEGROUPS \in Age
  BY ConstantsAssumption DEF Age

-----------------------------------------------------------------------------
(* The inductive invariant.                                                *)

\* In the phases of heapclean_n_agegroups the loop variables are in range.
PhaseOK ==
    /\ cleaner = "agegroups" => level = 1
    /\ cleaner = "trim" => level \in Age /\ trimmed \in Nat /\ trimmed < level

\* While trim_heap is at work, agegroup 1 keeps the requested space and a
\* full agegroup0 buffer besides.
TrimKeepsRequest ==
    cleaner = "trim" =>
        size[1] >= used[1] + requested + heap_allocation_buffer_bytesize

IInv ==
    /\ TypeOK
    /\ NoTospaceOverflow
    /\ RoomForOneAgegroup0
    /\ PhaseOK
    /\ TrimKeepsRequest

-----------------------------------------------------------------------------
(* The size of a to-space.                                                 *)

\* The least size of a to-space covers all that can be copied into it.
LEMMA MinBytes ==
    ASSUME TypeOK, NEW a \in Age
    PROVE  /\ bytes_of_juniorchunks_in_sib(a) \in Nat
           /\ bytes_of_seniorchunks_in_next_younger_agegroup(a) \in Nat
           /\ requested_extra_free_bytes(a) \in Nat
           /\ incoming(a) \in Nat
           /\ min_bytes_for_sib(a) \in Nat
           /\ min_bytes_for_sib(a) >= incoming(a)
           /\ a = 1 => min_bytes_for_sib(a) >=
                           incoming(a) + requested + heap_allocation_buffer_bytesize
<1>1. bytes_of_juniorchunks_in_sib(a) \in Nat
  BY DEF TypeOK, bytes_of_juniorchunks_in_sib
<1>2. requested_extra_free_bytes(a) \in Nat
  BY DEF TypeOK, requested_extra_free_bytes
<1>3. CASE a = 1
  <2>1. /\ bytes_of_seniorchunks_in_next_younger_agegroup(a) = agegroup0_master_buffer_bytesize
        /\ incoming(a) = bytes_of_juniorchunks_in_sib(a)
        /\ requested_extra_free_bytes(a) = requested
    BY <1>1, <1>3 DEF bytes_of_seniorchunks_in_next_younger_agegroup, incoming, requested_extra_free_bytes
  <2>. QED  BY <1>1, <1>2, <1>3, <2>1, Agegroup0Sizes DEF min_bytes_for_sib
<1>4. CASE a # 1
  <2>1. a - 1 \in Age
    BY <1>4, ConstantsAssumption DEF Age
  <2>2. /\ bytes_of_seniorchunks_in_next_younger_agegroup(a) = seniors[a - 1]
        /\ incoming(a) = seniors[a - 1] + bytes_of_juniorchunks_in_sib(a)
        /\ seniors[a - 1] \in Nat
    BY <1>4, <2>1 DEF bytes_of_seniorchunks_in_next_younger_agegroup, incoming, TypeOK
  <2>. QED  BY <1>1, <1>2, <1>4, <2>2 DEF min_bytes_for_sib
<1>. QED  BY <1>3, <1>4

\* The size wished for never falls below the least size.
LEMMA PreferredIsEnough ==
    ASSUME TypeOK, NEW a \in Age, NEW n \in 1 .. MAX_CLEANINGS
    PROVE  /\ preferred_bytesize_for_sib(a, n) \in Nat
           /\ preferred_bytesize_for_sib(a, n) >= min_bytes_for_sib(a)
<1>. DEFINE wish == requested_extra_free_bytes(a)
                      + bytes_of_seniorchunks_in_next_younger_agegroup(a)
                      + (bytes_of_juniorchunks_in_sib(a) \div n) * RATIO
<1>1. n \in Nat \ {0} /\ RATIO \in Nat /\ soft_max_bytesize[a] \in Nat
  BY ConstantsAssumption
<1>2. (bytes_of_juniorchunks_in_sib(a) \div n) \in Nat
  BY <1>1, MinBytes
<1>3. (bytes_of_juniorchunks_in_sib(a) \div n) * RATIO \in Nat
  BY <1>1, <1>2
<1>4. wish \in Nat
  BY <1>3, MinBytes
<1>5. preferred_bytesize_for_sib(a, n) =
        IF wish <= min_bytes_for_sib(a) THEN min_bytes_for_sib(a)
        ELSE IF wish > soft_max_bytesize[a]
             THEN IF soft_max_bytesize[a] > min_bytes_for_sib(a)
                  THEN soft_max_bytesize[a] ELSE min_bytes_for_sib(a)
             ELSE wish
  BY DEF preferred_bytesize_for_sib
<1>. HIDE DEF wish
<1>. QED  BY <1>1, <1>4, <1>5, MinBytes

\* A new to-space has room for whatever is copied into it; the one of
\* agegroup 1 also for the request and for one more agegroup0 buffer.
LEMMA TospaceIsEnough ==
    ASSUME TypeOK, NoTospaceOverflow, NEW a \in Age, NEW n \in 1 .. MAX_CLEANINGS,
           NEW scarce \in BOOLEAN
    PROVE  /\ tospace_bytesize(a, n, scarce) \in Nat
           /\ tospace_bytesize(a, n, scarce) >= incoming(a)
           /\ a = 1 => tospace_bytesize(a, n, scarce) >=
                           incoming(a) + requested + heap_allocation_buffer_bytesize
<1>. DEFINE inactive == /\ size[a] = 0 /\ requested_extra_free_bytes(a) = 0
                        /\ bytes_of_seniorchunks_in_next_younger_agegroup(a) = 0
<1>1. CASE inactive
  <2>1. a # 1
    BY <1>1, Agegroup0Sizes DEF bytes_of_seniorchunks_in_next_younger_agegroup
  <2>2. a - 1 \in Age
    BY <2>1, ConstantsAssumption DEF Age
  <2>3. seniors[a - 1] = 0
    BY <1>1, <2>1 DEF bytes_of_seniorchunks_in_next_younger_agegroup
  <2>4. used[a] = 0 /\ seniors[a] = 0
    BY <1>1 DEF TypeOK, NoTospaceOverflow
  <2>5. incoming(a) = 0
    BY <2>1, <2>3, <2>4 DEF incoming, bytes_of_juniorchunks_in_sib
  <2>6. tospace_bytesize(a, n, scarce) = 0
    BY <1>1 DEF tospace_bytesize
  <2>. QED  BY <2>1, <2>5, <2>6
<1>2. CASE ~inactive
  <2>. DEFINE bytes == IF scarce THEN min_bytes_for_sib(a) ELSE preferred_bytesize_for_sib(a, n)
  <2>1. tospace_bytesize(a, n, scarce) = BOOKROUNDED_BYTESIZE(bytes)
    BY <1>2 DEF tospace_bytesize
  <2>2. bytes \in Nat /\ bytes >= min_bytes_for_sib(a)
    BY MinBytes, PreferredIsEnough
  <2>. HIDE DEF bytes
  <2>3. /\ tospace_bytesize(a, n, scarce) \in Nat
        /\ tospace_bytesize(a, n, scarce) >= bytes
    BY <2>1, <2>2, BookRounding
  <2>. QED  BY <2>2, <2>3, MinBytes, Agegroup0Sizes DEF TypeOK
<1>. QED  BY <1>1, <1>2

-----------------------------------------------------------------------------
(* The invariant holds initially and every step keeps it.                  *)

LEMMA InitIInv == Init => IInv
<1>. SUFFICES ASSUME Init PROVE IInv
  OBVIOUS
<1>. DEFINE two == 2 * heap_allocation_buffer_bytesize
<1>1. two \in Nat /\ two >= heap_allocation_buffer_bytesize
  BY Agegroup0Sizes
<1>2. BOOKROUNDED_BYTESIZE(two) \in Nat /\ BOOKROUNDED_BYTESIZE(two) >= two
  BY <1>1, BookRounding
<1>3. size \in [Age -> Nat] /\ size[1] = BOOKROUNDED_BYTESIZE(two)
  BY <1>2, AgesExist DEF Init
<1>. HIDE DEF two
<1>4. /\ used \in [Age -> Nat] /\ seniors \in [Age -> Nat]
      /\ \A a \in Age : used[a] = 0 /\ seniors[a] = 0
  BY DEF Init
<1>5. ask \in [Hostthread -> [kind : Kind \cup {"none"}, bytesize : Bytesize \cup {0}, level : {0, 1}]]
  BY DEF Init, NoChunk
<1>6. TypeOK
  BY <1>3, <1>4, <1>5, AgesExist, Agegroup0Sizes, ConstantsAssumption DEF Init, TypeOK
<1>7. NoTospaceOverflow
  BY <1>3, <1>4 DEF NoTospaceOverflow
<1>8. RoomForOneAgegroup0
  BY <1>1, <1>2, <1>3, <1>4, AgesExist, Agegroup0Sizes, ConstantsAssumption
     DEF RoomForOneAgegroup0, sib_freespace_in_bytes
<1>9. PhaseOK /\ TrimKeepsRequest
  BY DEF Init, PhaseOK, TrimKeepsRequest
<1>. QED  BY <1>6, <1>7, <1>8, <1>9 DEF IInv

\* A chunk laid down in agegroup 1 when there is sufficient space leaves more
\* free space than an agegroup0 buffer.
LEMMA LargeChunkFits ==
    ASSUME IInv, NEW b \in Nat, sufficient(b), allocate_in_agegroup1(b), size' = size
    PROVE  /\ used' \in [Age -> Nat]
           /\ \A a \in Age : used'[a] >= used[a] /\ used'[a] <= size'[a]
           /\ size'[1] - used'[1] >= LIMIT
  BY AgesExist, Agegroup0Sizes, ConstantsAssumption
     DEF IInv, TypeOK, NoTospaceOverflow, sufficient, allocate_in_agegroup1, sib_freespace_in_bytes

\* Small chunks go to agegroup 0 only.
LEMMA CommitStep ==
    ASSUME IInv, NEW h \in Hostthread, commit_nascent_heapchunk(h)
    PROVE  IInv'
<1>1. agegroup0' \in [Hostthread -> 0 .. heap_allocation_buffer_bytesize]
  BY ConstantsAssumption
     DEF IInv, TypeOK, commit_nascent_heapchunk, heap_allocation_buffer_bytesize
<1>. QED
  BY <1>1 DEF IInv, TypeOK, NoTospaceOverflow, RoomForOneAgegroup0, PhaseOK, TrimKeepsRequest,
     commit_nascent_heapchunk, sibs, phase, sib_freespace_in_bytes

\* A large chunk is laid down at once, or the heapcleaner is called first.
LEMMA BeginStep ==
    ASSUME IInv, NEW h \in Hostthread, begin_large_chunk(h)
    PROVE  IInv'
<1>0. /\ size' = size /\ seniors' = seniors /\ agegroup0' = agegroup0
      /\ cleaner' = cleaner /\ level' = level /\ trimmed' = trimmed /\ overrun' = overrun
      /\ cleaner = "off"
  BY DEF begin_large_chunk, phase, Running
<1>1. PICK k \in Kind, b \in Bytesize, p \in BOOLEAN :
        IF sufficient(b) /\ (k = "raw" \/ (k = "rw" /\ ~p))
        THEN /\ used[1] + b <= MAX_USED[1]
             /\ allocate_in_agegroup1(b)
             /\ UNCHANGED <<requested, pc, ask>>
        ELSE /\ ask' = [ask EXCEPT ![h] = [kind |-> k, bytesize |-> b,
                                           level |-> IF sufficient(b) THEN 0 ELSE 1]]
             /\ requested' = requested + b
             /\ pc' = [pc EXCEPT ![h] = "call"]
             /\ UNCHANGED used
  BY DEF begin_large_chunk
<1>2. b \in Nat
  BY ConstantsAssumption
<1>3. CASE sufficient(b) /\ (k = "raw" \/ (k = "rw" /\ ~p))
  <2>1. allocate_in_agegroup1(b) /\ requested' = requested /\ pc' = pc /\ ask' = ask
    BY <1>1, <1>3
  <2>2. /\ used' \in [Age -> Nat]
        /\ \A a \in Age : used'[a] >= used[a] /\ used'[a] <= size'[a]
        /\ size'[1] - used'[1] >= LIMIT
    BY <1>0, <1>2, <1>3, <2>1, LargeChunkFits
  <2>3. TypeOK'
    BY <1>0, <2>1, <2>2 DEF IInv, TypeOK
  <2>. QED
    BY <1>0, <2>2, <2>3 DEF IInv, NoTospaceOverflow, RoomForOneAgegroup0, PhaseOK,
       TrimKeepsRequest, sib_freespace_in_bytes
<1>4. CASE ~(sufficient(b) /\ (k = "raw" \/ (k = "rw" /\ ~p)))
  <2>1. /\ requested' = requested + b /\ used' = used
        /\ pc' = [pc EXCEPT ![h] = "call"]
        /\ ask' = [ask EXCEPT ![h] = [kind |-> k, bytesize |-> b,
                                      level |-> IF sufficient(b) THEN 0 ELSE 1]]
    BY <1>1, <1>4
  <2>2. ask' \in [Hostthread -> [kind : Kind \cup {"none"}, bytesize : Bytesize \cup {0}, level : {0, 1}]]
    BY <2>1 DEF IInv, TypeOK
  <2>3. pc' \in [Hostthread -> {"run", "call", "back"}] /\ requested' \in Nat
    BY <1>2, <2>1 DEF IInv, TypeOK
  <2>4. TypeOK'
    BY <1>0, <2>1, <2>2, <2>3 DEF IInv, TypeOK
  <2>. QED
    BY <1>0, <2>1, <2>4 DEF IInv, NoTospaceOverflow, RoomForOneAgegroup0, PhaseOK,
       TrimKeepsRequest, sib_freespace_in_bytes
<1>. QED  BY <1>3, <1>4

\* Back from the heapcleaner the chunk is laid down, or the call repeated.
LEMMA FinishStep ==
    ASSUME IInv, NEW h \in Hostthread, finish_large_chunk(h)
    PROVE  IInv'
<1>0. /\ size' = size /\ seniors' = seniors /\ agegroup0' = agegroup0
      /\ cleaner' = cleaner /\ level' = level /\ trimmed' = trimmed /\ overrun' = overrun
      /\ cleaner = "off"
  BY DEF finish_large_chunk, phase
<1>1. ask[h].bytesize \in Bytesize \cup {0} /\ ask[h].bytesize \in Nat /\ ask[h].level \in {0, 1}
  <2>1. ask[h] \in [kind : Kind \cup {"none"}, bytesize : Bytesize \cup {0}, level : {0, 1}]
    BY DEF IInv, TypeOK
  <2>2. ask[h].bytesize \in Bytesize \cup {0} /\ ask[h].level \in {0, 1}
    BY <2>1
  <2>3. \A x \in Bytesize \cup {0} : x \in Nat
    BY ConstantsAssumption
  <2>. QED  BY <2>2, <2>3
<1>2. pc' \in [Hostthread -> {"run", "call", "back"}]
  BY DEF IInv, TypeOK, finish_large_chunk
<1>3. CASE sufficient(ask[h].bytesize)
  <2>1. /\ allocate_in_agegroup1(ask[h].bytesize) /\ requested' = 0
        /\ ask' = [ask EXCEPT ![h] = NoChunk]
    BY <1>3 DEF finish_large_chunk
  <2>2. /\ used' \in [Age -> Nat]
        /\ \A a \in Age : used'[a] >= used[a] /\ used'[a] <= size'[a]
        /\ size'[1] - used'[1] >= LIMIT
    BY <1>0, <1>1, <1>3, <2>1, LargeChunkFits
  <2>3. ask' \in [Hostthread -> [kind : Kind \cup {"none"}, bytesize : Bytesize \cup {0}, level : {0, 1}]]
    BY <2>1 DEF IInv, TypeOK, NoChunk
  <2>4. TypeOK'
    BY <1>0, <1>2, <2>1, <2>2, <2>3 DEF IInv, TypeOK
  <2>. QED
    BY <1>0, <2>2, <2>4 DEF IInv, NoTospaceOverflow, RoomForOneAgegroup0, PhaseOK,
       TrimKeepsRequest, sib_freespace_in_bytes
<1>4. CASE ~sufficient(ask[h].bytesize)
  <2>1. /\ used' = used /\ requested' = ask[h].bytesize
        /\ ask' = [ask EXCEPT ![h] = [kind |-> @.kind, bytesize |-> @.bytesize,
                                      level |-> level_of_next_round(h)]]
    BY <1>4 DEF finish_large_chunk
  <2>2. level_of_next_round(h) \in {0, 1}
    BY <1>1 DEF level_of_next_round
  <2>3. ask' \in [Hostthread -> [kind : Kind \cup {"none"}, bytesize : Bytesize \cup {0}, level : {0, 1}]]
    BY <2>1, <2>2 DEF IInv, TypeOK
  <2>4. TypeOK'
    BY <1>0, <1>1, <1>2, <2>1, <2>3 DEF IInv, TypeOK
  <2>. QED
    BY <1>0, <2>1, <2>4 DEF IInv, NoTospaceOverflow, RoomForOneAgegroup0, PhaseOK,
       TrimKeepsRequest, sib_freespace_in_bytes
<1>. QED  BY <1>3, <1>4

\* The cleaning of agegroup 0, when it fits, goes on to agegroup 1 unless
\* there is room for the next one.
LEMMA CallStep ==
    ASSUME IInv, NEW h \in Hostthread, call_heapcleaner(h)
    PROVE  IInv'
<1>0. /\ size' = size /\ seniors' = seniors /\ requested' = requested /\ ask' = ask
      /\ trimmed' = trimmed /\ overrun' = overrun
  BY DEF call_heapcleaner
<1>1. /\ agegroup0' \in [Hostthread -> 0 .. heap_allocation_buffer_bytesize]
      /\ pc' \in [Hostthread -> {"run", "call", "back"}]
  BY Agegroup0Sizes DEF IInv, TypeOK, call_heapcleaner, all_return
<1>2. PICK lvl \in (IF pc[h] = "call" THEN {ask[h].level}
                    ELSE IF pc[h] = "run" THEN {0, 1} ELSE {}),
           live \in 0 .. agegroup0_bytes_in_use :
        LET free == sib_freespace_in_bytes(1) - live
            goes_on == lvl > 0 \/ must_clean_agegroup1(free)
        IN  /\ free >= 0
            /\ live > 0 => used[1] + live <= MAX_USED[1]
            /\ used' = [used EXCEPT ![1] = @ + live]
            /\ level' = IF goes_on THEN 1 ELSE 0
            /\ cleaner' = IF goes_on THEN "agegroups" ELSE "off"
  BY DEF call_heapcleaner
<1>3. live \in Int /\ live >= 0
  OBVIOUS
<1>4. /\ used' \in [Age -> Nat]
      /\ \A a \in Age : used'[a] >= used[a] /\ used'[a] <= size[a]
      /\ size[1] - used'[1] = sib_freespace_in_bytes(1) - live
  BY <1>2, <1>3, AgesExist DEF IInv, TypeOK, NoTospaceOverflow, sib_freespace_in_bytes
<1>5. /\ level' \in 0 .. ACTIVE_AGEGROUPS /\ cleaner' \in {"off", "agegroups"}
      /\ cleaner' = "agegroups" => level' = 1
  BY <1>2, ConstantsAssumption
<1>6. cleaner' = "off" => size[1] - used'[1] >= LIMIT
  <2>. DEFINE free == sib_freespace_in_bytes(1) - live
  <2>1. free \in Int /\ size[1] - used'[1] = free
    BY <1>3, <1>4, AgesExist DEF IInv, TypeOK, sib_freespace_in_bytes
  <2>2. cleaner' = "off" => ~must_clean_agegroup1(free)
    BY <1>2
  <2>. HIDE DEF free
  <2>. QED  BY <2>1, <2>2, ConstantsAssumption DEF must_clean_agegroup1
<1>7. TypeOK'
  BY <1>0, <1>1, <1>4, <1>5 DEF IInv, TypeOK
<1>8. NoTospaceOverflow'
  BY <1>0, <1>4 DEF NoTospaceOverflow
<1>9. RoomForOneAgegroup0' /\ PhaseOK' /\ TrimKeepsRequest'
  BY <1>0, <1>5, <1>6 DEF RoomForOneAgegroup0, PhaseOK, TrimKeepsRequest, sib_freespace_in_bytes
<1>. QED  BY <1>7, <1>8, <1>9 DEF IInv

\* An overrun is only recorded.
LEMMA OverrunStep ==
    ASSUME IInv, NEW h \in Hostthread, heapclean_agegroup0_overruns(h)
    PROVE  IInv'
<1>1. overrun' \in Nat
  BY AgesExist DEF IInv, TypeOK, heapclean_agegroup0_overruns, sib_freespace_in_bytes
<1>. QED
  BY <1>1 DEF IInv, TypeOK, NoTospaceOverflow, RoomForOneAgegroup0, PhaseOK, TrimKeepsRequest,
     heapclean_agegroup0_overruns, sibs, tasks, phase, sib_freespace_in_bytes


\* The new to-spaces hold what survives, and the next agegroup what is
\* promoted into it.
LEMMA CleanStep ==
    ASSUME IInv, heapclean_n_agegroups
    PROVE  IInv'
<1>0. /\ requested' = requested /\ agegroup0' = agegroup0 /\ pc' = pc /\ ask' = ask
      /\ overrun' = overrun /\ cleaner' = "trim" /\ trimmed' = 0 /\ level = 1
  BY DEF heapclean_n_agegroups, tasks, IInv, PhaseOK
<1>1. PICK k \in {i \in level .. ACTIVE_AGEGROUPS : may_stop_after(i)} :
        /\ \E n \in [Age -> 1 .. MAX_CLEANINGS], scarce \in SUBSET (1 .. k) :
               size' = [a \in Age |-> IF a <= k THEN tospace_bytesize(a, n[a], a \in scarce)
                                      ELSE size[a]]
        /\ \E survivors \in [1 .. k -> 0 .. MAX_USED[1]], promoted \in 0 .. seniors[k] :
               /\ \A a \in 1 .. k : /\ survivors[a] <= MAX_USED[a]
                                    /\ survivors[a] <= incoming(a)
               /\ k < ACTIVE_AGEGROUPS => used[k + 1] + promoted <= MAX_USED[k + 1]
               /\ used' = [a \in Age |-> IF a <= k THEN survivors[a]
                                          ELSE IF a = k + 1 THEN used[a] + promoted ELSE used[a]]
               /\ seniors' = seniors_after(k, survivors)
        /\ level' = k
  BY DEF heapclean_n_agegroups
<1>2. PICK n \in [Age -> 1 .. MAX_CLEANINGS], scarce \in SUBSET (1 .. k) :
        size' = [a \in Age |-> IF a <= k THEN tospace_bytesize(a, n[a], a \in scarce) ELSE size[a]]
  BY <1>1
<1>3. PICK survivors \in [1 .. k -> 0 .. MAX_USED[1]], promoted \in 0 .. seniors[k] :
        /\ \A a \in 1 .. k : survivors[a] <= incoming(a)
        /\ used' = [a \in Age |-> IF a <= k THEN survivors[a]
                                   ELSE IF a = k + 1 THEN used[a] + promoted ELSE used[a]]
        /\ seniors' = seniors_after(k, survivors)
  BY <1>1
<1>4. k \in Age /\ k \in Nat /\ may_stop_after(k)
  BY <1>0, <1>1, ConstantsAssumption DEF Age
<1>5. seniors[k] \in Nat /\ promoted \in Nat /\ promoted <= seniors[k]
  BY <1>4 DEF IInv, TypeOK
<1>6. \A a \in 1 .. k : survivors[a] \in Nat
  BY AgesExist, ConstantsAssumption
<1>7. \A a \in Age : a <= k =>
        /\ size'[a] \in Nat
        /\ used'[a] \in Nat
        /\ used'[a] <= size'[a]
        /\ a = 1 => size'[1] >= used'[1] + requested + heap_allocation_buffer_bytesize
  <2>. SUFFICES ASSUME NEW a \in Age, a <= k
                PROVE  /\ size'[a] \in Nat
                       /\ used'[a] \in Nat
                       /\ used'[a] <= size'[a]
                       /\ a = 1 => size'[1] >= used'[1] + requested + heap_allocation_buffer_bytesize
    OBVIOUS
  <2>. DEFINE t == tospace_bytesize(a, n[a], a \in scarce)
  <2>1. size'[a] = t /\ used'[a] = survivors[a]
    BY <1>2, <1>3
  <2>2. a \in 1 .. k
    BY <1>4 DEF Age
  <2>3. n[a] \in 1 .. MAX_CLEANINGS /\ (a \in scarce) \in BOOLEAN
    OBVIOUS
  <2>4. /\ t \in Nat
        /\ t >= incoming(a)
        /\ a = 1 => t >= incoming(a) + requested + heap_allocation_buffer_bytesize
    BY <2>3, TospaceIsEnough DEF IInv
  <2>5. incoming(a) \in Nat /\ survivors[a] \in Nat /\ survivors[a] <= incoming(a)
    BY <1>3, <1>6, <2>2, MinBytes DEF IInv
  <2>6. requested \in Nat /\ heap_allocation_buffer_bytesize \in Nat
    BY Agegroup0Sizes DEF IInv, TypeOK
  <2>. HIDE DEF t
  <2>7. size'[a] \in Nat /\ used'[a] \in Nat /\ used'[a] <= size'[a]
    BY <2>1, <2>4, <2>5
  <2>8. ASSUME a = 1
        PROVE  size'[1] >= used'[1] + requested + heap_allocation_buffer_bytesize
    <3>1. /\ size'[1] = t /\ used'[1] = survivors[a]
          /\ t >= incoming(a) + requested + heap_allocation_buffer_bytesize
      BY <2>1, <2>4, <2>8
    <3>. QED  BY <2>4, <2>5, <2>6, <3>1
  <2>. QED  BY <2>7, <2>8
<1>8. \A a \in Age : a > k =>
        /\ size'[a] \in Nat
        /\ used'[a] \in Nat
        /\ used'[a] >= used[a]
        /\ used'[a] <= size'[a]
  <2>. SUFFICES ASSUME NEW a \in Age, a > k
                PROVE  /\ size'[a] \in Nat /\ used'[a] \in Nat
                       /\ used'[a] >= used[a] /\ used'[a] <= size'[a]
    OBVIOUS
  <2>0. a \in Nat /\ ~(a <= k) /\ size[a] \in Nat /\ used[a] \in Nat /\ used[a] <= size[a]
    <3>1. a \in Nat
      BY ConstantsAssumption DEF Age
    <3>2. ~(a <= k)
      BY <1>4, <3>1
    <3>. QED  BY <3>1, <3>2 DEF IInv, TypeOK, NoTospaceOverflow
  <2>1. size'[a] = size[a]
    BY <1>2, <2>0
  <2>2. CASE a = k + 1
    <3>1. used'[a] = used[a] + promoted
      BY <1>3, <2>0, <2>2
    <3>2. k < ACTIVE_AGEGROUPS
      BY <1>4, <2>0, <2>2, ConstantsAssumption DEF Age
    <3>3. size[a] - used[a] >= seniors[k]
      BY <1>4, <2>2, <3>2 DEF may_stop_after, sib_freespace_in_bytes
    <3>. QED  BY <1>5, <2>0, <2>1, <3>1, <3>3, SMTT(30)
  <2>3. CASE a # k + 1
    BY <1>3, <2>0, <2>1, <2>3
  <2>. QED  BY <2>2, <2>3
<1>9. \A a \in Age : a <= k \/ a > k
  BY <1>4, ConstantsAssumption DEF Age
<1>10. size' \in [Age -> Nat] /\ used' \in [Age -> Nat] /\ NoTospaceOverflow'
  <2>1. \A a \in Age : size'[a] \in Nat /\ used'[a] \in Nat /\ used'[a] <= size'[a]
    BY <1>7, <1>8, <1>9
  <2>2. size' = [a \in Age |-> size'[a]] /\ used' = [a \in Age |-> used'[a]]
    BY <1>2, <1>3
  <2>. QED  BY <2>1, <2>2 DEF NoTospaceOverflow
<1>11. /\ seniors' \in [Age -> Nat]
       /\ \A a \in Age : seniors'[a] <= used'[a]
       /\ seniors'[ACTIVE_AGEGROUPS] = 0
  <2>1. seniors' = [a \in Age |-> IF a > k THEN seniors[a]
                                  ELSE IF a = ACTIVE_AGEGROUPS THEN 0 ELSE survivors[a]]
    BY <1>3 DEF seniors_after
  <2>2. \A a \in Age : seniors'[a] \in Nat /\ seniors'[a] <= used'[a]
    <3>. SUFFICES ASSUME NEW a \in Age PROVE seniors'[a] \in Nat /\ seniors'[a] <= used'[a]
      OBVIOUS
    <3>1. CASE a > k
      BY <1>8, <2>1, <3>1, SMTT(30) DEF IInv, TypeOK
    <3>2. CASE a <= k
      <4>1. used'[a] = survivors[a] /\ ~(a > k)
        BY <1>3, <1>4, <3>2, ConstantsAssumption DEF Age
      <4>2. used'[a] \in Nat
        BY <1>7, <3>2
      <4>. QED  BY <2>1, <4>1, <4>2
    <3>. QED  BY <1>9, <3>1, <3>2
  <2>3. seniors'[ACTIVE_AGEGROUPS] = 0
    BY <1>4, <2>1, AgesExist DEF IInv, TypeOK
  <2>. QED  BY <2>1, <2>2, <2>3
<1>12. TypeOK'
  <2>1. level' \in 0 .. ACTIVE_AGEGROUPS /\ trimmed' \in 0 .. ACTIVE_AGEGROUPS
    BY <1>0, <1>1, <1>4, ConstantsAssumption DEF Age
  <2>. QED  BY <1>0, <1>10, <1>11, <2>1 DEF IInv, TypeOK
<1>13. TrimKeepsRequest'
  BY <1>0, <1>4, <1>7, AgesExist, ConstantsAssumption DEF TrimKeepsRequest, Age
<1>14. RoomForOneAgegroup0' /\ PhaseOK'
  BY <1>0, <1>1, <1>4, ConstantsAssumption DEF RoomForOneAgegroup0, PhaseOK, Age
<1>. QED  BY <1>10, <1>12, <1>13, <1>14 DEF IInv

\* trim_heap's new size of a sib still holds what is in it, and for agegroup 1
\* the request and an agegroup0 buffer.
LEMMA TrimmedIsEnough ==
    ASSUME IInv, cleaner = "trim", NEW a \in Age
    PROVE  /\ new_bytesize(a) \in Nat
           /\ new_bytesize(a) >= used[a]
           /\ a = 1 => new_bytesize(a) >= used[1] + requested + heap_allocation_buffer_bytesize
<1>. DEFINE least == min_bytesize(a)
<1>1. /\ least \in Nat /\ least >= used[a]
      /\ a = 1 => least = used[1] + requested + heap_allocation_buffer_bytesize
  <2>1. CASE a = 1
    BY <2>1, AgesExist, Agegroup0Sizes DEF IInv, TypeOK, min_bytesize, requested_extra_free_bytes
  <2>2. CASE a # 1
    <3>1. a - 1 \in Age
      BY <2>2, ConstantsAssumption DEF Age
    <3>. QED  BY <2>2, <3>1 DEF IInv, TypeOK, min_bytesize, requested_extra_free_bytes
  <2>. QED  BY <2>1, <2>2
<1>2. BOOKROUNDED_BYTESIZE(least) \in Nat /\ BOOKROUNDED_BYTESIZE(least) >= least
  BY <1>1, BookRounding
<1>3. new_bytesize(a) = IF least < soft_max_bytesize[a] THEN soft_max_bytesize[a]
                        ELSE IF BOOKROUNDED_BYTESIZE(least) > size[a] THEN size[a]
                             ELSE BOOKROUNDED_BYTESIZE(least)
  BY DEF new_bytesize
<1>4. soft_max_bytesize[a] \in Nat /\ size[a] \in Nat /\ used[a] \in Nat /\ used[a] <= size[a]
  BY ConstantsAssumption DEF IInv, TypeOK, NoTospaceOverflow
<1>5. a = 1 => size[a] >= used[1] + requested + heap_allocation_buffer_bytesize
  BY DEF IInv, TrimKeepsRequest
<1>6. requested \in Nat /\ heap_allocation_buffer_bytesize \in Nat
  BY Agegroup0Sizes DEF IInv, TypeOK
<1>. HIDE DEF least
<1>. QED  BY <1>1, <1>2, <1>3, <1>4, <1>5, <1>6

\* One turn of trim_heap's loop.
LEMMA TrimStep ==
    ASSUME IInv, trim_heap
    PROVE  /\ IInv'
           /\ size'[1] >= used'[1] + requested' + heap_allocation_buffer_bytesize
<1>. DEFINE a == trimmed + 1
<1>0. /\ used' = used /\ seniors' = seniors /\ requested' = requested /\ agegroup0' = agegroup0
      /\ pc' = pc /\ ask' = ask /\ overrun' = overrun /\ cleaner = "trim"
      /\ level \in Age /\ trimmed \in Nat /\ trimmed < level
      /\ size' = (IF size[a] > soft_max_bytesize[a]
                  THEN [size EXCEPT ![a] = new_bytesize(a)] ELSE size)
      /\ \/ a = level /\ cleaner' = "off" /\ level' = 0 /\ trimmed' = 0
         \/ a # level /\ trimmed' = a /\ cleaner' = cleaner /\ level' = level
  BY DEF trim_heap, tasks, IInv, PhaseOK
<1>1. a \in Age /\ a <= level /\ level <= ACTIVE_AGEGROUPS
  BY <1>0, ConstantsAssumption DEF Age
<1>. HIDE DEF a
<1>2. /\ size' \in [Age -> Nat]
      /\ \A i \in Age : used'[i] <= size'[i]
      /\ size'[1] >= used'[1] + requested' + heap_allocation_buffer_bytesize
  <2>1. size[1] >= used[1] + requested + heap_allocation_buffer_bytesize
    BY <1>0 DEF IInv, TrimKeepsRequest
  <2>2. CASE size[a] > soft_max_bytesize[a]
    <3>1. size' = [size EXCEPT ![a] = new_bytesize(a)]
      BY <1>0, <2>2
    <3>. QED
      BY <1>0, <1>1, <2>1, <3>1, TrimmedIsEnough, AgesExist DEF IInv, TypeOK, NoTospaceOverflow
  <2>3. CASE ~(size[a] > soft_max_bytesize[a])
    BY <1>0, <2>1, <2>3 DEF IInv, TypeOK, NoTospaceOverflow
  <2>. QED  BY <2>2, <2>3
<1>3. level' \in 0 .. ACTIVE_AGEGROUPS /\ trimmed' \in 0 .. ACTIVE_AGEGROUPS
  BY <1>0, <1>1, ConstantsAssumption DEF Age
<1>4. cleaner' \in {"off", "trim"}
  BY <1>0
<1>5. TypeOK'
  BY <1>0, <1>2, <1>3, <1>4 DEF IInv, TypeOK
<1>6. NoTospaceOverflow' /\ TrimKeepsRequest'
  BY <1>2 DEF NoTospaceOverflow, TrimKeepsRequest
<1>7. PhaseOK'
  BY <1>0, <1>1, <1>4, ConstantsAssumption DEF PhaseOK, Age
<1>8. RoomForOneAgegroup0'
  <2>1. size'[1] \in Nat /\ used'[1] \in Nat /\ requested' \in Nat
    BY <1>5, AgesExist DEF TypeOK
  <2>2. size'[1] - used'[1] >= LIMIT
    BY <1>2, <2>1, Agegroup0Sizes, ConstantsAssumption
  <2>. QED  BY <2>2 DEF RoomForOneAgegroup0, sib_freespace_in_bytes
<1>. QED  BY <1>2, <1>5, <1>6, <1>7, <1>8 DEF IInv

LEMMA StutterStep ==
    ASSUME IInv, UNCHANGED vars PROVE IInv'
  BY DEF IInv, TypeOK, NoTospaceOverflow, RoomForOneAgegroup0, PhaseOK, TrimKeepsRequest,
     vars, sibs, tasks, phase, sib_freespace_in_bytes

\* The invariant holds in every reachable state.
THEOREM SpaceInvariant == Spec => []IInv
<1>1. IInv /\ [Next]_vars => IInv'
  <2>. SUFFICES ASSUME IInv, [Next]_vars PROVE IInv'
    OBVIOUS
  <2>1. ASSUME NEW h \in Hostthread,
               \/ commit_nascent_heapchunk(h) \/ begin_large_chunk(h) \/ finish_large_chunk(h)
               \/ call_heapcleaner(h) \/ heapclean_agegroup0_overruns(h)
        PROVE  IInv'
    BY <2>1, CommitStep, BeginStep, FinishStep, CallStep, OverrunStep
  <2>. QED
    BY <2>1, CleanStep, TrimStep, StutterStep DEF Next
<1>. QED  BY <1>1, InitIInv, PTL DEF Spec

-----------------------------------------------------------------------------
(* The results.                                                            *)

\* Type correctness; in particular the senior chunks are part of the used
\* space and the oldest agegroup has none.
THEOREM TypeCorrect == Spec => []TypeOK
<1>1. IInv => TypeOK
  BY DEF IInv
<1>. QED  BY <1>1, SpaceInvariant, PTL

\* For any number of agegroups and any sizes: the to-spaces that
\* establish_all_required_empty_tospace_sib_buffers computes are never
\* overflowed by heapclean_n_agegroups, and trim_heap cuts off no chunk.
THEOREM CleaningsStayInTheirBuffers == Spec => []NoTospaceOverflow
<1>1. IInv => NoTospaceOverflow
  BY DEF IInv
<1>. QED  BY <1>1, SpaceInvariant, PTL

\* For any number of hostthreads: whenever user code runs, agegroup 1 has room
\* for one agegroup0 buffer filled to its allocation limit.
THEOREM RoomForOneIsKept == Spec => []RoomForOneAgegroup0
<1>1. IInv => RoomForOneAgegroup0
  BY DEF IInv
<1>. QED  BY <1>1, SpaceInvariant, PTL

\* Every heapcleaning of agegroup 1 returns with the requested space free, and
\* a full agegroup0 buffer besides.
THEOREM RequestsAreGranted == Spec => RequestIsGranted
<1>. DEFINE granted == cleaner = "trim" /\ cleaner' = "off"
                         => sib_freespace_in_bytes(1)' >= requested + heap_allocation_buffer_bytesize
<1>1. IInv /\ [Next]_vars => [granted]_vars
  <2>. SUFFICES ASSUME IInv, Next, cleaner = "trim", cleaner' = "off"
                PROVE  sib_freespace_in_bytes(1)' >= requested + heap_allocation_buffer_bytesize
    OBVIOUS
  <2>1. trim_heap
    BY DEF Next, commit_nascent_heapchunk, begin_large_chunk, finish_large_chunk, call_heapcleaner,
       heapclean_agegroup0_overruns, heapclean_n_agegroups, Running
  <2>2. /\ IInv' /\ requested' = requested
        /\ size'[1] >= used'[1] + requested' + heap_allocation_buffer_bytesize
    BY <2>1, TrimStep DEF trim_heap, tasks
  <2>3. size'[1] \in Nat /\ used'[1] \in Nat /\ requested' \in Nat
    BY <2>2, AgesExist DEF IInv, TypeOK
  <2>. QED  BY <2>2, <2>3, Agegroup0Sizes DEF sib_freespace_in_bytes
<1>. QED  BY <1>1, SpaceInvariant, PTL DEF Spec, RequestIsGranted

=============================================================================
