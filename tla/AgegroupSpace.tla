---------------------------- MODULE AgegroupSpace ----------------------------
(***************************************************************************)
(* The sizes of the heap's buffers: how much free space the heapcleaner    *)
(* makes sure of before it copies (call-heapcleaner.c, the functions       *)
(* establish_all_required_empty_tospace_sib_buffers and trim_heap of       *)
(* heapclean-n-agegroups.c), and how the allocators of large vectors wait  *)
(* for space in agegroup 1 (make-strings-and-vectors-etc.c).               *)
(*                                                                         *)
(* The cleaner copies without looking for the end of the buffer, so the    *)
(* sizes computed beforehand are all that keeps a copy inside it.          *)
(*                                                                         *)
(* Abstraction.  One sib is followed through the agegroups, in units of    *)
(* some bytes; what its sisters need is a free choice of how many          *)
(* agegroups are cleaned.  Which chunks survive is a free choice too.  The *)
(* rendezvous of the hostthreads is the subject of HeapcleanerRendezvous:  *)
(* here a heapcleaning begins when its primary hostthread begins to copy.  *)
(***************************************************************************)
EXTENDS Integers, FiniteSetsExt

CONSTANTS
    Hostthread,             \* the hostthreads that run Mythryl code
    MAX_HOSTTHREADS,        \* partitions of the agegroup0 master buffer
    ACTIVE_AGEGROUPS,       \* heap->active_agegroups
    LIMIT,                  \* real_heap_allocation_limit - heap_allocation_buffer
    MIN_FREE,               \* MIN_FREE_BYTES_IN_AGEGROUP0_BUFFER: room past the limit
    BOOK,                   \* BOOK_BYTESIZE
    soft_max_bytesize,      \* of the sib, in each agegroup
    RATIO,                  \* target_heapcleaning_frequency_ratio
    Kind,                   \* the kinds of large chunk made: "raw", "rw", "ro"
    Bytesize,               \* their sizes
    MAX_CLEANINGS,          \* bound: cleanings of a younger agegroup between two of an older
    MAX_USED                \* bound: what is live in the sib, per agegroup

Age == 1 .. ACTIVE_AGEGROUPS
heap_allocation_buffer_bytesize == LIMIT + MIN_FREE
agegroup0_master_buffer_bytesize == MAX_HOSTTHREADS * heap_allocation_buffer_bytesize

ASSUME ConstantsAssumption ==
    /\ IsFiniteSet(Hostthread)
    /\ MAX_HOSTTHREADS \in Nat \ {0}
    /\ ACTIVE_AGEGROUPS \in Nat \ {0}
    /\ LIMIT \in Nat \ {0}
    /\ MIN_FREE \in Nat
    /\ BOOK \in Nat \ {0}
    /\ soft_max_bytesize \in [Age -> Nat]
    /\ RATIO \in Nat
    /\ Kind \subseteq {"raw", "rw", "ro"}
    /\ Bytesize \subseteq Nat \ {0}
    /\ MAX_CLEANINGS \in Nat \ {0}
    /\ MAX_USED \in [Age -> Nat]

VARIABLES
    size,       \* tospace.limit - tospace.start, per agegroup; 0: inactive
    used,       \* tospace.first_free - tospace.start
    seniors,    \* fromspace.seniorchunks_end - tospace.start
    requested,  \* requested_extra_free_bytes of the sib in agegroup 1
    agegroup0,  \* bytes used in the agegroup0 buffer of each hostthread
    pc,         \* "run", "call" (call_heapcleaner entered) or "back" from it
    ask,        \* the large chunk each hostthread is making, and its clean level
    cleaner,    \* "off", "agegroups" (agegroup0 done) or "trim"
    level,      \* agegroups to clean; in "trim", agegroups cleaned
    trimmed,    \* agegroups trim_heap has looked at
    overrun     \* bytes written past the end of agegroup 1's sib

sibs == <<size, used, seniors>>
tasks == <<requested, agegroup0, pc, ask>>
phase == <<cleaner, level, trimmed>>
vars == <<sibs, tasks, phase, overrun>>

NoChunk == [kind |-> "none", bytesize |-> 0, level |-> 0]

sib_freespace_in_bytes(a) == size[a] - used[a]

\* ROUND_UP_TO_POWER_OF_TWO: the next multiple of BOOK.
BOOKROUNDED_BYTESIZE(b) == b + ((-b) % BOOK)

\* set_up_heap of a booting runtime.
Init ==
    /\ size = [a \in Age |-> IF a = 1 THEN BOOKROUNDED_BYTESIZE(2 * heap_allocation_buffer_bytesize)
                                      ELSE 0]
    /\ used = [a \in Age |-> 0]
    /\ seniors = [a \in Age |-> 0]
    /\ requested = 0
    /\ agegroup0 = [h \in Hostthread |-> 0]
    /\ pc = [h \in Hostthread |-> "run"]
    /\ ask = [h \in Hostthread |-> NoChunk]
    /\ cleaner = "off" /\ level = 0 /\ trimmed = 0
    /\ overrun = 0

Running(h) == cleaner = "off" /\ overrun = 0 /\ pc[h] = "run"

-----------------------------------------------------------------------------
(* Allocation.                                                             *)

\* Compiled code and the C runtime probe heap_allocation_limit and then
\* allocate up to MIN_FREE bytes without looking again.
commit_nascent_heapchunk(h) ==
    /\ Running(h)
    /\ agegroup0[h] <= LIMIT
    /\ \E bytes \in 1 .. MIN_FREE :
           agegroup0' = [agegroup0 EXCEPT ![h] = @ + bytes]
    /\ UNCHANGED <<sibs, requested, pc, ask, phase, overrun>>

\* WHILE_INSUFFICIENT_FREESPACE_IN_SIB and the tests of the vector makers.
sufficient(bytesize) ==
    sib_freespace_in_bytes(1) > bytesize + heap_allocation_buffer_bytesize

allocate_in_agegroup1(bytesize) ==
    used' = [used EXCEPT ![1] = @ + bytesize]

\* A chunk too large for agegroup 0: the allocators of raw data call the
\* heapcleaner when space is short.  The maker of rw_vectors calls it also
\* for a vector of pointers, the maker of read-only vectors always: both
\* empty agegroup 0 so that no pointer from agegroup 1 leads there.
begin_large_chunk(h) ==
    /\ Running(h)
    /\ \E k \in Kind, bytesize \in Bytesize, has_pointers \in BOOLEAN :
           IF sufficient(bytesize) /\ (k = "raw" \/ (k = "rw" /\ ~has_pointers))
           THEN /\ used[1] + bytesize <= MAX_USED[1]
                /\ allocate_in_agegroup1(bytesize)
                /\ UNCHANGED <<requested, pc, ask>>
           ELSE /\ ask' = [ask EXCEPT ![h] = [kind |-> k, bytesize |-> bytesize,
                                              level |-> IF sufficient(bytesize) THEN 0 ELSE 1]]
                /\ requested' = requested + bytesize
                /\ pc' = [pc EXCEPT ![h] = "call"]
                /\ UNCHANGED used
    /\ UNCHANGED <<size, seniors, agegroup0, phase, overrun>>

\* The clean level of another round: make_nonempty_ro_vector jumps back to
\* clean_check with the level it began with, the others ask for level 1.
level_of_next_round(h) == IF ask[h].kind = "ro" THEN ask[h].level ELSE 1

\* Back from the heapcleaner, under pth__mutex: the request is withdrawn, and
\* if there is space now the chunk is laid down, else there is another round.
finish_large_chunk(h) ==
    /\ cleaner = "off" /\ overrun = 0
    /\ pc[h] = "back"
    /\ IF sufficient(ask[h].bytesize)
       THEN /\ allocate_in_agegroup1(ask[h].bytesize)
            /\ requested' = 0
            /\ pc' = [pc EXCEPT ![h] = "run"]
            /\ ask' = [ask EXCEPT ![h] = NoChunk]
       ELSE /\ requested' = ask[h].bytesize
            /\ pc' = [pc EXCEPT ![h] = "call"]
            /\ ask' = [ask EXCEPT ![h] = [kind |-> @.kind, bytesize |-> @.bytesize,
                                          level |-> level_of_next_round(h)]]
            /\ UNCHANGED used
    /\ UNCHANGED <<size, seniors, agegroup0, phase, overrun>>

-----------------------------------------------------------------------------
(* Heapcleaning.                                                           *)

agegroup0_bytes_in_use == MapThenSumSet(LAMBDA h : agegroup0[h], Hostthread)

\* Whoever waits in call_heapcleaner comes back from the same heapcleaning.
all_return == pc' = [h \in Hostthread |-> IF pc[h] = "call" THEN "back" ELSE pc[h]]

M_must_clean_agegroup1(free) == free < LIMIT - 1

\* The test after heapclean_agegroup0: agegroup0_buffer_size_in_bytes is
\* that of the task that happens to be the primary.
must_clean_agegroup1(free) == free < LIMIT

\* call_heapcleaner by the primary hostthread h: heapclean_agegroup0 copies
\* what is live in every hostthread's buffer, then the free space of
\* agegroup 1 decides whether to go on.  User code calls with level 0 (the
\* heap limit, a software generated periodic event), the exit of a hostthread
\* with level 1.
call_heapcleaner(h) ==
    /\ cleaner = "off" /\ overrun = 0
    /\ \E lvl \in (IF pc[h] = "call" THEN {ask[h].level}
                   ELSE IF pc[h] = "run" THEN {0, 1} ELSE {}),
          live \in 0 .. agegroup0_bytes_in_use :
           LET free == sib_freespace_in_bytes(1) - live
               goes_on == lvl > 0 \/ must_clean_agegroup1(free)
           IN  /\ free >= 0
               /\ live > 0 => used[1] + live <= MAX_USED[1]
               /\ used' = [used EXCEPT ![1] = @ + live]
               /\ level' = IF goes_on THEN 1 ELSE 0
               /\ cleaner' = IF goes_on THEN "agegroups" ELSE "off"
    /\ agegroup0' = [i \in Hostthread |-> 0]
    /\ all_return
    /\ UNCHANGED <<size, seniors, requested, ask, trimmed, overrun>>

\* What is live in agegroup 0 does not fit: the copy runs past the end of
\* the sib into the next sib of the quire, or past the quire.
heapclean_agegroup0_overruns(h) ==
    /\ cleaner = "off" /\ overrun = 0
    /\ pc[h] \in {"run", "call"}
    /\ \E live \in 0 .. agegroup0_bytes_in_use :
           /\ live > sib_freespace_in_bytes(1)
           /\ overrun' = live - sib_freespace_in_bytes(1)
    /\ UNCHANGED <<sibs, tasks, phase>>

\* bytes_of_seniorchunks_in_next_younger_agegroup, as agegroup a is reached.
bytes_of_seniorchunks_in_next_younger_agegroup(a) ==
    IF a = 1 THEN agegroup0_master_buffer_bytesize ELSE seniors[a - 1]

bytes_of_juniorchunks_in_sib(a) == used[a] - seniors[a]

requested_extra_free_bytes(a) == IF a = 1 THEN requested ELSE 0

M_min_bytes_for_sib(a) ==
    requested_extra_free_bytes(a) + bytes_of_juniorchunks_in_sib(a)
      + (IF a = 1 THEN agegroup0_master_buffer_bytesize ELSE 0)

min_bytes_for_sib(a) ==
    requested_extra_free_bytes(a) + bytes_of_seniorchunks_in_next_younger_agegroup(a)
      + bytes_of_juniorchunks_in_sib(a)

\* n is younger_agegroup_heapcleanings_since_last_heapcleaning.  It is never
\* zero: an agegroup is cleaned only along with the next younger one, whose
\* count has just been increased.
preferred_bytesize_for_sib(a, n) ==
    LET least == min_bytes_for_sib(a)
        wish == requested_extra_free_bytes(a) + bytes_of_seniorchunks_in_next_younger_agegroup(a)
                  + (bytes_of_juniorchunks_in_sib(a) \div n) * RATIO
    IN  IF wish <= least THEN least
        ELSE IF wish > soft_max_bytesize[a]
             THEN IF soft_max_bytesize[a] > least THEN soft_max_bytesize[a] ELSE least
             ELSE wish

\* The size of the to-space of agegroup a.  An inactive sib that has nothing
\* to take in stays inactive.  When the operating system has not enough ram
\* the second try is for the minimum.
tospace_bytesize(a, n, scarce) ==
    IF size[a] = 0 /\ requested_extra_free_bytes(a) = 0
                   /\ bytes_of_seniorchunks_in_next_younger_agegroup(a) = 0
    THEN 0
    ELSE BOOKROUNDED_BYTESIZE(IF scarce THEN min_bytes_for_sib(a)
                              ELSE preferred_bytesize_for_sib(a, n))

\* Agegroups up to k may be the ones cleaned: k is the last one, or the next
\* one has room for all that k can promote.
may_stop_after(k) ==
    k < ACTIVE_AGEGROUPS => sib_freespace_in_bytes(k + 1) >= seniors[k]

\* What the to-space of a cleaned agegroup may have to hold.
incoming(a) == (IF a = 1 THEN 0 ELSE seniors[a - 1]) + bytes_of_juniorchunks_in_sib(a)

\* update_fromspace_seniorchunks_end_pointers: what lies in a cleaned agegroup
\* now is senior, but the oldest agegroup's chunks are junior forever.
seniors_after(k, u) ==
    [a \in Age |-> IF a > k THEN seniors[a]
                   ELSE IF a = ACTIVE_AGEGROUPS THEN 0 ELSE u[a]]

\* heapclean_n_agegroups up to trim_heap: to-spaces for the agegroups to
\* clean, then the live chunks are copied or promoted into them.
heapclean_n_agegroups ==
    /\ cleaner = "agegroups"
    /\ \E k \in {i \in level .. ACTIVE_AGEGROUPS : may_stop_after(i)} :
           /\ \E n \in [Age -> 1 .. MAX_CLEANINGS], scarce \in SUBSET (1 .. k) :
                  size' = [a \in Age |-> IF a <= k THEN tospace_bytesize(a, n[a], a \in scarce)
                                         ELSE size[a]]
           /\ \E survivors \in [1 .. k -> 0 .. MAX_USED[1]], promoted \in 0 .. seniors[k] :
                  /\ \A a \in 1 .. k : /\ survivors[a] <= MAX_USED[a]
                                       /\ survivors[a] <= incoming(a)
                  /\ k < ACTIVE_AGEGROUPS => used[k + 1] + promoted <= MAX_USED[k + 1]
                  /\ used' = [a \in Age |-> IF a <= k THEN survivors[a]
                                             ELSE IF a = k + 1 THEN used[a] + promoted ELSE used[a]]
                  /\ seniors' = seniors_after(k, survivors)
           /\ level' = k
    /\ cleaner' = "trim"
    /\ trimmed' = 0
    /\ UNCHANGED <<tasks, overrun>>

M_min_bytesize(a) ==
    (IF a = 1 THEN heap_allocation_buffer_bytesize ELSE size[a - 1]) + used[a]

\* The least size trim_heap leaves agegroup a.
min_bytesize(a) ==
    (IF a = 1 THEN heap_allocation_buffer_bytesize ELSE size[a - 1])
      + used[a] + requested_extra_free_bytes(a)

new_bytesize(a) ==
    IF min_bytesize(a) < soft_max_bytesize[a] THEN soft_max_bytesize[a]
    ELSE IF BOOKROUNDED_BYTESIZE(min_bytesize(a)) > size[a] THEN size[a]
         ELSE BOOKROUNDED_BYTESIZE(min_bytesize(a))

\* One turn of trim_heap's loop, and after the last one the return to user
\* code through pth__finish_heapcleaning.
trim_heap ==
    /\ cleaner = "trim"
    /\ LET a == trimmed + 1
       IN  /\ size' = IF size[a] > soft_max_bytesize[a]
                      THEN [size EXCEPT ![a] = new_bytesize(a)] ELSE size
           /\ IF a = level
              THEN cleaner' = "off" /\ level' = 0 /\ trimmed' = 0
              ELSE trimmed' = a /\ UNCHANGED <<cleaner, level>>
    /\ UNCHANGED <<used, seniors, tasks, overrun>>

-----------------------------------------------------------------------------

Next ==
    \/ \E h \in Hostthread :
           \/ commit_nascent_heapchunk(h)
           \/ begin_large_chunk(h)
           \/ finish_large_chunk(h)
           \/ call_heapcleaner(h)
           \/ heapclean_agegroup0_overruns(h)
    \/ heapclean_n_agegroups
    \/ trim_heap

Spec == Init /\ [][Next]_vars

\* A heapcleaning that has begun ends, and a hostthread that calls or comes
\* back from the heapcleaner goes on: nothing in the code waits forever there.
FairSpec ==
    /\ Spec
    /\ WF_vars(heapclean_n_agegroups)
    /\ WF_vars(trim_heap)
    /\ \A h \in Hostthread : /\ WF_vars(finish_large_chunk(h))
                             /\ WF_vars(pc[h] = "call" /\ call_heapcleaner(h))

-----------------------------------------------------------------------------
(* Properties.                                                             *)

\* The variables have their types, the senior chunks are part of the used
\* space, and there are none in the oldest agegroup.
TypeOK ==
    /\ size \in [Age -> Nat]
    /\ used \in [Age -> Nat]
    /\ seniors \in [Age -> Nat]
    /\ \A a \in Age : seniors[a] <= used[a]
    /\ seniors[ACTIVE_AGEGROUPS] = 0
    /\ requested \in Nat
    /\ agegroup0 \in [Hostthread -> 0 .. heap_allocation_buffer_bytesize]
    /\ pc \in [Hostthread -> {"run", "call", "back"}]
    /\ ask \in [Hostthread -> [kind : Kind \cup {"none"}, bytesize : Bytesize \cup {0}, level : {0, 1}]]
    /\ cleaner \in {"off", "agegroups", "trim"}
    /\ level \in 0 .. ACTIVE_AGEGROUPS
    /\ trimmed \in 0 .. ACTIVE_AGEGROUPS
    /\ overrun \in Nat

\* "Make sure that every to-space sib buffer in every age group has
\* sufficient space to guarantee that the heapcleaning we are about to do
\* cannot possibly overflow any of them" (heapclean-n-agegroups.c:792): what
\* is promoted and copied fits, and trim_heap cuts off no chunk.
NoTospaceOverflow == \A a \in Age : used[a] <= size[a]

\* Whenever user code runs, agegroup 1 has room for one hostthread's agegroup
\* 0 up to its allocation limit: after cleaning, trimming, and the making of
\* large chunks there.
RoomForOneAgegroup0 == cleaner = "off" => sib_freespace_in_bytes(1) >= LIMIT

\* When a heapcleaning of agegroup 1 returns, the space requested for large
\* chunks is free, and a full agegroup0 buffer besides: no size computed on
\* the way, nor the trimming, forgets the request.
RequestIsGranted ==
    [][cleaner = "trim" /\ cleaner' = "off"
         => sib_freespace_in_bytes(1)' >= requested + heap_allocation_buffer_bytesize]_vars

\* "We require that each agegroup1 sib have more free space than the size of
\* the complete agegroup0" (call-heapcleaner.c:207), so no cleaning of
\* agegroup 0 runs past the end of agegroup 1.  The code checks for less.
Agegroup1HasRoom == overrun = 0

\* A hostthread that makes a large chunk gets it: each call_heapcleaner is
\* "to establish" the missing free space, and the loop ends.
LargeChunkIsMade == \A h \in Hostthread : pc[h] = "call" ~> pc[h] = "run"
=============================================================================
