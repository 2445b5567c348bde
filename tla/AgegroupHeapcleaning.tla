------------------------ MODULE AgegroupHeapcleaning ------------------------
(***************************************************************************)
(* The generational heapcleaner of the C runtime: call-heapcleaner.c,      *)
(* heapclean-agegroup0.c, heapclean-n-agegroups.c, heapcleaner-stuff.c,    *)
(* the card map of coarse-inter-agegroup-pointers-map.h, the allocators of *)
(* make-strings-and-vectors-etc.c and hugechunk.c.                         *)
(*                                                                         *)
(* Chunks are born in agegroup 0 and are copied towards older agegroups as *)
(* they survive cleanings.  A cleaning of the youngest agegroups must find *)
(* every pointer into them from the older ones; it relies on the changelog *)
(* (stores since the last cleaning) and on one card map per agegroup (the  *)
(* age of the youngest chunk referenced from a card, or younger).          *)
(*                                                                         *)
(* Abstraction.  A chunk has an identity that copying does not change and  *)
(* one field.  What copying changes is the address: `stale' is the set of  *)
(* slots that hold the old address of a chunk of the from-space, and a     *)
(* slot that is still stale when the from-space is released dangles.  The  *)
(* place of a copy within its sib is reduced to the card it falls on.      *)
(* Sizes and buffers are the subject of AgegroupSpace.                     *)
(***************************************************************************)
EXTENDS Integers, FiniteSets

CONSTANTS
    Chunk,                          \* identities of heap chunks
    Register,                       \* root slots: registers, C globals, extra roots
    Card,                           \* cards of one agegroup's RW_POINTERS_SIB
    NIL,                            \* a Tagged_Int: anything that is no pointer
    ACTIVE_AGEGROUPS,               \* heap->active_agegroups
    CODECHUNK_ALLOCATION_AGEGROUP,  \* agegroup in which code chunks are born
    RwHoldsCode,                    \* TRUE: refcells may point straight at code
    MAX_OF_KIND                     \* bound: how many chunks of each kind exist at once

Age == 1 .. ACTIVE_AGEGROUPS
Slot == Chunk \cup Register
CLEAN_CARD == ACTIVE_AGEGROUPS + 1  \* "any value greater than any real agegroup number"

ASSUME ConstantsAssumption ==
    /\ ACTIVE_AGEGROUPS \in Nat \ {0}
    /\ CODECHUNK_ALLOCATION_AGEGROUP \in Nat \ {0}
    /\ RwHoldsCode \in BOOLEAN
    /\ MAX_OF_KIND \in [{"ro", "rw", "weak", "code"} -> Nat]
    /\ NIL \notin Chunk
    /\ Chunk \cap Register = {}

VARIABLES
    kind,           \* what each chunk is; "free" when it does not exist
    field,          \* the value in each slot
    age,            \* the agegroup of each chunk
    senior,         \* chunks before their sib's fromspace.seniorchunks_end; SENIOR_HUGECHUNKs
    card,           \* the card each refcell, rw_vector or weakref lies on
    min_age,        \* coarse_inter_agegroup_pointers_map of each agegroup
    heap_changelog, \* slots stored into since the last cleaning, of all tasks
    pc,             \* the phase of the cleaning; "run" while user code runs
    clean,          \* oldest_agegroup_to_clean; 0 in heapclean_agegroup0
    fromspace,      \* the chunks of the agegroups being cleaned
    forwarded,      \* those copied; for code chunks, those marked live
    unswept,        \* copies past tospace.swept_end
    weakrefs,       \* heap->weakrefs_forwarded_during_heapcleaning
    stale           \* slots holding a from-space address

mutator == <<kind, field, age, senior, card, heap_changelog>>
cleaner == <<clean, fromspace, forwarded, unswept, weakrefs>>
vars == <<mutator, min_age, pc, cleaner, stale>>

----------------------------------------------------------------------------
(* What a slot refers to.                                                  *)

InHeap(c) == kind[c] # "free"

Lower(a, b) == IF a < b THEN a ELSE b

Youngest(S) == CHOOSE a \in S : \A b \in S : a <= b

\* Plain chunks move when forwarded; hugechunks (code) only change state.
IsPlain(c) == c # NIL /\ kind[c] # "code"

\* Chunks of a RW_POINTERS_SIB: what the card map describes.
InRwSib(c) == kind[c] \in {"rw", "weak"}

\* All code chunks lie in one Hugechunk_Quire, whose books carry the age of
\* the youngest of them.
QuireIsYoung == \E c \in Chunk : kind[c] = "code" /\ age[c] <= clean

\* SIBID_IS_IN_FROMSPACE( sibid, max_sibid ) of the word in slot s.
SIBID_IS_IN_FROMSPACE(s) ==
    LET t == field[s] IN
    /\ t # NIL
    /\ IF kind[t] = "code" THEN clean > 0 /\ QuireIsYoung ELSE s \in stale

----------------------------------------------------------------------------
(* Init: the heap before the first allocation.                             *)

Init ==
    /\ kind = [c \in Chunk |-> "free"]
    /\ field = [s \in Slot |-> NIL]
    /\ age = [c \in Chunk |-> 0]
    /\ senior = {}
    /\ card \in [Chunk -> Card] /\ \A c, d \in Chunk : card[c] = card[d]
    /\ min_age = [a \in Age |-> [k \in Card |-> CLEAN_CARD]]
    /\ heap_changelog = {}
    /\ pc = "run"
    /\ clean = 0
    /\ fromspace = {} /\ forwarded = {} /\ unswept = {}
    /\ weakrefs = {} /\ stale = {}

----------------------------------------------------------------------------
(* User code.                                                              *)

Values == {NIL} \cup {field[r] : r \in Register}

MayHold(k, v) ==
    /\ (k = "weak") => IsPlain(v)
    /\ (k = "rw" /\ ~RwHoldsCode) => v = NIL \/ IsPlain(v)

NewChunk(c, r, k, v, a) ==
    /\ pc = "run"
    /\ kind[c] = "free"
    /\ Cardinality({d \in Chunk : kind[d] = k}) < MAX_OF_KIND[k]
    /\ kind' = [kind EXCEPT ![c] = k]
    /\ field' = [field EXCEPT ![c] = v, ![r] = c]
    /\ age' = [age EXCEPT ![c] = a]
    /\ UNCHANGED <<senior, min_age, heap_changelog, pc, cleaner, stale>>

\* commit_nascent_heapchunk: a small chunk, in agegroup 0.
commit_nascent_heapchunk(c, r) ==
    \E k \in {"ro", "rw", "weak"}, v \in Values :
        /\ MayHold(k, v)
        /\ NewChunk(c, r, k, v, 0)
        /\ UNCHANGED card

\* A chunk too large for agegroup 0 is made in agegroup 1.  Unless it will
\* hold no pointers, agegroup 0 is emptied first with the initial value as
\* an extra root, so that agegroup 1 gets no unrecorded pointer into it.
initial_value_is_old(v) == v # NIL => age[v] >= 1

make_large_vector(c, r) ==
    \E k \in {"ro", "rw"}, v \in Values :
        /\ MayHold(k, v)
        /\ initial_value_is_old(v)
        /\ NewChunk(c, r, k, v, 1)
        /\ \E n \in Card : card' = [card EXCEPT ![c] = n]

allocate_nonempty_code_chunk(c, r) ==
    /\ NewChunk(c, r, "code", NIL,
                Lower(ACTIVE_AGEGROUPS, CODECHUNK_ALLOCATION_AGEGROUP))
    /\ UNCHANGED card

\* A store of a pointer into a refcell or rw_vector slot is logged; a store
\* of a Tagged_Int cannot make an inter-agegroup pointer and is not.
log_store(c, v) == IF v = NIL THEN heap_changelog ELSE heap_changelog \cup {c}

store(q) ==
    LET c == field[q] IN
    /\ pc = "run"
    /\ c # NIL /\ kind[c] = "rw"
    /\ \E v \in Values :
        /\ MayHold("rw", v)
        /\ field' = [field EXCEPT ![c] = v]
        /\ heap_changelog' = log_store(c, v)
    /\ UNCHANGED <<kind, age, senior, card, min_age, pc, cleaner, stale>>

\* Read the field of a chunk; a weakref yields a strong pointer.
fetch(q, r) ==
    LET c == field[q] IN
    /\ pc = "run"
    /\ c # NIL
    /\ field' = [field EXCEPT ![r] = field[c]]
    /\ UNCHANGED <<kind, age, senior, card, min_age, heap_changelog, pc, cleaner, stale>>

drop(r) ==
    /\ pc = "run"
    /\ field' = [field EXCEPT ![r] = NIL]
    /\ UNCHANGED <<kind, age, senior, card, min_age, heap_changelog, pc, cleaner, stale>>

----------------------------------------------------------------------------
(* Forwarding.                                                             *)

\* Agegroup the copy of t goes to: from agegroup 0 to agegroup 1; from an
\* older one to the next if t is senior, else to the same agegroup.
copy_age(t) ==
    IF clean = 0 THEN 1
    ELSE IF t \in senior THEN age[t] + 1 ELSE age[t]

\* What visiting the slots S forwards: the plain chunks copied to to-space
\* and the hugechunks marked live.
Targets(S) == {field[s] : s \in {r \in S : SIBID_IS_IN_FROMSPACE(r)}}
copied(S) == {t \in Targets(S) : IsPlain(t)} \ forwarded
marked(S) == {t \in Targets(S) : ~IsPlain(t)} \cap fromspace

\* Mutant: weakrefs are swept like refcells.
M_chained(S) == {}

\* forward_special_chunk: the copy of a weakref whose target is in the
\* from-space and has not been forwarded is chained, and its word hidden
\* from the sweeper.  Where the visit copies weakref and target, either may
\* come first.
chained(S) == {w \in copied(S) : kind[w] = "weak" /\ w \in stale /\ field[w] \notin forwarded}

either_first(S) == {w \in chained(S) : field[w] \in copied(S)}

\* forward_chunk, for the slots S that a phase visits: copy what is not yet
\* forwarded and leave the address of the copy in the slot.
forward_chunks(S) ==
    /\ forwarded' = forwarded \cup copied(S) \cup marked(S)
    /\ stale' = stale \ S
    /\ age' = [c \in Chunk |-> IF c \in copied(S) THEN copy_age(c) ELSE age[c]]
    /\ senior' = senior \ copied(S)
    /\ \E late \in SUBSET either_first(S) : weakrefs' = weakrefs \cup (chained(S) \ late)
    /\ card' \in {f \in [Chunk -> Card] : \A c \in Chunk :
                     f[c] = card[c] \/ (c \in copied(S) /\ InRwSib(c))}
    /\ UNCHANGED <<kind, field, fromspace>>

\* Age of the chunk that slot s refers to once s has been visited.
target_age(s) == age'[field[s]]

\* MAYBE_UPDATE_CARD_MIN_AGE_PER_POINTER for all slots in S.
note_ages(S) ==
    [a \in Age |-> [k \in Card |->
        Youngest({min_age[a][k]} \cup
                 {target_age(c) : c \in {d \in S : age[d] = a /\ card[d] = k}})]]

----------------------------------------------------------------------------
(* heapclean_agegroup0: roots, then changelogs, then the sweep of what was *)
(* copied into agegroup 1.                                                 *)

FromspaceIs(from) ==
    /\ fromspace' = from
    /\ forwarded' = {}
    /\ stale' = {s \in Slot : IsPlain(field[s]) /\ field[s] \in from}

call_heapcleaner ==
    /\ pc = "run"
    /\ pc' = "roots0"
    /\ FromspaceIs({c \in Chunk : InHeap(c) /\ age[c] = 0})
    /\ UNCHANGED <<mutator, min_age, clean, unswept, weakrefs>>

\* Scan the roots: the first loop of heapclean_agegroup0, and
\* forward_all_root_chunks.
scan_roots ==
    /\ pc \in {"roots0", "roots"}
    /\ pc' = IF pc = "roots0" THEN "changelog" ELSE "cards"
    /\ forward_chunks(Register)
    /\ unswept' = unswept \cup copied(Register)
    /\ UNCHANGED <<heap_changelog, min_age, clean>>

\* The entries of process_task_heap_changelog that count: slots that hold a
\* pointer and lie in agegroup 1 or older.
entries == {c \in heap_changelog : field[c] # NIL /\ c \notin fromspace}

\* Those after whose visit MAYBE_UPDATE_CARD_MIN_AGE_PER_POINTER is called.
entries_to_note == {c \in entries : age[c] > target_age(c)}

process_task_heap_changelogs ==
    /\ pc = "changelog"
    /\ pc' = "sweep0"
    /\ forward_chunks(entries)
    /\ unswept' = unswept \cup copied(entries)
    /\ min_age' = note_ages(entries_to_note)
    /\ heap_changelog' = {}
    /\ UNCHANGED clean

\* The words scanned in a copy: none in a chained weakref, whose word looks
\* like a Tagged_Int.
words(c) == {c} \ weakrefs

\* One copy between swept_end and first_free is scanned.
scan_copy(c) ==
    /\ c \in unswept
    /\ forward_chunks(words(c))
    /\ unswept' = (unswept \ {c}) \cup copied(words(c))
    /\ UNCHANGED <<heap_changelog, pc, clean>>

\* One chunk of sweep_agegroup1_sib_tospace.
sweep_agegroup1_sib_tospace(c) ==
    /\ pc = "sweep0"
    /\ scan_copy(c)
    /\ UNCHANGED min_age

----------------------------------------------------------------------------
(* The end of a cleaning: weakrefs, then the from-space is released.       *)

\* Mutant: every chained weakref is nulled.
M_dead_weakref(w) == w \in weakrefs

\* null_out_newly_dead_weakrefs: a chained weakref gets the address of its
\* target's copy, or is nulled if the target was not forwarded.
dead_weakref(w) == w \in weakrefs /\ field[w] \notin forwarded

Dead == fromspace \ forwarded

\* Chunks that were not forwarded vanish, with what they held.
release_fromspace ==
    /\ kind' = [c \in Chunk |-> IF c \in Dead THEN "free" ELSE kind[c]]
    /\ field' = [s \in Slot |-> IF s \in Dead \/ dead_weakref(s) THEN NIL ELSE field[s]]
    /\ stale' = stale \ (Dead \cup weakrefs)
    /\ weakrefs' = {} /\ fromspace' = {} /\ forwarded' = {}
    /\ UNCHANGED <<card, heap_changelog, unswept>>

\* After agegroup 0 call_heapcleaner goes on to older agegroups if asked
\* to, or if agegroup 1 lacks space.
agegroup0_done ==
    /\ pc = "sweep0"
    /\ unswept = {}
    /\ release_fromspace
    /\ age' = [c \in Chunk |-> IF c \in Dead THEN 0 ELSE age[c]]
    /\ pc' \in {"run", "prepare"}
    /\ UNCHANGED <<senior, min_age, clean>>

----------------------------------------------------------------------------
(* heapclean_n_agegroups.                                                  *)

\* prepare_for_heapcleaning: the agegroups 1 .. n become from-space and get
\* new card maps.  n is decided by sizes: see AgegroupSpace.
prepare_for_heapcleaning(n) ==
    /\ pc = "prepare"
    /\ pc' = "roots"
    /\ clean' = n
    /\ FromspaceIs({c \in Chunk : InHeap(c) /\ age[c] <= n})
    /\ min_age' = [a \in Age |-> IF a <= n THEN [k \in Card |-> CLEAN_CARD] ELSE min_age[a]]
    /\ UNCHANGED <<mutator, unswept, weakrefs>>

\* Mutant: off by one.
M_dirty(a, k) == a > clean /\ min_age[a][k] < clean

\* FOR_ALL_DIRTY_CARDS_IN_CARDMAP over the agegroups not being cleaned.
dirty(a, k) == a > clean /\ min_age[a][k] <= clean

\* The words of a card, up to the allocation high-water mark.
on_card(a, k) == {c \in Chunk : InRwSib(c) /\ age[c] = a /\ card[c] = k /\ c \notin unswept}

on_dirty_cards == {c \in Chunk : \E a \in Age, k \in Card : dirty(a, k) /\ c \in on_card(a, k)}

\* Mutant: a scanned card without young pointers is always clean.
M_re_mark(a, k) ==
    LET m == Youngest({a} \cup {target_age(c) :
                 c \in {d \in on_card(a, k) : SIBID_IS_IN_FROMSPACE(d)}}) IN
    IF m < a THEN m ELSE CLEAN_CARD

\* A scanned card gets the age of the youngest chunk its words refer to in
\* the agegroups being cleaned; if that is not younger than the card itself,
\* the card is clean if all younger agegroups were cleaned, and keeps its
\* mark otherwise.
re_mark(a, k) ==
    LET m == Youngest({a} \cup {target_age(c) :
                 c \in {d \in on_card(a, k) : SIBID_IS_IN_FROMSPACE(d)}}) IN
    IF m < a THEN m
    ELSE IF a = clean + 1 THEN CLEAN_CARD ELSE min_age[a][k]

forward_all_chunks_referenced_by_uncleaned_agegroups ==
    /\ pc = "cards"
    /\ pc' = "sweep"
    /\ forward_chunks(on_dirty_cards)
    /\ unswept' = unswept \cup copied(on_dirty_cards)
    /\ min_age' = [a \in Age |-> [k \in Card |->
                      IF dirty(a, k) THEN re_mark(a, k) ELSE min_age[a][k]]]
    /\ UNCHANGED <<heap_changelog, clean>>

\* forward_rest_of_rw_pointers_sib also marks the card of the copy.
to_note(c) ==
    {w \in words(c) : InRwSib(w) /\ SIBID_IS_IN_FROMSPACE(w) /\ target_age(w) < age[w]}

\* One copy of forward_all_remaining_live_chunks.
forward_rest(c) ==
    /\ pc = "sweep"
    /\ scan_copy(c)
    /\ min_age' = note_ages(to_note(c))

\* forward_promote_or_reclaim_all_hugechunks and
\* update_fromspace_seniorchunks_end_pointers: a marked hugechunk is
\* promoted if it was senior; then whatever lies in a cleaned agegroup,
\* except the oldest one, is senior.
final_age(c) ==
    IF c \in Dead THEN 0
    ELSE IF kind[c] = "code" /\ c \in fromspace /\ c \in senior THEN age[c] + 1
    ELSE age[c]

\* Mutant: the oldest agegroup is not excepted.
M_is_senior(c) ==
    IF final_age(c) <= clean
    THEN TRUE
    ELSE c \in senior /\ c \notin fromspace

is_senior(c) ==
    IF final_age(c) <= clean
    THEN final_age(c) < ACTIVE_AGEGROUPS
    ELSE c \in senior /\ c \notin fromspace

n_agegroups_done ==
    /\ pc = "sweep"
    /\ unswept = {}
    /\ release_fromspace
    /\ age' = [c \in Chunk |-> final_age(c)]
    /\ senior' = {c \in Chunk : InHeap(c) /\ c \notin Dead /\ is_senior(c)}
    /\ pc' = "run"
    /\ clean' = 0
    /\ UNCHANGED min_age

----------------------------------------------------------------------------
Next ==
    \/ \E c \in Chunk, r \in Register :
        \/ commit_nascent_heapchunk(c, r)
        \/ make_large_vector(c, r)
        \/ allocate_nonempty_code_chunk(c, r)
    \/ \E q \in Register : store(q) \/ drop(q)
    \/ \E q, r \in Register : fetch(q, r)
    \/ call_heapcleaner
    \/ scan_roots
    \/ process_task_heap_changelogs
    \/ \E c \in Chunk : sweep_agegroup1_sib_tospace(c)
    \/ agegroup0_done
    \/ \E n \in Age : prepare_for_heapcleaning(n)
    \/ forward_all_chunks_referenced_by_uncleaned_agegroups
    \/ \E c \in Chunk : forward_rest(c)
    \/ n_agegroups_done

Spec == Init /\ [][Next]_vars

----------------------------------------------------------------------------
(* Properties.                                                             *)

\* The variables have their types: among others, nothing is promoted beyond
\* the oldest agegroup, no card names an agegroup younger than 1, and only
\* chunks of the from-space are forwarded.
TypeOK ==
    /\ kind \in [Chunk -> {"free", "ro", "rw", "weak", "code"}]
    /\ field \in [Slot -> Chunk \cup {NIL}]
    /\ age \in [Chunk -> 0 .. ACTIVE_AGEGROUPS]
    /\ senior \subseteq Chunk
    /\ card \in [Chunk -> Card]
    /\ min_age \in [Age -> [Card -> 1 .. CLEAN_CARD]]
    /\ heap_changelog \subseteq Chunk
    /\ pc \in {"run", "roots0", "changelog", "sweep0", "prepare", "roots", "cards", "sweep"}
    /\ clean \in 0 .. ACTIVE_AGEGROUPS
    /\ fromspace \subseteq Chunk /\ forwarded \subseteq fromspace
    /\ unswept \subseteq Chunk /\ weakrefs \subseteq Chunk
    /\ stale \subseteq Slot

Quiet == pc \in {"run", "prepare"}

Exists(s) == s \in Register \/ kind[s] # "free"

\* No cleaning leaves a slot with the address of a chunk that has moved or
\* has been reclaimed: not in the roots, and in no chunk of any agegroup.
NoDanglingPointers ==
    Quiet => \A s \in Slot : Exists(s) /\ field[s] # NIL =>
                 s \notin stale /\ kind[field[s]] # "free"

\* Between cleanings every pointer from a chunk of agegroup 1 or older to a
\* younger chunk is in a refcell or rw_vector, and is in the changelog or on
\* a card whose min_age is not above the age of the target.
InterAgegroupPointersAreKnown ==
    Quiet => \A c \in Chunk :
        InHeap(c) /\ field[c] # NIL /\ age[field[c]] < age[c] =>
            /\ kind[c] = "rw"
            /\ c \in heap_changelog \/ min_age[age[c]][card[c]] <= age[field[c]]

\* S holds what the roots refer to, and what its chunks other than weakrefs
\* refer to.
Closed(S) ==
    \A s \in Register \cup S :
        (s \in Register \/ kind[s] # "weak") /\ field[s] # NIL => field[s] \in S

\* Chunks reachable from the roots without going through a weakref: those in
\* every closed set.
Reachable == {c \in Chunk : \A S \in SUBSET Chunk : Closed(S) => c \in S}

\* Cleaning every agegroup reclaims all that is unreachable.
FullCleaningReclaimsAllGarbage ==
    [][pc = "sweep" /\ pc' = "run" /\ clean = ACTIVE_AGEGROUPS =>
           {c \in Chunk : kind'[c] # "free"} = Reachable']_vars

\* No cleaning reclaims a reachable chunk or changes what it holds, except
\* that a weakref is nulled by the cleaning that reclaims its target.
CleaningPreservesTheGraph ==
    [][fromspace # {} /\ fromspace' = {} =>
         \A s \in Reachable \cup Register :
             \/ field'[s] = field[s] /\ Exists(s)'
             \/ Exists(s)' /\ kind[s] = "weak" /\ kind'[field[s]] = "free"]_vars
=============================================================================
