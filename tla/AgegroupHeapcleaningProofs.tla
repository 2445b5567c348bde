--------------------- MODULE AgegroupHeapcleaningProofs ---------------------
(***************************************************************************)
(* Proofs about AgegroupHeapcleaning: for every number of agegroups,       *)
(* chunks, cards and registers the cleanings leave no dangling pointer,    *)
(* know every pointer from an old agegroup to a younger one, preserve what *)
(* the roots reach and, when they clean all agegroups, nothing else.       *)
(*                                                                         *)
(* AInv is the inductive invariant.  Its core is the notion of where a     *)
(* chunk will be when the cleaning under way ends (settled,                *)
(* will_be_senior): forwarding changes the age of a chunk, and not where   *)
(* it will be, so that the order of ages along pointers and the marks on   *)
(* cards can be stated in the middle of a cleaning.  SlotsOK says which    *)
(* slots each phase has visited (Visited) and what is true of them.        *)
(***************************************************************************)
EXTENDS AgegroupHeapcleaning, InductionLemmas

-----------------------------------------------------------------------------
(* The inductive invariant *)

\* Where the cleaning under way will leave chunk x if it keeps it: age and
\* seniority.  Neither is changed by forwarding x.
settled(x) ==
    IF x \in fromspace /\ (kind[x] = "code" \/ x \notin forwarded)
    THEN copy_age(x) ELSE age[x]

will_be_senior(x) ==
    IF settled(x) <= clean THEN settled(x) < ACTIVE_AGEGROUPS
                           ELSE x \in senior /\ x \notin fromspace

\* t is in an older agegroup than c, or as senior in the same.
Ordered(c, t) ==
    \/ settled(c) < settled(t)
    \/ settled(c) = settled(t) /\ (will_be_senior(c) => will_be_senior(t))

\* Slots refer to chunks that exist.
PointsToHeap == \A s \in Slot : Exists(s) /\ field[s] # NIL => InHeap(field[s])

\* What each kind of chunk may be like.
ChunksOK ==
    \A c \in Chunk :
        /\ kind[c] = "free" => field[c] = NIL /\ age[c] = 0
        /\ c \in senior => InHeap(c) /\ age[c] \in 1 .. ACTIVE_AGEGROUPS - 1
        /\ kind[c] = "code" =>
             /\ field[c] = NIL
             /\ age[c] >= Lower(ACTIVE_AGEGROUPS, CODECHUNK_ALLOCATION_AGEGROUP)
        /\ c \in heap_changelog => kind[c] = "rw"
        /\ field[c] # NIL /\ (kind[c] = "weak" \/ (kind[c] = "rw" /\ ~RwHoldsCode))
             => IsPlain(field[c])

\* Chunks that cannot be stored into refer to what was there before them,
\* hence to no younger chunk.
HeapOK ==
    /\ PointsToHeap
    /\ ChunksOK
    /\ \A c \in Chunk : field[c] # NIL /\ kind[c] # "rw" =>
         /\ Ordered(c, field[c])
         /\ field[c] \in fromspace => c \in fromspace

\* What each phase knows of the agegroups.
PhaseOK ==
    /\ Quiet => /\ fromspace = {} /\ forwarded = {} /\ unswept = {}
                /\ weakrefs = {} /\ stale = {}
    /\ clean = 0 <=> pc \notin {"roots", "cards", "sweep"}
    /\ pc \notin {"run", "roots0", "changelog"} => heap_changelog = {}
    /\ pc \in {"roots0", "roots"} => forwarded = {}
    /\ pc \in {"changelog", "cards"} =>
         \A c \in forwarded : IsPlain(c) => c \in unswept
    /\ \A c \in Chunk : InHeap(c) =>
         /\ pc \in {"prepare", "roots", "cards", "sweep"} => age[c] >= 1
         /\ ~Quiet /\ c \notin fromspace => age[c] > clean
    /\ \A c \in fromspace :
         /\ InHeap(c)
         /\ age[c] <= clean + 1
         /\ kind[c] = "code" \/ c \notin forwarded => age[c] <= clean
         /\ IsPlain(c) /\ c \in forwarded => age[c] >= 1 /\ c \notin senior

\* The slots that the cleaning has done with.
Visited(s) ==
    \/ s \in Register /\ pc \notin {"roots0", "roots"}
    \/ s \in Chunk \ fromspace /\ pc \in {"sweep0", "sweep"}
    \/ s \in forwarded \ (unswept \cup weakrefs)

\* What was visited refers to what was forwarded; what was not is stale.
SlotsOK ==
    /\ \A s \in stale : IsPlain(field[s]) /\ field[s] \in fromspace
    /\ \A s \in Slot : field[s] \in fromspace =>
         IF Visited(s) THEN s \notin stale /\ field[s] \in forwarded
                       ELSE IsPlain(field[s]) => s \in stale
    /\ \A c \in unswept : IsPlain(c) /\ c \in forwarded
    /\ \A w \in weakrefs : /\ kind[w] = "weak" /\ w \in forwarded
                           /\ field[w] \in fromspace
    /\ \A w \in forwarded \ weakrefs :
         kind[w] = "weak" /\ field[w] \in fromspace => field[w] \in forwarded

\* The pointers from refcells to younger chunks, which the next phase or the
\* next cleaning has to find.
CardsOK ==
    \A c \in Chunk : kind[c] = "rw" /\ field[c] # NIL =>
        LET t == field[c]
            m == min_age[age[c]][card[c]] IN
        /\ /\ c \notin fromspace /\ pc \notin {"sweep0", "sweep"}
           /\ settled(t) < age[c] \/ t \in fromspace
           => \/ c \in heap_changelog
              \/ m <= settled(t) /\ (t \in fromspace => m <= clean)
        /\ /\ \/ c \notin fromspace /\ pc \in {"sweep0", "sweep"}
              \/ c \in forwarded \ unswept
           /\ settled(t) < age[c]
           => m <= settled(t)

\* A cleaning of all agegroups forwards only what is reachable.
FullOK == clean = ACTIVE_AGEGROUPS => forwarded \subseteq Reachable

AInv ==
    /\ TypeOK
    /\ HeapOK
    /\ PhaseOK
    /\ SlotsOK
    /\ CardsOK
    /\ FullOK
-----------------------------------------------------------------------------
(* Ages *)

\* The hypothesis of what follows: refcells do not refer to code or, if they
\* do, no agegroup is so old that a cleaning which leaves it and two younger
\* ones alone can clean the youngest code.
CardsSuffice ==
    RwHoldsCode => ACTIVE_AGEGROUPS <= CODECHUNK_ALLOCATION_AGEGROUP + 2

\* A nonempty set of ages has a least member.
LEMMA YoungestIs ==
    ASSUME NEW S \in SUBSET Nat, S # {}
    PROVE  Youngest(S) \in S /\ \A b \in S : Youngest(S) <= b
<1>1. \E a \in S : \A b \in S : a <= b
  BY LeastNatural
<1>. QED
  BY <1>1, Zenon DEF Youngest

\* Between cleanings every chunk is where it will be.
LEMMA QuietSettled ==
    ASSUME AInv, Quiet, NEW x \in Chunk
    PROVE  /\ settled(x) = age[x]
           /\ will_be_senior(x) <=> age[x] = 0 \/ x \in senior
  BY ConstantsAssumption DEF AInv, TypeOK, PhaseOK, Quiet, settled,
     will_be_senior

\* A cleaning promotes by one agegroup at most, and not beyond the oldest.
LEMMA SettledAges ==
    ASSUME AInv, NEW x \in Chunk, InHeap(x)
    PROVE  /\ settled(x) \in 0 .. ACTIVE_AGEGROUPS /\ settled(x) \in Nat
           /\ ~Quiet => settled(x) >= 1
           /\ x \in fromspace => settled(x) <= clean + 1
           /\ x \notin fromspace => settled(x) = age[x]
           /\ x \in fromspace /\ (kind[x] = "code" \/ x \notin forwarded)
                => settled(x) = copy_age(x)
           /\ x \in forwarded /\ IsPlain(x) => settled(x) = age[x]
           /\ kind[x] = "code" => age[x] <= settled(x)
<1>1. /\ age[x] \in 0 .. ACTIVE_AGEGROUPS /\ clean \in 0 .. ACTIVE_AGEGROUPS
      /\ ACTIVE_AGEGROUPS \in Nat \ {0}
  BY ConstantsAssumption DEF AInv, TypeOK
<1>2. x \in senior => age[x] \in 1 .. ACTIVE_AGEGROUPS - 1
  BY DEF AInv, HeapOK, ChunksOK, PointsToHeap
<1>3. clean > 0 <=> pc \in {"roots", "cards", "sweep"}
  BY <1>1 DEF AInv, PhaseOK
<1>4. /\ clean > 0 => age[x] >= 1
      /\ ~Quiet /\ x \notin fromspace => age[x] > clean
      /\ x \in fromspace =>
           /\ age[x] <= clean + 1
           /\ (kind[x] = "code" \/ x \notin forwarded) => age[x] <= clean
           /\ (IsPlain(x) /\ x \in forwarded) => age[x] >= 1
  BY <1>3 DEF AInv, PhaseOK
<1>5. IsPlain(x) <=> kind[x] # "code"
  BY ConstantsAssumption DEF IsPlain
<1>6. kind[x] = "code" => age[x] >= 1
  BY <1>1, ConstantsAssumption DEF AInv, HeapOK, ChunksOK, PointsToHeap, Lower
<1>. QED
  BY <1>1, <1>2, <1>4, <1>5, <1>6 DEF settled, copy_age

-----------------------------------------------------------------------------
(* Forwarding *)

\* What a visit of the slots S forwards was in the from-space.
LEMMA ForwardedChunks ==
    ASSUME AInv, NEW S \in SUBSET Slot
    PROVE  /\ \A x \in copied(S) : x \in fromspace \ forwarded /\ IsPlain(x)
                                   /\ x \in Chunk
           /\ \A x \in marked(S) : x \in fromspace /\ kind[x] = "code"
                                   /\ x \in Chunk
           /\ \A s \in S : /\ SIBID_IS_IN_FROMSPACE(s) /\ IsPlain(field[s])
                                => field[s] \in copied(S) \cup forwarded
                           /\ SIBID_IS_IN_FROMSPACE(s) /\ ~IsPlain(field[s])
                                /\ field[s] \in fromspace => field[s] \in marked(S)
<1>1. \A s \in stale : field[s] \in fromspace
  BY DEF AInv, SlotsOK
<1>2. fromspace \subseteq Chunk /\ NIL \notin Chunk
  BY ConstantsAssumption DEF AInv, TypeOK
<1>3. \A t \in Targets(S) :
         t # NIL /\ \E s \in S : t = field[s] /\ SIBID_IS_IN_FROMSPACE(s)
  BY DEF Targets, SIBID_IS_IN_FROMSPACE
<1>4. \A t \in Targets(S) : IsPlain(t) => t \in fromspace
  BY <1>1, <1>3 DEF IsPlain, SIBID_IS_IN_FROMSPACE
<1>5. \A x \in copied(S) : x \in fromspace \ forwarded /\ IsPlain(x)
  BY <1>4 DEF copied
<1>6. \A x \in marked(S) : x \in fromspace /\ kind[x] = "code"
  BY <1>3 DEF marked, IsPlain
<1>7. \A s \in S : SIBID_IS_IN_FROMSPACE(s) => field[s] \in Targets(S)
  BY DEF Targets
<1>. QED
  BY <1>2, <1>5, <1>6, <1>7 DEF copied, marked

\* After the visit they are forwarded: also what was referred to by a slot
\* with nothing but a new address, or with the address of a code chunk.
LEMMA VisitForwards ==
    ASSUME AInv, NEW S \in SUBSET Slot, forward_chunks(S), NEW s \in S,
           field[s] \in fromspace, IsPlain(field[s]) => s \in stale
    PROVE  SIBID_IS_IN_FROMSPACE(s) /\ field[s] \in forwarded'
<1>. DEFINE t == field[s]
<1>1. t \in Chunk /\ t # NIL
  BY ConstantsAssumption DEF AInv, TypeOK
<1>2. CASE IsPlain(t)
  <2>1. SIBID_IS_IN_FROMSPACE(s)
    BY <1>1, <1>2 DEF SIBID_IS_IN_FROMSPACE, IsPlain
  <2>. QED
    BY <1>2, <2>1, ForwardedChunks DEF forward_chunks
<1>3. CASE ~IsPlain(t)
  <2>1. kind[t] = "code"
    BY <1>1, <1>3 DEF IsPlain
  <2>2. age[t] <= clean /\ age[t] \in Nat /\ clean \in Nat
    BY <1>1, <2>1 DEF AInv, PhaseOK, TypeOK
  <2>3. age[t] >= 1
    BY <1>1, <2>1, <2>2, ConstantsAssumption DEF AInv, HeapOK, ChunksOK, PointsToHeap, Lower
  <2>4. clean > 0 /\ QuireIsYoung
    BY <1>1, <2>1, <2>2, <2>3 DEF QuireIsYoung
  <2>5. SIBID_IS_IN_FROMSPACE(s)
    BY <1>1, <2>1, <2>4 DEF SIBID_IS_IN_FROMSPACE
  <2>. QED
    BY <1>3, <2>5, ForwardedChunks DEF forward_chunks
<1>. QED
  BY <1>2, <1>3

\* Forwarding changes what it copies, and nothing about where chunks will be.
LEMMA ForwardAges ==
    ASSUME AInv, NEW S \in SUBSET Slot, forward_chunks(S), clean' = clean,
           NEW x \in Chunk
    PROVE  /\ settled(x)' = settled(x)
           /\ will_be_senior(x)' <=> will_be_senior(x)
           /\ x \in copied(S) => age'[x] = settled(x)
           /\ x \notin copied(S) => age'[x] = age[x] /\ card'[x] = card[x]
           /\ IsPlain(x)' <=> IsPlain(x)
<1>1. /\ forwarded' = forwarded \cup copied(S) \cup marked(S)
      /\ age' = [c \in Chunk |-> IF c \in copied(S) THEN copy_age(c) ELSE age[c]]
      /\ senior' = senior \ copied(S)
      /\ kind' = kind /\ fromspace' = fromspace
      /\ \A c \in Chunk : card'[c] = card[c] \/ c \in copied(S)
  BY DEF forward_chunks
<1>2. /\ x \in copied(S) => x \in fromspace \ forwarded /\ IsPlain(x)
      /\ x \in marked(S) => x \in fromspace /\ kind[x] = "code"
  BY ForwardedChunks
<1>3. IsPlain(x) <=> kind[x] # "code"
  BY ConstantsAssumption DEF IsPlain
<1>4. /\ x \in copied(S) => age'[x] = copy_age(x) /\ settled(x) = copy_age(x)
                            /\ settled(x)' = age'[x]
  BY <1>1, <1>2, <1>3 DEF settled
<1>5. x \notin copied(S) => /\ age'[x] = age[x] /\ card'[x] = card[x]
                            /\ copy_age(x)' = copy_age(x)
                            /\ settled(x)' = settled(x)
  <2>1. SUFFICES ASSUME x \notin copied(S)
                 PROVE  /\ age'[x] = age[x] /\ card'[x] = card[x]
                        /\ copy_age(x)' = copy_age(x)
                        /\ settled(x)' = settled(x)
    OBVIOUS
  <2>2. age'[x] = age[x] /\ card'[x] = card[x] /\ (x \in senior' <=> x \in senior)
    BY <1>1, <2>1
  <2>3. copy_age(x)' = copy_age(x)
    BY <2>2 DEF copy_age
  <2>4. kind[x] # "code" => (x \in forwarded' <=> x \in forwarded)
    BY <1>1, <1>2, <2>1
  <2>. QED
    BY <1>1, <2>2, <2>3, <2>4 DEF settled
<1>6. settled(x)' = settled(x)
  BY <1>4, <1>5
<1>7. will_be_senior(x)' <=> will_be_senior(x)
  BY <1>1, <1>2, <1>6 DEF will_be_senior
<1>. QED
  BY <1>1, <1>4, <1>5, <1>6, <1>7 DEF IsPlain

\* Forwarding keeps the types.
LEMMA ForwardTypes ==
    ASSUME AInv, NEW S \in SUBSET Slot, forward_chunks(S), clean' = clean
    PROVE  /\ kind' = kind /\ field' = field /\ fromspace' = fromspace
           /\ age' \in [Chunk -> 0 .. ACTIVE_AGEGROUPS]
           /\ senior' \subseteq Chunk
           /\ card' \in [Chunk -> Card]
           /\ forwarded' \subseteq fromspace /\ forwarded \subseteq forwarded'
           /\ weakrefs' \subseteq Chunk
           /\ stale' \subseteq Slot
<1>1. /\ \A x \in copied(S) : x \in fromspace \ forwarded /\ x \in Chunk
      /\ \A x \in marked(S) : x \in fromspace
  BY ForwardedChunks
<1>2. ASSUME NEW x \in Chunk PROVE age'[x] \in 0 .. ACTIVE_AGEGROUPS
  <2>1. x \in copied(S) => InHeap(x)
    BY <1>1 DEF AInv, PhaseOK
  <2>. QED
    BY <2>1, ForwardAges, SettledAges DEF AInv, TypeOK
<1>3. age' \in [Chunk -> 0 .. ACTIVE_AGEGROUPS]
  BY <1>2 DEF forward_chunks
<1>4. chained(S) \subseteq Chunk
  BY <1>1 DEF chained
<1>. QED
  BY <1>1, <1>3, <1>4 DEF forward_chunks, AInv, TypeOK

\* Forwarding leaves the heap in order.
LEMMA ForwardHeap ==
    ASSUME AInv, NEW S \in SUBSET Slot, forward_chunks(S), clean' = clean,
           heap_changelog' \subseteq heap_changelog
    PROVE  HeapOK'
<1>1. kind' = kind /\ field' = field /\ fromspace' = fromspace
  BY ForwardTypes
<1>2. PointsToHeap'
  BY <1>1 DEF AInv, HeapOK, PointsToHeap, Exists, InHeap
<1>3. ASSUME NEW c \in Chunk
      PROVE  (/\ kind[c] = "free" => field[c] = NIL /\ age[c] = 0
              /\ c \in senior => InHeap(c) /\ age[c] \in 1 .. ACTIVE_AGEGROUPS - 1
              /\ kind[c] = "code" =>
                   /\ field[c] = NIL
                   /\ age[c] >= Lower(ACTIVE_AGEGROUPS, CODECHUNK_ALLOCATION_AGEGROUP)
              /\ c \in heap_changelog => kind[c] = "rw"
              /\ field[c] # NIL /\ (kind[c] = "weak" \/ (kind[c] = "rw" /\ ~RwHoldsCode))
                   => IsPlain(field[c]))'
  <2>1. c \in copied(S) => kind[c] # "code" /\ InHeap(c) /\ c \notin senior'
    BY ForwardedChunks DEF AInv, PhaseOK, IsPlain, forward_chunks
  <2>2. c \notin copied(S) => age'[c] = age[c] /\ (c \in senior' <=> c \in senior)
    BY ForwardAges DEF forward_chunks
  <2>. QED
    BY <1>1, <2>1, <2>2 DEF AInv, HeapOK, ChunksOK, InHeap, IsPlain
<1>4. ASSUME NEW c \in Chunk, field'[c] # NIL, kind'[c] # "rw"
      PROVE  (Ordered(c, field[c]) /\ (field[c] \in fromspace => c \in fromspace))'
  <2>1. field[c] \in Chunk /\ field[c] # NIL
    BY <1>1, <1>4 DEF AInv, TypeOK, Slot
  <2>2. /\ settled(c)' = settled(c)
        /\ will_be_senior(c)' <=> will_be_senior(c)
        /\ settled(field[c])' = settled(field[c])
        /\ will_be_senior(field[c])' <=> will_be_senior(field[c])
    <3>1. \A x \in Chunk : /\ settled(x)' = settled(x)
                           /\ will_be_senior(x)' <=> will_be_senior(x)
      BY ForwardAges
    <3>. QED
      BY <1>1, <2>1, <3>1 DEF settled, copy_age, will_be_senior
  <2>. QED
    BY <1>1, <1>4, <2>1, <2>2 DEF AInv, HeapOK, Ordered
<1>5. ChunksOK'
  BY <1>3 DEF ChunksOK
<1>. QED
  BY <1>2, <1>4, <1>5 DEF HeapOK

\* Forwarding moves from-space chunks by at most one agegroup.
LEMMA ForwardPhase ==
    ASSUME AInv, NEW S \in SUBSET Slot, forward_chunks(S), clean' = clean,
           ~Quiet, ~Quiet', pc' \notin {"roots0", "roots"},
           pc' \in {"roots", "cards", "sweep"} <=> pc \in {"roots", "cards", "sweep"},
           pc' \notin {"run", "roots0", "changelog"} => heap_changelog' = {},
           pc' \in {"changelog", "cards"} => pc \in {"roots0", "roots"},
           copied(S) \subseteq unswept'
    PROVE  PhaseOK'
<1>1. kind' = kind /\ field' = field /\ fromspace' = fromspace
  BY ForwardTypes
<1>2. /\ forwarded' = forwarded \cup copied(S) \cup marked(S)
      /\ senior' = senior \ copied(S)
  BY DEF forward_chunks
<1>3. \A x \in Chunk : /\ x \in copied(S) => age'[x] = settled(x)
                       /\ x \notin copied(S) => age'[x] = age[x]
  BY ForwardAges
<1>4. /\ \A x \in copied(S) : x \in fromspace \ forwarded /\ IsPlain(x)
      /\ \A x \in marked(S) : x \in fromspace /\ kind[x] = "code"
      /\ fromspace \subseteq Chunk /\ forwarded \subseteq fromspace
  BY ForwardedChunks DEF AInv, TypeOK
<1>5. \A x \in fromspace :
         InHeap(x) /\ settled(x) >= 1 /\ settled(x) <= clean + 1
  BY <1>4, SettledAges DEF AInv, PhaseOK
<1>6. \A x : IsPlain(x)' <=> IsPlain(x)
  BY <1>1 DEF IsPlain
<1>7. pc' \in {"changelog", "cards"} => \A c \in forwarded' : IsPlain(c) => c \in unswept'
  BY <1>2, <1>4 DEF AInv, PhaseOK, IsPlain
<1>8. ASSUME NEW c \in Chunk, InHeap(c)
      PROVE  /\ pc' \in {"prepare", "roots", "cards", "sweep"} => age'[c] >= 1
             /\ c \notin fromspace => age'[c] > clean
  BY <1>3, <1>4, <1>5, <1>8 DEF AInv, PhaseOK, Quiet
<1>9. ASSUME NEW c \in fromspace
      PROVE  /\ age'[c] <= clean + 1
             /\ kind[c] = "code" \/ c \notin forwarded' => age'[c] <= clean
             /\ IsPlain(c) /\ c \in forwarded' => age'[c] >= 1 /\ c \notin senior'
  BY <1>2, <1>3, <1>4, <1>5 DEF AInv, PhaseOK, IsPlain
<1>10. clean = 0 <=> pc' \notin {"roots", "cards", "sweep"}
  BY DEF AInv, PhaseOK
<1>. QED
  BY <1>1, <1>5, <1>6, <1>7, <1>8, <1>9, <1>10 DEF PhaseOK, InHeap

\* A visit makes the visited slots refer to what was forwarded.
LEMMA ForwardSlots ==
    ASSUME AInv, NEW S \in SUBSET Slot, forward_chunks(S), clean' = clean,
           unswept' \subseteq unswept \cup copied(S), S \cap weakrefs = {},
           \A s \in Slot : field[s] \in fromspace =>
               (Visited(s)' <=> Visited(s) \/ s \in S)
    PROVE  SlotsOK'
<1>1. kind' = kind /\ field' = field /\ fromspace' = fromspace
  BY ForwardTypes
<1>2. /\ forwarded' = forwarded \cup copied(S) \cup marked(S)
      /\ stale' = stale \ S
  BY DEF forward_chunks
<1>3. PICK late \in SUBSET either_first(S) : weakrefs' = weakrefs \cup (chained(S) \ late)
  BY DEF forward_chunks
<1>4. \A x : IsPlain(x)' <=> IsPlain(x)
  BY <1>1 DEF IsPlain
<1>5. /\ \A x \in copied(S) : x \in fromspace \ forwarded /\ IsPlain(x) /\ x \in Chunk
      /\ \A x \in marked(S) : x \in fromspace /\ kind[x] = "code"
  BY ForwardedChunks
<1>6. \A s \in stale' : IsPlain(field[s]) /\ field[s] \in fromspace
  BY <1>2 DEF AInv, SlotsOK
<1>7. ASSUME NEW s \in Slot, field[s] \in fromspace
      PROVE  IF Visited(s)' THEN s \notin stale' /\ field[s] \in forwarded'
                            ELSE IsPlain(field[s]) => s \in stale'
  <2>1. IF Visited(s) THEN s \notin stale /\ field[s] \in forwarded
                      ELSE IsPlain(field[s]) => s \in stale
    BY <1>7 DEF AInv, SlotsOK
  <2>2. Visited(s)' <=> Visited(s) \/ s \in S
    BY <1>7
  <2>3. s \in S /\ ~Visited(s) => field[s] \in forwarded'
    BY <1>7, <2>1, VisitForwards
  <2>. QED
    BY <1>2, <2>1, <2>2, <2>3
<1>8. \A c \in unswept' : IsPlain(c) /\ c \in forwarded'
  BY <1>2, <1>5 DEF AInv, SlotsOK
<1>9. \A w \in weakrefs' : /\ kind[w] = "weak" /\ w \in forwarded'
                           /\ field[w] \in fromspace
  BY <1>2, <1>3 DEF AInv, SlotsOK, chained
<1>10. ASSUME NEW w \in forwarded' \ weakrefs', kind[w] = "weak",
              field[w] \in fromspace
       PROVE  field[w] \in forwarded'
  <2>1. CASE w \in forwarded
    BY <1>2, <1>3, <1>10, <2>1 DEF AInv, SlotsOK
  <2>2. CASE w \in copied(S)
    <3>1. w \in fromspace /\ w \notin forwarded /\ w \in Slot /\ w \notin Register
      BY <1>5, <2>2, ConstantsAssumption DEF Slot
    <3>2. ~Visited(w)
      BY <3>1 DEF Visited
    <3>3. IsPlain(field[w])
      BY <1>5, <1>10, <2>2, ConstantsAssumption DEF AInv, HeapOK, ChunksOK, PointsToHeap, TypeOK
    <3>4. w \in stale
      BY <1>10, <3>1, <3>2, <3>3 DEF AInv, SlotsOK
    <3>5. w \in chained(S) => w \in late
      BY <1>3, <1>10
    <3>6. w \in chained(S) => field[w] \in copied(S)
      BY <3>5, <1>3 DEF either_first
    <3>7. field[w] \notin forwarded => w \in chained(S)
      BY <1>10, <2>2, <3>4 DEF chained
    <3>. QED
      BY <1>2, <3>6, <3>7
  <2>. QED
    BY <1>2, <1>5, <1>10, <2>1, <2>2
<1>. QED
  BY <1>1, <1>4, <1>6, <1>7, <1>8, <1>9, <1>10 DEF SlotsOK

\* What was swept is what was, less what has been forwarded only now.
LEMMA SweptStays ==
    ASSUME AInv, NEW S \in SUBSET Slot, forward_chunks(S), clean' = clean,
           copied(S) \subseteq unswept', NEW s \in Slot, field[s] # NIL
    PROVE  s \in forwarded' \ (unswept' \cup weakrefs')
             <=> s \in forwarded \ (unswept' \cup weakrefs)
<1>1. /\ \A x \in copied(S) : x \notin forwarded
      /\ \A x \in marked(S) : kind[x] = "code" /\ x \in Chunk
  BY ForwardedChunks
<1>2. s \notin marked(S)
  BY <1>1 DEF AInv, HeapOK, ChunksOK, PointsToHeap
<1>3. /\ weakrefs \subseteq weakrefs'
      /\ \A x \in weakrefs' : x \in weakrefs \/ x \in copied(S)
  BY DEF forward_chunks, chained
<1>4. forwarded' = forwarded \cup copied(S) \cup marked(S)
  BY DEF forward_chunks
<1>. QED
  BY <1>1, <1>2, <1>3, <1>4

-----------------------------------------------------------------------------
(* Reachability *)

\* Reachable is the smallest closed set.
LEMMA ReachableIsLeast ==
    ASSUME TypeOK
    PROVE  /\ Closed(Reachable)
           /\ \A S \in SUBSET Chunk : Closed(S) => Reachable \subseteq S
<1>1. \A S \in SUBSET Chunk : Closed(S) => Reachable \subseteq S
  BY DEF Reachable
<1>2. ASSUME NEW s \in Register \cup Reachable,
             s \in Register \/ kind[s] # "weak", field[s] # NIL
      PROVE  field[s] \in Reachable
  <2>1. field[s] \in Chunk
    BY <1>2 DEF TypeOK, Slot, Reachable
  <2>2. ASSUME NEW S \in SUBSET Chunk, Closed(S) PROVE field[s] \in S
    BY <1>1, <1>2, <2>2 DEF Closed
  <2>. QED
    BY <2>1, <2>2 DEF Reachable
<1>. QED
  BY <1>1, <1>2 DEF Closed

\* A visit of slots that are reachable forwards what is reachable.
LEMMA ForwardFull ==
    ASSUME AInv, NEW S \in SUBSET Slot, forward_chunks(S), clean' = clean,
           clean = ACTIVE_AGEGROUPS =>
               \A s \in S : SIBID_IS_IN_FROMSPACE(s) =>
                                field[s] \in Reachable \cup forwarded
    PROVE  FullOK'
<1>1. Reachable' = Reachable
  BY ForwardTypes DEF Reachable, Closed
<1>2. forwarded' = forwarded \cup copied(S) \cup marked(S)
  BY DEF forward_chunks
<1>3. clean = ACTIVE_AGEGROUPS => Targets(S) \subseteq Reachable \cup forwarded
  BY DEF Targets
<1>4. copied(S) \subseteq Targets(S) /\ marked(S) \subseteq Targets(S)
  BY DEF copied, marked
<1>. QED
  BY <1>1, <1>2, <1>3, <1>4 DEF AInv, FullOK

-----------------------------------------------------------------------------
(* Card maps *)

\* Noting ages lowers the marks of the cards concerned to those ages.
LEMMA NoteAges ==
    ASSUME AInv, NEW S \in SUBSET Chunk,
           \A c \in S : age'[field[c]] \in 1 .. ACTIVE_AGEGROUPS
    PROVE  /\ note_ages(S) \in [Age -> [Card -> 1 .. CLEAN_CARD]]
           /\ \A a \in Age, k \in Card : note_ages(S)[a][k] <= min_age[a][k]
           /\ \A c \in S : age[c] \in Age =>
                note_ages(S)[age[c]][card[c]] <= age'[field[c]]
<1>. DEFINE T(a, k) == {min_age[a][k]} \cup
                       {target_age(c) : c \in {d \in S : age[d] = a /\ card[d] = k}}
<1>1. /\ min_age \in [Age -> [Card -> 1 .. CLEAN_CARD]] /\ card \in [Chunk -> Card]
      /\ ACTIVE_AGEGROUPS \in Nat
  BY ConstantsAssumption DEF AInv, TypeOK
<1>2. ASSUME NEW a \in Age, NEW k \in Card
      PROVE  /\ Youngest(T(a, k)) \in 1 .. CLEAN_CARD
             /\ Youngest(T(a, k)) <= min_age[a][k]
             /\ \A c \in S : age[c] = a /\ card[c] = k
                               => Youngest(T(a, k)) <= age'[field[c]]
  <2>1. T(a, k) \in SUBSET (1 .. CLEAN_CARD)
    BY <1>1 DEF target_age, CLEAN_CARD
  <2>2. min_age[a][k] \in T(a, k)
    OBVIOUS
  <2>3. \A c \in S : age[c] = a /\ card[c] = k => age'[field[c]] \in T(a, k)
    BY DEF target_age
  <2>. HIDE DEF T
  <2>4. /\ Youngest(T(a, k)) \in T(a, k)
        /\ \A b \in T(a, k) : Youngest(T(a, k)) <= b
    <3>1. T(a, k) \in SUBSET Nat /\ T(a, k) # {}
      BY <2>1, <2>2
    <3>. QED
      BY <3>1, YoungestIs
  <2>. QED
    BY <2>1, <2>2, <2>3, <2>4
<1>3. note_ages(S) = [a \in Age |-> [k \in Card |-> Youngest(T(a, k))]]
  BY DEF note_ages
<1>. HIDE DEF T
<1>. QED
  BY <1>1, <1>2, <1>3

\* What a refcell needs of the card maps is the same before and after a
\* visit, unless the visit copies it; then it needs nothing before its copy
\* is swept.
LEMMA ForwardCard ==
    ASSUME AInv, NEW S \in SUBSET Slot, forward_chunks(S), clean' = clean,
           copied(S) \subseteq unswept',
           NEW c \in Chunk, kind[c] = "rw", field[c] # NIL
    PROVE  /\ field[c] \in Chunk /\ settled(field[c])' = settled(field[c])
           /\ InHeap(field[c]) /\ InHeap(c)
           /\ c \in copied(S) => c \in fromspace /\ c \in unswept'
           /\ c \notin copied(S) => /\ age'[c] = age[c] /\ card'[c] = card[c]
                                    /\ c \in forwarded' <=> c \in forwarded
<1>1. kind' = kind /\ field' = field
  BY ForwardTypes
<1>2. field[c] \in Chunk /\ InHeap(field[c]) /\ InHeap(c)
  BY DEF AInv, TypeOK, HeapOK, ChunksOK, PointsToHeap, Exists, Slot, InHeap
<1>3. \A x \in Chunk : settled(x)' = settled(x)
  BY ForwardAges
<1>4. settled(field[c])' = settled(field[c])
  BY <1>1, <1>2, <1>3 DEF settled, copy_age
<1>5. c \notin marked(S) /\ (c \in copied(S) => c \in fromspace)
  BY ForwardedChunks
<1>. QED
  BY <1>2, <1>4, <1>5, ForwardAges DEF forward_chunks

-----------------------------------------------------------------------------
(* The phases of a cleaning *)

\* The scan of the roots, of agegroup 0 or of the first few agegroups.
LEMMA ScanRoots == AInv /\ scan_roots => AInv'
<1>. SUFFICES ASSUME AInv, scan_roots PROVE AInv'
  OBVIOUS
<1>. DEFINE S == Register
<1>1. S \in SUBSET Slot
  BY DEF Slot
<1>2. /\ forward_chunks(S) /\ clean' = clean /\ min_age' = min_age
      /\ heap_changelog' = heap_changelog
      /\ unswept' = unswept \cup copied(S)
      /\ \/ pc = "roots0" /\ pc' = "changelog"
         \/ pc = "roots" /\ pc' = "cards"
      /\ forwarded = {}
  BY DEF scan_roots, AInv, PhaseOK
<1>. HIDE DEF S
<1>3. copied(S) \subseteq unswept' /\ copied(S) \subseteq Chunk
  BY <1>1, <1>2, ForwardedChunks
<1>4. TypeOK'
  BY <1>1, <1>2, <1>3, ForwardTypes DEF AInv, TypeOK
<1>5. HeapOK'
  BY <1>1, <1>2, ForwardHeap
<1>6. PhaseOK'
  BY <1>1, <1>2, <1>3, ForwardPhase DEF Quiet, AInv, PhaseOK
<1>7. SlotsOK'
  <2>1. ASSUME NEW s \in Slot, field[s] \in fromspace
        PROVE  Visited(s)' <=> Visited(s) \/ s \in S
    <3>1. field[s] # NIL
      BY <2>1, ConstantsAssumption DEF AInv, TypeOK
    <3>2. s \notin forwarded' \ (unswept' \cup weakrefs')
      BY <1>1, <1>2, <1>3, <3>1, SweptStays
    <3>. QED
      BY <1>2, <3>2 DEF Visited, S
  <2>2. S \cap weakrefs = {}
    BY ConstantsAssumption DEF S, AInv, TypeOK
  <2>. QED
    BY <1>1, <1>2, <2>1, <2>2, ForwardSlots
<1>8. CardsOK'
  <2>. SUFFICES ASSUME NEW c \in Chunk, kind[c] = "rw", field[c] # NIL
                PROVE  LET t == field[c]
                           m == min_age[age'[c]][card'[c]] IN
                       /\ (c \notin fromspace /\ (settled(t)' < age'[c] \/ t \in fromspace))
                            => \/ c \in heap_changelog
                               \/ m <= settled(t)' /\ (t \in fromspace => m <= clean)
                       /\ c \notin forwarded' \ unswept'
    BY <1>1, <1>2, ForwardTypes DEF CardsOK
  <2>. QED
    BY <1>1, <1>2, <1>3, ForwardCard DEF AInv, CardsOK
<1>9. FullOK'
  <2>1. Closed(Reachable)
    BY ReachableIsLeast DEF AInv
  <2>2. \A s \in S : SIBID_IS_IN_FROMSPACE(s) => field[s] \in Reachable
    BY <2>1 DEF Closed, S, SIBID_IS_IN_FROMSPACE
  <2>. QED
    BY <1>1, <1>2, <2>2, ForwardFull
<1>. QED
  BY <1>4, <1>5, <1>6, <1>7, <1>8, <1>9 DEF AInv

\* The changelogs: every pointer from an older agegroup into agegroup 0 is in
\* one of them, for no card is marked with age 0.
LEMMA ProcessChangelogs == AInv /\ process_task_heap_changelogs => AInv'
<1>. SUFFICES ASSUME AInv, process_task_heap_changelogs PROVE AInv'
  OBVIOUS
<1>. DEFINE S == entries
            T == entries_to_note
<1>1. /\ forward_chunks(S) /\ clean' = clean /\ heap_changelog' = {}
      /\ unswept' = unswept \cup copied(S)
      /\ min_age' = note_ages(T)
      /\ pc = "changelog" /\ pc' = "sweep0" /\ clean = 0
  BY DEF process_task_heap_changelogs, AInv, PhaseOK
<1>2. /\ S \in SUBSET Slot /\ S \in SUBSET Chunk
      /\ \A c \in S : field[c] # NIL /\ c \notin fromspace /\ kind[c] = "rw"
  BY DEF entries, Slot, AInv, TypeOK, HeapOK, ChunksOK, PointsToHeap
<1>3. T \in SUBSET Chunk /\ T \subseteq S
  BY <1>2 DEF entries_to_note
<1>4. \A c \in S : age'[field[c]] > age[c] - 1 \/ c \in T
  BY <1>2, ForwardTypes, <1>1 DEF entries_to_note, target_age, AInv, TypeOK, Slot
<1>. HIDE DEF S, T
<1>5. copied(S) \subseteq unswept' /\ copied(S) \subseteq Chunk
  BY <1>1, <1>2, ForwardedChunks
<1>6. ASSUME NEW c \in S
      PROVE  /\ field[c] \in Chunk /\ age'[field[c]] \in 1 .. ACTIVE_AGEGROUPS
             /\ age'[field[c]] = settled(field[c])
  <2>. DEFINE t == field[c]
  <2>1. t \in Chunk /\ InHeap(t)
    BY <1>1, <1>2, <1>5, ForwardCard
  <2>2. settled(t) \in 1 .. ACTIVE_AGEGROUPS
    BY <1>1, <2>1, SettledAges DEF Quiet
  <2>3. CASE t \in fromspace
    <3>1. kind[t] # "code" /\ IsPlain(t)
      BY <1>1, <2>1, <2>3, ConstantsAssumption DEF AInv, PhaseOK, HeapOK, ChunksOK, PointsToHeap,
         TypeOK, Lower, IsPlain
    <3>2. ~Visited(c)
      BY <1>1, <1>2, ConstantsAssumption DEF Visited, AInv, TypeOK
    <3>3. c \in stale /\ SIBID_IS_IN_FROMSPACE(c)
      BY <1>2, <2>1, <2>3, <3>1, <3>2 DEF AInv, SlotsOK,
         SIBID_IS_IN_FROMSPACE, IsPlain
    <3>4. t \in copied(S) \cup forwarded
      BY <1>2, <3>1, <3>3, ForwardedChunks
    <3>5. t \in copied(S) => age'[t] = settled(t)
      BY <1>1, <1>2, <2>1, ForwardAges
    <3>6. t \in forwarded /\ t \notin copied(S) => age'[t] = settled(t)
      BY <1>1, <1>2, <2>1, <3>1, ForwardAges, SettledAges
    <3>. QED
      BY <2>1, <2>2, <3>4, <3>5, <3>6
  <2>4. CASE t \notin fromspace
    <3>1. t \notin copied(S)
      BY <1>2, <2>4, ForwardedChunks
    <3>. QED
      BY <1>1, <1>2, <2>1, <2>2, <2>4, <3>1, ForwardAges, SettledAges
  <2>. QED
    BY <2>3, <2>4
<1>7. /\ min_age' \in [Age -> [Card -> 1 .. CLEAN_CARD]]
      /\ \A a \in Age, k \in Card : min_age'[a][k] <= min_age[a][k]
      /\ \A c \in T : age[c] \in Age => min_age'[age[c]][card[c]] <= age'[field[c]]
  BY <1>1, <1>3, <1>6, NoteAges
<1>8. TypeOK'
  BY <1>1, <1>2, <1>5, <1>7, ForwardTypes DEF AInv, TypeOK
<1>9. HeapOK'
  BY <1>1, <1>2, ForwardHeap
<1>10. PhaseOK'
  BY <1>1, <1>2, <1>5, ForwardPhase DEF Quiet
<1>11. ASSUME NEW s \in Chunk \ fromspace, field[s] \in fromspace
       PROVE  s \in S
  <2>1. field[s] # NIL /\ kind[s] = "rw"
    BY <1>11, ConstantsAssumption DEF AInv, TypeOK, HeapOK, ChunksOK, PointsToHeap
  <2>2. age[s] \in Age /\ min_age[age[s]][card[s]] \in 1 .. CLEAN_CARD
    <3>1. age[s] > clean
      BY <1>1, <2>1 DEF AInv, PhaseOK, Quiet, InHeap
    <3>2. age[s] \in Age
      BY <1>1, <3>1, ConstantsAssumption DEF AInv, TypeOK, Age
    <3>. QED
      BY <3>2 DEF AInv, TypeOK
  <2>3. s \in heap_changelog
    BY <1>1, <1>11, <2>1, <2>2 DEF AInv, CardsOK, CLEAN_CARD
  <2>. QED
    BY <1>11, <2>1, <2>3 DEF S, entries
<1>12. SlotsOK'
  <2>1. ASSUME NEW s \in Slot, field[s] \in fromspace
        PROVE  Visited(s)' <=> Visited(s) \/ s \in S
    <3>1. field[s] # NIL
      BY <2>1, ConstantsAssumption DEF AInv, TypeOK
    <3>2. s \in forwarded' \ (unswept' \cup weakrefs')
            <=> s \in forwarded \ (unswept' \cup weakrefs)
      BY <1>1, <1>2, <1>5, <3>1, SweptStays
    <3>3. s \in forwarded => s \notin copied(S)
      BY <1>2, ForwardedChunks
    <3>. QED
      BY <1>1, <1>2, <1>11, <2>1, <3>2, <3>3, ForwardTypes DEF Visited
  <2>2. S \cap weakrefs = {}
    BY <1>2 DEF AInv, SlotsOK, TypeOK
  <2>. QED
    BY <1>1, <1>2, <2>1, <2>2, ForwardSlots
<1>13. CardsOK'
  <2>. SUFFICES ASSUME NEW c \in Chunk, kind[c] = "rw", field[c] # NIL,
                       c \notin fromspace \/ c \in forwarded' \ unswept',
                       settled(field[c])' < age'[c]
                PROVE  min_age'[age'[c]][card'[c]] <= settled(field[c])'
    BY <1>1, <1>2, ForwardTypes DEF CardsOK
  <2>. DEFINE t == field[c]
  <2>1. /\ t \in Chunk /\ settled(t)' = settled(t) /\ InHeap(t)
        /\ c \notin copied(S) /\ age'[c] = age[c] /\ card'[c] = card[c]
    BY <1>1, <1>2, <1>5, ForwardCard
  <2>2. settled(t) >= 1 /\ settled(t) \in Nat
    BY <1>1, <2>1, SettledAges DEF Quiet
  <2>3. age[c] \in Age /\ card[c] \in Card
    BY <2>1, <2>2, ConstantsAssumption DEF AInv, TypeOK, Age
  <2>4. c \notin fromspace
    BY <1>1, <2>1, <2>2, <2>3 DEF AInv, PhaseOK, Age
  <2>5. CASE c \in heap_changelog
    BY <1>2, <1>4, <1>6, <1>7, <2>1, <2>2, <2>3, <2>4, <2>5
       DEF S, entries, Age
  <2>6. CASE c \notin heap_changelog
    <3>1. min_age[age[c]][card[c]] <= settled(t)
      BY <1>1, <2>1, <2>4, <2>6 DEF AInv, CardsOK
    <3>2. /\ min_age'[age[c]][card[c]] <= min_age[age[c]][card[c]]
          /\ min_age'[age[c]][card[c]] \in Nat /\ min_age[age[c]][card[c]] \in Nat
      BY <1>7, <2>3 DEF AInv, TypeOK, CLEAN_CARD
    <3>. QED
      BY <2>1, <2>2, <3>1, <3>2
  <2>. QED
    BY <2>5, <2>6
<1>14. FullOK'
  BY <1>1, <1>2, ForwardFull, ConstantsAssumption
<1>. QED
  BY <1>8, <1>9, <1>10, <1>12, <1>13, <1>14 DEF AInv

\* What the sweep of one copy does to types, heap, agegroups and slots.
LEMMA ScanCopy ==
    ASSUME AInv, NEW c \in Chunk, scan_copy(c), pc \in {"sweep0", "sweep"},
           min_age' \in [Age -> [Card -> 1 .. CLEAN_CARD]]
    PROVE  TypeOK' /\ HeapOK' /\ PhaseOK' /\ SlotsOK' /\ FullOK'
<1>. DEFINE S == words(c)
<1>1. /\ forward_chunks(S) /\ clean' = clean /\ pc' = pc
      /\ heap_changelog' = heap_changelog /\ heap_changelog = {}
      /\ unswept' = (unswept \ {c}) \cup copied(S)
      /\ c \in unswept /\ c \in forwarded /\ IsPlain(c)
  BY DEF scan_copy, AInv, SlotsOK, PhaseOK
<1>2. S \in SUBSET Slot /\ S \subseteq {c} /\ S \cap weakrefs = {}
      /\ (c \in S <=> c \notin weakrefs)
  BY DEF words, Slot
<1>. HIDE DEF S
<1>3. copied(S) \subseteq unswept' /\ copied(S) \subseteq Chunk /\ c \notin copied(S)
  BY <1>1, <1>2, ForwardedChunks
<1>4. TypeOK'
  BY <1>1, <1>2, <1>3, ForwardTypes DEF AInv, TypeOK
<1>5. HeapOK'
  BY <1>1, <1>2, ForwardHeap
<1>6. PhaseOK'
  BY <1>1, <1>2, <1>3, ForwardPhase DEF Quiet
<1>7. SlotsOK'
  <2>1. ASSUME NEW s \in Slot, field[s] \in fromspace
        PROVE  Visited(s)' <=> Visited(s) \/ s \in S
    <3>1. field[s] # NIL
      BY <2>1, ConstantsAssumption DEF AInv, TypeOK
    <3>2. s \in forwarded' \ (unswept' \cup weakrefs')
            <=> s \in forwarded \ (unswept' \cup weakrefs)
      BY <1>1, <1>2, <1>3, <3>1, SweptStays
    <3>3. s \in forwarded => s \notin copied(S)
      BY <1>2, ForwardedChunks
    <3>4. s \in forwarded \ (unswept' \cup weakrefs)
            <=> s \in forwarded \ (unswept \cup weakrefs) \/ s \in S
      BY <1>1, <1>2, <3>3
    <3>. QED
      BY <1>1, <1>2, <3>2, <3>4, ForwardTypes DEF Visited
  <2>. QED
    BY <1>1, <1>2, <2>1, ForwardSlots
<1>8. FullOK'
  <2>1. ASSUME clean = ACTIVE_AGEGROUPS, c \in S, SIBID_IS_IN_FROMSPACE(c)
        PROVE  field[c] \in Reachable \cup forwarded
    <3>1. field[c] # NIL /\ c \in Reachable
      BY <1>1, <2>1 DEF SIBID_IS_IN_FROMSPACE, AInv, FullOK
    <3>2. CASE kind[c] # "weak"
      BY <3>1, <3>2, ReachableIsLeast DEF AInv, Closed
    <3>3. CASE kind[c] = "weak"
      <4>1. IsPlain(field[c])
        BY <3>1, <3>3 DEF AInv, HeapOK, ChunksOK, PointsToHeap
      <4>2. field[c] \in fromspace
        BY <2>1, <4>1 DEF SIBID_IS_IN_FROMSPACE, IsPlain, AInv, SlotsOK
      <4>. QED
        BY <1>1, <1>2, <2>1, <3>3, <4>2 DEF AInv, SlotsOK
    <3>. QED
      BY <3>2, <3>3
  <2>. QED
    BY <1>1, <1>2, <2>1, ForwardFull
<1>. QED
  BY <1>4, <1>5, <1>6, <1>7, <1>8

\* The sweep of a copy in agegroup 1.
LEMMA SweepAgegroup1 ==
    ASSUME AInv, NEW c \in Chunk, sweep_agegroup1_sib_tospace(c)
    PROVE  AInv'
<1>. DEFINE S == words(c)
<1>1. /\ pc = "sweep0" /\ pc' = pc /\ scan_copy(c) /\ min_age' = min_age
      /\ forward_chunks(S) /\ clean' = clean /\ clean = 0
      /\ unswept' = (unswept \ {c}) \cup copied(S)
      /\ heap_changelog' = heap_changelog
  BY DEF sweep_agegroup1_sib_tospace, scan_copy, AInv, PhaseOK
<1>2. S \in SUBSET Slot
  BY DEF words, Slot
<1>. HIDE DEF S
<1>3. TypeOK' /\ HeapOK' /\ PhaseOK' /\ SlotsOK' /\ FullOK'
  BY <1>1, ScanCopy DEF AInv, TypeOK
<1>4. CardsOK'
  <2>. SUFFICES ASSUME NEW d \in Chunk, kind[d] = "rw", field[d] # NIL,
                       d \notin fromspace \/ d \in forwarded' \ unswept',
                       settled(field[d])' < age'[d]
                PROVE  min_age[age'[d]][card'[d]] <= settled(field[d])'
    BY <1>1, <1>2, ForwardTypes DEF CardsOK
  <2>. DEFINE t == field[d]
  <2>1. /\ t \in Chunk /\ settled(t)' = settled(t) /\ InHeap(t)
        /\ d \notin copied(S) /\ age'[d] = age[d] /\ card'[d] = card[d]
        /\ (d \in forwarded' <=> d \in forwarded)
    BY <1>1, <1>2, ForwardCard
  <2>2. settled(t) >= 1 /\ settled(t) \in Nat
    BY <1>1, <2>1, SettledAges DEF Quiet
  <2>3. d \notin fromspace
    BY <1>1, <2>1, <2>2 DEF AInv, PhaseOK, TypeOK
  <2>. QED
    BY <1>1, <2>1, <2>3 DEF AInv, CardsOK
<1>. QED
  BY <1>3, <1>4 DEF AInv

\* The age that a visit of slot d by heapclean_n_agegroups reports.
LEMMA TargetAges ==
    ASSUME AInv, NEW S \in SUBSET Slot, forward_chunks(S), clean' = clean,
           pc \in {"roots", "cards", "sweep"},
           NEW d \in S, SIBID_IS_IN_FROMSPACE(d)
    PROVE  /\ field[d] \in Chunk /\ InHeap(field[d])
           /\ age'[field[d]] \in 1 .. ACTIVE_AGEGROUPS
           /\ age'[field[d]] <= settled(field[d])
           /\ kind[field[d]] # "code" => age'[field[d]] <= clean + 1
<1>. DEFINE t == field[d]
<1>1. t \in Chunk /\ t # NIL
  BY DEF SIBID_IS_IN_FROMSPACE, AInv, TypeOK
<1>2. IsPlain(t) => t \in fromspace
  BY DEF SIBID_IS_IN_FROMSPACE, AInv, SlotsOK, IsPlain
<1>3. InHeap(t)
  BY <1>1, <1>2 DEF AInv, PhaseOK, IsPlain, InHeap
<1>4. settled(t) \in 1 .. ACTIVE_AGEGROUPS
  BY <1>1, <1>3, SettledAges DEF Quiet
<1>5. CASE IsPlain(t)
  <2>1. t \in copied(S) \cup forwarded
    BY <1>5, ForwardedChunks
  <2>2. age'[t] = settled(t) /\ settled(t) <= clean + 1
    BY <1>1, <1>2, <1>3, <1>5, <2>1, ForwardAges, SettledAges
  <2>. QED
    BY <1>1, <1>3, <1>4, <2>2
<1>6. CASE ~IsPlain(t)
  <2>1. kind[t] = "code" /\ t \notin copied(S)
    BY <1>1, <1>6, ForwardedChunks DEF IsPlain
  <2>2. age'[t] = age[t] /\ age[t] <= settled(t) /\ age[t] \in 0 .. ACTIVE_AGEGROUPS
    BY <1>1, <1>3, <2>1, ForwardAges, SettledAges DEF AInv, TypeOK
  <2>3. age[t] >= 1
    BY <1>1, <1>3 DEF AInv, PhaseOK
  <2>. QED
    BY <1>1, <1>3, <2>1, <2>2, <2>3
<1>. QED
  BY <1>5, <1>6

\* The sweep of a copy in one of the agegroups being cleaned or the next one:
\* it marks the card of a refcell that refers to a younger chunk.
LEMMA ForwardRest ==
    ASSUME AInv, NEW c \in Chunk, forward_rest(c)
    PROVE  AInv'
<1>. DEFINE S == words(c)
            T == to_note(c)
<1>1. /\ pc = "sweep" /\ pc' = pc /\ scan_copy(c) /\ min_age' = note_ages(T)
      /\ forward_chunks(S) /\ clean' = clean
      /\ unswept' = (unswept \ {c}) \cup copied(S)
      /\ heap_changelog' = heap_changelog
      /\ c \in unswept /\ c \in forwarded /\ IsPlain(c)
  BY DEF forward_rest, scan_copy, AInv, SlotsOK
<1>2. /\ S \in SUBSET Slot /\ T \in SUBSET Chunk
      /\ \A d \in T : d \in S /\ d = c /\ SIBID_IS_IN_FROMSPACE(d)
      /\ c \in S => /\ c \notin weakrefs
                    /\ InRwSib(c) /\ SIBID_IS_IN_FROMSPACE(c)
                         /\ age'[field[c]] < age[c] => c \in T
  BY DEF words, Slot, to_note, target_age
<1>3. kind[c] = "rw" => c \in S /\ InRwSib(c)
  BY DEF words, AInv, SlotsOK, InRwSib
<1>. HIDE DEF S, T
<1>4. \A d \in S : SIBID_IS_IN_FROMSPACE(d) =>
         /\ field[d] \in Chunk
         /\ age'[field[d]] \in 1 .. ACTIVE_AGEGROUPS
         /\ age'[field[d]] <= settled(field[d])
  BY <1>1, <1>2, TargetAges
<1>5. /\ min_age' \in [Age -> [Card -> 1 .. CLEAN_CARD]]
      /\ \A a \in Age, k \in Card : min_age'[a][k] <= min_age[a][k]
      /\ \A d \in T : age[d] \in Age => min_age'[age[d]][card[d]] <= age'[field[d]]
  BY <1>1, <1>2, <1>4, NoteAges
<1>6. TypeOK' /\ HeapOK' /\ PhaseOK' /\ SlotsOK' /\ FullOK'
  BY <1>1, <1>5, ScanCopy
<1>7. CardsOK'
  <2>. SUFFICES ASSUME NEW d \in Chunk, kind[d] = "rw", field[d] # NIL,
                       d \notin fromspace \/ d \in forwarded' \ unswept',
                       settled(field[d])' < age'[d]
                PROVE  min_age'[age'[d]][card'[d]] <= settled(field[d])'
    BY <1>1, <1>2, ForwardTypes DEF CardsOK
  <2>. DEFINE t == field[d]
  <2>1. /\ t \in Chunk /\ settled(t)' = settled(t) /\ InHeap(t)
        /\ d \notin copied(S) /\ age'[d] = age[d] /\ card'[d] = card[d]
        /\ (d \in forwarded' <=> d \in forwarded)
    BY <1>1, <1>2, ForwardCard
  <2>2. settled(t) \in 1 .. ACTIVE_AGEGROUPS
    BY <1>1, <2>1, SettledAges DEF Quiet
  <2>3. age[d] \in Age /\ card[d] \in Card
    BY <2>1, <2>2, ConstantsAssumption DEF AInv, TypeOK, Age
  <2>4. /\ min_age'[age[d]][card[d]] <= min_age[age[d]][card[d]]
        /\ min_age'[age[d]][card[d]] \in Nat /\ min_age[age[d]][card[d]] \in Nat
    BY <1>5, <2>3 DEF AInv, TypeOK, CLEAN_CARD
  <2>5. CASE d \notin fromspace \/ d \notin unswept
    <3>1. min_age[age[d]][card[d]] <= settled(t)
      BY <1>1, <2>1, <2>5 DEF AInv, CardsOK
    <3>. QED
      BY <2>1, <2>2, <2>4, <3>1
  <2>6. CASE d \in fromspace /\ d \in unswept
    <3>1. d = c /\ c \in S /\ InRwSib(c)
      BY <1>1, <1>3, <2>6
    <3>2. age[c] <= clean + 1 /\ clean \in Nat /\ age[c] \in Nat
      BY <2>6, <3>1 DEF AInv, PhaseOK, TypeOK
    <3>3. t \in fromspace
      BY <1>1, <2>1, <2>2, <3>1, <3>2, SettledAges DEF AInv, PhaseOK, Quiet, TypeOK
    <3>4. ~Visited(c)
      BY <1>1, <2>6, <3>1, ConstantsAssumption DEF Visited
    <3>5. IsPlain(t) => c \in stale
      BY <3>1, <3>3, <3>4 DEF AInv, SlotsOK, Slot
    <3>6. SIBID_IS_IN_FROMSPACE(c)
      BY <1>1, <1>2, <3>1, <3>3, <3>5, VisitForwards
    <3>7. c \in T
      BY <1>2, <1>4, <2>1, <2>2, <3>1, <3>2, <3>6
    <3>. QED
      BY <1>4, <1>5, <2>1, <2>2, <2>3, <2>4, <3>1, <3>6, <3>7
  <2>. QED
    BY <2>5, <2>6
<1>. QED
  BY <1>6, <1>7 DEF AInv

\* The dirty cards of the agegroups that are not cleaned: they hold every
\* pointer from there into the from-space.
LEMMA ScanCards ==
    ASSUME CardsSuffice, AInv, forward_all_chunks_referenced_by_uncleaned_agegroups
    PROVE  AInv'
<1>. DEFINE S == on_dirty_cards
<1>1. /\ forward_chunks(S) /\ clean' = clean /\ heap_changelog' = heap_changelog
      /\ unswept' = unswept \cup copied(S)
      /\ pc = "cards" /\ pc' = "sweep" /\ clean > 0 /\ heap_changelog = {}
      /\ min_age' = [a \in Age |-> [k \in Card |->
                        IF dirty(a, k) THEN re_mark(a, k) ELSE min_age[a][k]]]
  BY DEF forward_all_chunks_referenced_by_uncleaned_agegroups, AInv, PhaseOK, TypeOK
<1>2. /\ S \in SUBSET Slot
      /\ \A a \in Age, k \in Card : dirty(a, k) => on_card(a, k) \subseteq S
      /\ \A c \in S : c \in Chunk /\ InRwSib(c) /\ age[c] > clean /\ c \notin unswept
  BY DEF on_dirty_cards, on_card, dirty, Slot
<1>3. /\ ACTIVE_AGEGROUPS \in Nat /\ CODECHUNK_ALLOCATION_AGEGROUP \in Nat
      /\ clean \in Nat /\ min_age \in [Age -> [Card -> 1 .. CLEAN_CARD]]
      /\ CLEAN_CARD = ACTIVE_AGEGROUPS + 1 /\ age \in [Chunk -> 0 .. ACTIVE_AGEGROUPS]
      /\ card \in [Chunk -> Card]
  BY ConstantsAssumption DEF AInv, TypeOK, CLEAN_CARD
<1>. HIDE DEF S
<1>4. copied(S) \subseteq unswept' /\ copied(S) \subseteq Chunk
  BY <1>1, <1>2, ForwardedChunks
<1>5. S \cap fromspace = {}
  <2>. SUFFICES ASSUME NEW c \in S, c \in fromspace PROVE FALSE
    OBVIOUS
  <2>1. IsPlain(c) /\ age[c] > clean /\ c \notin unswept /\ age[c] \in Nat
    BY <1>2, <1>3, ConstantsAssumption DEF InRwSib, IsPlain
  <2>2. c \in forwarded
    BY <1>3, <2>1 DEF AInv, PhaseOK
  <2>. QED
    BY <1>1, <2>1, <2>2 DEF AInv, PhaseOK
<1>6. ASSUME NEW c \in Chunk \ fromspace, InHeap(c)
      PROVE  age[c] \in Age /\ age[c] > clean /\ c \notin unswept
  BY <1>1, <1>3, <1>6 DEF AInv, PhaseOK, SlotsOK, TypeOK, Quiet, Age
<1>7. ASSUME NEW c \in Chunk \ fromspace, field[c] \in fromspace
      PROVE  c \in S
  <2>1. field[c] # NIL /\ kind[c] = "rw" /\ InHeap(c) /\ InRwSib(c)
    BY <1>7, ConstantsAssumption DEF AInv, TypeOK, HeapOK, ChunksOK, PointsToHeap, InHeap, InRwSib
  <2>2. min_age[age[c]][card[c]] <= clean
    BY <1>1, <1>7, <2>1 DEF AInv, CardsOK
  <2>3. c \in on_card(age[c], card[c]) /\ dirty(age[c], card[c])
    BY <1>6, <2>1, <2>2 DEF on_card, dirty
  <2>. QED
    BY <1>2, <1>3, <1>6, <2>1, <2>3
<1>8. \A d \in S : SIBID_IS_IN_FROMSPACE(d) =>
         /\ field[d] \in Chunk
         /\ age'[field[d]] \in 1 .. ACTIVE_AGEGROUPS
         /\ age'[field[d]] <= settled(field[d])
         /\ kind[field[d]] # "code" => age'[field[d]] <= clean + 1
  BY <1>1, <1>2, TargetAges
<1>. DEFINE M(a, k) == {a} \cup {target_age(c) :
                c \in {d \in on_card(a, k) : SIBID_IS_IN_FROMSPACE(d)}}
<1>9. ASSUME NEW a \in Age, NEW k \in Card, dirty(a, k)
      PROVE  /\ Youngest(M(a, k)) \in M(a, k)
             /\ \A b \in M(a, k) : Youngest(M(a, k)) <= b
             /\ Youngest(M(a, k)) \in 1 .. ACTIVE_AGEGROUPS
             /\ re_mark(a, k) = IF Youngest(M(a, k)) < a THEN Youngest(M(a, k))
                                ELSE IF a = clean + 1 THEN CLEAN_CARD ELSE min_age[a][k]
  <2>1. M(a, k) \in SUBSET (1 .. ACTIVE_AGEGROUPS) /\ M(a, k) # {}
    BY <1>2, <1>3, <1>8, <1>9 DEF target_age, Age
  <2>2. re_mark(a, k) = IF Youngest(M(a, k)) < a THEN Youngest(M(a, k))
                        ELSE IF a = clean + 1 THEN CLEAN_CARD ELSE min_age[a][k]
    BY DEF re_mark
  <2>. HIDE DEF M
  <2>3. M(a, k) \in SUBSET Nat
    BY <2>1
  <2>. QED
    BY <2>1, <2>2, <2>3, YoungestIs
<1>10. min_age' \in [Age -> [Card -> 1 .. CLEAN_CARD]]
  <2>1. ASSUME NEW a \in Age, NEW k \in Card, dirty(a, k)
        PROVE  re_mark(a, k) \in 1 .. CLEAN_CARD
    <3>. HIDE DEF M
    <3>. QED
      BY <1>3, <1>9, <2>1
  <2>. QED
    BY <1>1, <1>3, <2>1
<1>11. TypeOK'
  BY <1>1, <1>2, <1>4, <1>10, ForwardTypes DEF AInv, TypeOK
<1>12. HeapOK'
  BY <1>1, <1>2, ForwardHeap
<1>13. PhaseOK'
  BY <1>1, <1>2, <1>4, ForwardPhase DEF Quiet
<1>14. SlotsOK'
  <2>1. ASSUME NEW s \in Slot, field[s] \in fromspace
        PROVE  Visited(s)' <=> Visited(s) \/ s \in S
    <3>1. field[s] # NIL
      BY <2>1, ConstantsAssumption DEF AInv, TypeOK
    <3>2. s \in forwarded' \ (unswept' \cup weakrefs')
            <=> s \in forwarded \ (unswept' \cup weakrefs)
      BY <1>1, <1>2, <1>4, <3>1, SweptStays
    <3>3. s \in forwarded => s \notin copied(S)
      BY <1>2, ForwardedChunks
    <3>. QED
      BY <1>1, <1>2, <1>5, <1>7, <2>1, <3>2, <3>3, ForwardTypes DEF Visited
  <2>2. S \cap weakrefs = {}
    BY <1>5 DEF AInv, SlotsOK, TypeOK
  <2>. QED
    BY <1>1, <1>2, <2>1, <2>2, ForwardSlots
<1>15. CardsOK'
  <2>1. ASSUME NEW c \in Chunk, kind[c] = "rw", c \in forwarded' \ unswept'
        PROVE  FALSE
    <3>1. c \in forwarded /\ IsPlain(c)
      BY <1>1, <1>2, <2>1, ForwardedChunks, ConstantsAssumption
         DEF forward_chunks, IsPlain
    <3>. QED
      BY <1>1, <2>1, <3>1 DEF AInv, PhaseOK
  <2>2. SUFFICES ASSUME NEW c \in Chunk, kind[c] = "rw", field[c] # NIL,
                        c \notin fromspace, settled(field[c])' < age'[c]
                 PROVE  min_age'[age'[c]][card'[c]] <= settled(field[c])'
    BY <1>1, <1>2, <2>1, ForwardTypes DEF CardsOK
  <2>. DEFINE t == field[c]
              a == age[c]
              k == card[c]
  <2>3. /\ t \in Chunk /\ settled(t)' = settled(t) /\ InHeap(t) /\ InHeap(c)
        /\ age'[c] = a /\ card'[c] = k
    BY <1>1, <1>2, <1>4, <2>2, ForwardCard
  <2>4. a \in Age /\ a > clean /\ k \in Card /\ c \notin unswept
    BY <1>3, <1>6, <2>2, <2>3
  <2>5. settled(t) \in Nat /\ settled(t) < a
    BY <2>2, <2>3, SettledAges
  <2>6. min_age[a][k] <= settled(t)
    BY <1>1, <2>2, <2>5 DEF AInv, CardsOK
  <2>7. min_age'[a][k] = IF dirty(a, k) THEN re_mark(a, k) ELSE min_age[a][k]
    BY <1>1, <2>4
  <2>8. SUFFICES ASSUME dirty(a, k) PROVE re_mark(a, k) <= settled(t)
    BY <2>3, <2>6, <2>7
  <2>9. c \in on_card(a, k) /\ c \in S
    BY <1>2, <2>2, <2>4, <2>8 DEF on_card, InRwSib
  <2>. DEFINE m == Youngest(M(a, k))
  <2>10. /\ m \in M(a, k) /\ m \in Nat /\ a \in Nat
         /\ \A b \in M(a, k) : m <= b
         /\ re_mark(a, k) = IF m < a THEN m
                            ELSE IF a = clean + 1 THEN CLEAN_CARD ELSE min_age[a][k]
    <3>. HIDE DEF M
    <3>. QED
      BY <1>9, <2>4, <2>8 DEF Age
  <2>11. CASE SIBID_IS_IN_FROMSPACE(c)
    <3>1. age'[t] \in M(a, k)
      BY <2>9, <2>11 DEF target_age
    <3>. HIDE DEF M, m
    <3>. QED
      BY <1>8, <2>5, <2>9, <2>10, <2>11, <3>1
  <2>12. CASE ~SIBID_IS_IN_FROMSPACE(c)
    <3>1. t \notin fromspace
      <4>1. ~Visited(c)
        BY <1>1, <2>2, ConstantsAssumption DEF Visited, AInv, TypeOK
      <4>2. t \in fromspace /\ IsPlain(t) => c \in stale
        BY <4>1 DEF AInv, SlotsOK, Slot
      <4>. QED
        BY <1>1, <1>2, <2>9, <2>12, <4>2, VisitForwards
    <3>2. settled(t) = age[t] /\ age[t] > clean
      BY <1>6, <2>3, <3>1, SettledAges
    <3>3. CASE ~(m < a)
      <4>. HIDE DEF m, M
      <4>. QED
        BY <1>3, <2>5, <2>6, <2>10, <3>2, <3>3
    <3>4. CASE m < a
      <4>1. PICK d \in on_card(a, k) : SIBID_IS_IN_FROMSPACE(d) /\ m = age'[field[d]]
        <5>1. m # a
          <6>. HIDE DEF m
          <6>. QED BY <2>10, <3>4
        <5>. QED
          BY <2>10, <5>1 DEF target_age
      <4>. HIDE DEF m, M
      <4>2. d \in S /\ d \in Chunk /\ InRwSib(d)
        BY <1>2, <2>4, <2>8 DEF on_card
      <4>3. CASE kind[field[d]] # "code"
        BY <1>3, <1>8, <2>5, <2>10, <3>2, <3>4, <4>1, <4>2, <4>3
      <4>4. CASE kind[field[d]] = "code"
        <5>1. field[d] # NIL /\ QuireIsYoung
          BY <4>1, <4>4 DEF SIBID_IS_IN_FROMSPACE
        <5>2. RwHoldsCode
          BY <4>2, <4>4, <5>1 DEF AInv, HeapOK, ChunksOK, PointsToHeap, InRwSib, IsPlain
        <5>3. PICK x \in Chunk : kind[x] = "code" /\ age[x] <= clean
          BY <5>1 DEF QuireIsYoung
        <5>4. age[x] >= Lower(ACTIVE_AGEGROUPS, CODECHUNK_ALLOCATION_AGEGROUP)
          BY <5>3 DEF AInv, HeapOK, ChunksOK, PointsToHeap
        <5>5. clean >= CODECHUNK_ALLOCATION_AGEGROUP
          BY <1>3, <2>4, <5>3, <5>4 DEF Lower, Age
        <5>6. a <= clean + 2
          BY <1>3, <2>4, <5>2, <5>5 DEF CardsSuffice, Age
        <5>. QED
          BY <1>3, <2>5, <2>10, <3>2, <3>4, <5>6
      <4>. QED
        BY <4>3, <4>4
    <3>. QED
      BY <3>3, <3>4
  <2>. QED
    BY <2>11, <2>12
<1>16. FullOK'
  <2>1. clean = ACTIVE_AGEGROUPS => S = {}
    BY <1>2, <1>3
  <2>. QED
    BY <1>1, <1>2, <2>1, ForwardFull
<1>. QED
  BY <1>11, <1>12, <1>13, <1>14, <1>15, <1>16 DEF AInv

-----------------------------------------------------------------------------
(* Between cleanings *)

\* t is in an older agegroup than c, or as senior in the same.
NotYounger(c, t) ==
    age[c] < age[t] \/ (age[c] = age[t] /\ (c \in senior => t \in senior))

\* No cleaning is under way; one that goes on to older agegroups has emptied
\* agegroup 0.
NoCleaning ==
    /\ Quiet /\ clean = 0 /\ fromspace = {} /\ forwarded = {} /\ unswept = {}
    /\ weakrefs = {} /\ stale = {}
    /\ pc = "prepare" => /\ heap_changelog = {}
                         /\ \A c \in Chunk : InHeap(c) => age[c] >= 1

PointersOK ==
    \A c \in Chunk : field[c] # NIL =>
        /\ kind[c] # "rw" => NotYounger(c, field[c])
        /\ kind[c] = "rw" /\ age[field[c]] < age[c] =>
             c \in heap_changelog \/ min_age[age[c]][card[c]] <= age[field[c]]

\* What the invariant says between cleanings.
QuietOK == TypeOK /\ NoCleaning /\ PointsToHeap /\ ChunksOK /\ PointersOK

\* It says the same.
LEMMA QuietInvariant == QuietOK <=> AInv /\ Quiet
<1>1. ASSUME AInv, Quiet PROVE QuietOK
  <2>1. NoCleaning
    BY <1>1 DEF AInv, PhaseOK, Quiet, NoCleaning
  <2>2. ASSUME NEW c \in Chunk, field[c] # NIL
        PROVE  /\ kind[c] # "rw" => NotYounger(c, field[c])
               /\ kind[c] = "rw" /\ age[field[c]] < age[c] =>
                    \/ c \in heap_changelog
                    \/ min_age[age[c]][card[c]] <= age[field[c]]
    <3>1. field[c] \in Chunk /\ age[c] \in Nat
      BY <1>1, <2>2 DEF AInv, TypeOK, Slot
    <3>2. /\ settled(c) = age[c] /\ settled(field[c]) = age[field[c]]
          /\ will_be_senior(c) <=> age[c] = 0 \/ c \in senior
          /\ will_be_senior(field[c]) <=> age[field[c]] = 0 \/ field[c] \in senior
      BY <1>1, <2>2, <3>1, QuietSettled
    <3>3. c \in senior => age[c] >= 1
      BY <1>1 DEF AInv, HeapOK, ChunksOK
    <3>. QED
      BY <1>1, <2>1, <2>2, <3>1, <3>2, <3>3 DEF AInv, HeapOK, CardsOK,
         Ordered, NotYounger, Quiet, NoCleaning
  <2>. QED
    BY <1>1, <2>1, <2>2 DEF QuietOK, PointersOK, AInv, HeapOK
<1>2. ASSUME QuietOK PROVE AInv /\ Quiet
  <2>1. /\ TypeOK /\ Quiet /\ clean = 0 /\ fromspace = {} /\ forwarded = {}
        /\ unswept = {} /\ weakrefs = {} /\ stale = {}
    BY <1>2 DEF QuietOK, NoCleaning
  <2>2. \A x \in Chunk : /\ settled(x) = age[x]
                         /\ will_be_senior(x) <=> age[x] = 0 \/ x \in senior
    BY <2>1, ConstantsAssumption DEF settled, will_be_senior, TypeOK
  <2>3. ASSUME NEW c \in Chunk, field[c] # NIL
        PROVE  /\ field[c] \in Chunk
               /\ kind[c] # "rw" => Ordered(c, field[c])
    <3>1. field[c] \in Chunk /\ age[c] \in Nat
      BY <2>1, <2>3 DEF TypeOK, Slot
    <3>2. c \in senior => age[c] >= 1
      BY <1>2 DEF QuietOK, ChunksOK
    <3>. QED
      BY <1>2, <2>2, <2>3, <3>1, <3>2 DEF QuietOK, PointersOK, NotYounger, Ordered
  <2>4. HeapOK
    BY <1>2, <2>1, <2>3 DEF QuietOK, HeapOK
  <2>5. PhaseOK
    BY <1>2, <2>1 DEF QuietOK, NoCleaning, PhaseOK, Quiet
  <2>6. SlotsOK
    BY <2>1 DEF SlotsOK
  <2>7. CardsOK
    BY <1>2, <2>1, <2>2, <2>3 DEF QuietOK, PointersOK, CardsOK, Quiet
  <2>8. FullOK
    BY <2>1, ConstantsAssumption DEF FullOK
  <2>. QED
    BY <2>1, <2>4, <2>5, <2>6, <2>7, <2>8 DEF AInv
<1>. QED
  BY <1>1, <1>2

\* The empty heap.
LEMMA InitAInv == Init => AInv
<1>. SUFFICES ASSUME Init PROVE QuietOK
  BY QuietInvariant
<1>1. min_age \in [Age -> [Card -> 1 .. CLEAN_CARD]]
  BY ConstantsAssumption DEF Init, CLEAN_CARD
<1>2. TypeOK
  BY <1>1, ConstantsAssumption DEF Init, TypeOK
<1>3. \A c \in Chunk : field[c] = NIL /\ kind[c] = "free" /\ age[c] = 0 /\ c \notin senior
  BY DEF Init, Slot
<1>4. \A s \in Slot : field[s] = NIL
  BY DEF Init
<1>. QED
  BY <1>2, <1>3, <1>4 DEF Init, QuietOK, NoCleaning, PointsToHeap, ChunksOK, PointersOK, Quiet

-----------------------------------------------------------------------------
(* User code *)

\* A new chunk refers to nothing younger, and only a register refers to it.
LEMMA AllocateChunk ==
    ASSUME AInv, NEW c \in Chunk, NEW r \in Register,
           NEW k \in {"ro", "rw", "weak", "code"}, NEW v \in Values,
           NEW a \in 0 .. ACTIVE_AGEGROUPS,
           NewChunk(c, r, k, v, a), MayHold(k, v), card' \in [Chunk -> Card],
           \A d \in Chunk : d = c \/ card'[d] = card[d],
           v # NIL => age[v] >= a,
           k = "code" => v = NIL /\
               a = Lower(ACTIVE_AGEGROUPS, CODECHUNK_ALLOCATION_AGEGROUP)
    PROVE  AInv'
<1>1. /\ pc = "run" /\ kind[c] = "free"
      /\ kind' = [kind EXCEPT ![c] = k]
      /\ field' = [field EXCEPT ![c] = v, ![r] = c]
      /\ age' = [age EXCEPT ![c] = a]
      /\ UNCHANGED <<senior, min_age, heap_changelog, pc, clean, fromspace,
                     forwarded, unswept, weakrefs, stale>>
  BY DEF NewChunk, cleaner
<1>2. QuietOK
  BY <1>1, QuietInvariant DEF Quiet
<1>3. TypeOK /\ NIL \notin Chunk /\ Chunk \cap Register = {} /\ ACTIVE_AGEGROUPS \in Nat
  BY <1>2, ConstantsAssumption DEF QuietOK
<1>4. v \in Chunk \cup {NIL} /\ (v # NIL => InHeap(v) /\ v # c)
  <2>1. v # NIL => \E q \in Register : v = field[q]
    BY DEF Values
  <2>. QED
    BY <1>1, <1>2, <1>3, <2>1 DEF QuietOK, PointsToHeap, TypeOK, Slot, Exists, InHeap
<1>5. TypeOK'
  BY <1>1, <1>3, <1>4 DEF TypeOK, Slot
<1>6. /\ kind'[c] = k /\ field'[c] = v /\ age'[c] = a
      /\ field'[r] = c
      /\ \A d \in Chunk : d # c => kind'[d] = kind[d] /\ age'[d] = age[d]
      /\ \A s \in Slot : s # c /\ s # r => field'[s] = field[s]
      /\ c # r /\ c \notin senior /\ c \notin heap_changelog
  BY <1>1, <1>2, <1>3 DEF TypeOK, Slot, QuietOK, ChunksOK, InHeap
<1>7. \A s \in Slot : s # c /\ Exists(s) => field[s] # c
  BY <1>1, <1>2, <1>3 DEF QuietOK, PointsToHeap, InHeap
<1>8. PointsToHeap'
  BY <1>1, <1>2, <1>3, <1>4, <1>6 DEF QuietOK, PointsToHeap, Exists, InHeap, Slot, TypeOK
<1>9. ASSUME NEW d \in Chunk, d # c, field[d] # NIL
      PROVE  /\ field'[d] = field[d] /\ field[d] \in Chunk /\ field[d] # c
             /\ kind'[field[d]] = kind[field[d]] /\ age'[field[d]] = age[field[d]]
             /\ kind'[d] = kind[d] /\ age'[d] = age[d] /\ card'[d] = card[d]
  <2>1. field[d] \in Chunk /\ d # r /\ field[d] # c
    BY <1>2, <1>3, <1>7, <1>9 DEF TypeOK, Slot, QuietOK, ChunksOK, Exists, InHeap
  <2>. QED
    BY <1>6, <1>9, <2>1 DEF Slot
<1>10. \A d \in Chunk : d # c => field'[d] = field[d] /\ kind'[d] = kind[d] /\ age'[d] = age[d]
  BY <1>3, <1>6 DEF Slot
<1>11. v # NIL => kind'[v] = kind[v] /\ age'[v] = age[v] /\ age[v] \in Nat
  BY <1>3, <1>4, <1>6 DEF TypeOK
<1>12. ChunksOK'
  <2>1. ASSUME NEW d \in Chunk, d # c
        PROVE  (/\ kind[d] = "free" => field[d] = NIL /\ age[d] = 0
                /\ d \in senior => InHeap(d) /\ age[d] \in 1 .. ACTIVE_AGEGROUPS - 1
                /\ kind[d] = "code" =>
                     /\ field[d] = NIL
                     /\ age[d] >= Lower(ACTIVE_AGEGROUPS, CODECHUNK_ALLOCATION_AGEGROUP)
                /\ d \in heap_changelog => kind[d] = "rw"
                /\ field[d] # NIL /\ (kind[d] = "weak" \/ (kind[d] = "rw" /\ ~RwHoldsCode))
                     => IsPlain(field[d]))'
    <3>1. /\ field'[d] = field[d] /\ kind'[d] = kind[d] /\ age'[d] = age[d]
          /\ UNCHANGED <<senior, heap_changelog>>
          /\ field[d] # NIL => kind'[field[d]] = kind[field[d]]
      BY <1>1, <1>9, <1>10, <2>1
    <3>. QED
      BY <1>2, <3>1 DEF QuietOK, ChunksOK, InHeap, IsPlain
  <2>2. /\ kind'[c] # "free" /\ c \notin senior' /\ c \notin heap_changelog'
        /\ kind'[c] = "code" =>
             /\ field'[c] = NIL
             /\ age'[c] >= Lower(ACTIVE_AGEGROUPS, CODECHUNK_ALLOCATION_AGEGROUP)
        /\ field'[c] # NIL /\ (kind'[c] = "weak" \/ (kind'[c] = "rw" /\ ~RwHoldsCode))
             => IsPlain(field[c])'
    BY <1>1, <1>3, <1>6, <1>11, ConstantsAssumption DEF MayHold, IsPlain, Lower
  <2>. QED
    BY <2>1, <2>2 DEF ChunksOK
<1>13. PointersOK'
  <2>1. ASSUME NEW d \in Chunk, field'[d] # NIL, d # c
        PROVE  (/\ kind[d] # "rw" => NotYounger(d, field[d])
                /\ kind[d] = "rw" /\ age[field[d]] < age[d] =>
                     d \in heap_changelog \/ min_age[age[d]][card[d]] <= age[field[d]])'
    <3>1. field[d] # NIL
      BY <1>10, <2>1
    <3>2. /\ kind[d] # "rw" => NotYounger(d, field[d])
          /\ kind[d] = "rw" /\ age[field[d]] < age[d] =>
               \/ d \in heap_changelog
               \/ min_age[age[d]][card[d]] <= age[field[d]]
      BY <1>2, <3>1 DEF QuietOK, PointersOK
    <3>3. /\ field'[d] = field[d] /\ kind'[field[d]] = kind[field[d]]
          /\ age'[field[d]] = age[field[d]]
          /\ kind'[d] = kind[d] /\ age'[d] = age[d] /\ card'[d] = card[d]
          /\ UNCHANGED <<senior, min_age, heap_changelog>>
      BY <1>1, <1>9, <2>1, <3>1
    <3>. QED
      BY <3>2, <3>3 DEF NotYounger
  <2>2. field'[c] # NIL =>
          NotYounger(c, field[c])' /\ ~(age'[field'[c]] < age'[c])
    BY <1>1, <1>6, <1>11 DEF NotYounger
  <2>. QED
    BY <2>1, <2>2 DEF PointersOK
<1>14. NoCleaning'
  BY <1>1, <1>2 DEF QuietOK, NoCleaning, Quiet
<1>. QED
  <2>1. QuietOK'
    BY <1>5, <1>8, <1>12, <1>13, <1>14 DEF QuietOK
  <2>. QED
    BY <2>1, QuietInvariant, PTL

\* User code changes a field other than by making a chunk: a register or a
\* refcell gets a value that a register or a chunk in the heap held, and a
\* refcell that gets a pointer is logged.
LEMMA ChangeField ==
    ASSUME AInv, pc = "run", NEW s \in Slot, NEW v \in Chunk \cup {NIL},
           field' = [field EXCEPT ![s] = v], Exists(s), v # NIL => InHeap(v),
           s \in Chunk => kind[s] = "rw" /\ MayHold("rw", v),
           heap_changelog' = IF s \in Chunk /\ v # NIL THEN heap_changelog \cup {s}
                                                       ELSE heap_changelog,
           UNCHANGED <<kind, age, senior, card, min_age, pc, cleaner, stale>>
    PROVE  AInv'
<1>1. QuietOK
  BY QuietInvariant DEF Quiet
<1>2. TypeOK /\ NIL \notin Chunk
  BY <1>1, ConstantsAssumption DEF QuietOK
<1>3. TypeOK'
  BY <1>2 DEF TypeOK, cleaner
<1>4. field'[s] = v /\ \A x \in Slot : x # s => field'[x] = field[x]
  BY <1>2 DEF TypeOK
<1>5. PointsToHeap'
  BY <1>1, <1>4 DEF QuietOK, PointsToHeap, Exists, InHeap
<1>6. \A c \in Chunk : c # s => field'[c] = field[c]
  BY <1>4 DEF Slot
<1>7. ASSUME NEW c \in Chunk
      PROVE  (/\ kind[c] = "free" => field[c] = NIL /\ age[c] = 0
              /\ c \in senior => InHeap(c) /\ age[c] \in 1 .. ACTIVE_AGEGROUPS - 1
              /\ kind[c] = "code" =>
                   /\ field[c] = NIL
                   /\ age[c] >= Lower(ACTIVE_AGEGROUPS, CODECHUNK_ALLOCATION_AGEGROUP)
              /\ c \in heap_changelog => kind[c] = "rw"
              /\ field[c] # NIL /\ (kind[c] = "weak" \/ (kind[c] = "rw" /\ ~RwHoldsCode))
                   => IsPlain(field[c]))'
  <2>1. c # s => field'[c] = field[c] /\ (c \in heap_changelog' => c \in heap_changelog)
    BY <1>6
  <2>2. kind' = kind /\ age' = age /\ senior' = senior
    OBVIOUS
  <2>. QED
    BY <1>1, <1>4, <2>1, <2>2 DEF QuietOK, ChunksOK, MayHold, IsPlain, InHeap
<1>8. ASSUME NEW c \in Chunk, field'[c] # NIL
      PROVE  (/\ kind[c] # "rw" => NotYounger(c, field[c])
              /\ kind[c] = "rw" /\ age[field[c]] < age[c] =>
                   c \in heap_changelog \/ min_age[age[c]][card[c]] <= age[field[c]])'
  <2>1. /\ c # s => field'[c] = field[c]
        /\ c \in heap_changelog => c \in heap_changelog'
        /\ c = s => kind[c] = "rw" /\ c \in heap_changelog'
    BY <1>4, <1>6, <1>8
  <2>2. UNCHANGED <<kind, age, senior, min_age, card>>
    OBVIOUS
  <2>. QED
    BY <1>1, <1>8, <2>1, <2>2 DEF QuietOK, PointersOK, NotYounger
<1>9. NoCleaning'
  BY <1>1 DEF QuietOK, NoCleaning, Quiet, cleaner
<1>10. QuietOK'
  BY <1>3, <1>5, <1>7, <1>8, <1>9 DEF QuietOK, ChunksOK, PointersOK
<1>. QED
  BY <1>10, QuietInvariant, PTL

\* The steps of user code.
LEMMA UserCode ==
    ASSUME AInv
    PROVE  /\ \A c \in Chunk, r \in Register :
                 \/ commit_nascent_heapchunk(c, r)
                 \/ make_large_vector(c, r)
                 \/ allocate_nonempty_code_chunk(c, r)
                 => AInv'
           /\ \A q \in Register : store(q) \/ drop(q) => AInv'
           /\ \A q, r \in Register : fetch(q, r) => AInv'
<1>1. /\ TypeOK /\ NIL \notin Chunk /\ NIL \in Values /\ Chunk \cap Register = {}
      /\ ACTIVE_AGEGROUPS \in Nat \ {0} /\ CODECHUNK_ALLOCATION_AGEGROUP \in Nat \ {0}
  BY ConstantsAssumption DEF AInv, Values
<1>2. ASSUME NEW v \in Values
      PROVE  v \in Chunk \cup {NIL} /\ (v # NIL => InHeap(v) /\ age[v] \in Nat)
  BY <1>1 DEF Values, AInv, HeapOK, PointsToHeap, TypeOK, Slot, Exists
<1>3. ASSUME NEW c \in Chunk, NEW r \in Register, commit_nascent_heapchunk(c, r)
      PROVE  AInv'
  <2>1. PICK k \in {"ro", "rw", "weak"}, v \in Values :
           MayHold(k, v) /\ NewChunk(c, r, k, v, 0) /\ card' = card
    BY <1>3 DEF commit_nascent_heapchunk
  <2>2. 0 \in 0 .. ACTIVE_AGEGROUPS /\ (v # NIL => age[v] >= 0)
    BY <1>1, <1>2
  <2>. QED
    BY <1>1, <2>1, <2>2, AllocateChunk DEF TypeOK
<1>4. ASSUME NEW c \in Chunk, NEW r \in Register, make_large_vector(c, r)
      PROVE  AInv'
  <2>1. PICK k \in {"ro", "rw"}, v \in Values, n \in Card :
           /\ MayHold(k, v) /\ initial_value_is_old(v) /\ NewChunk(c, r, k, v, 1)
           /\ card' = [card EXCEPT ![c] = n]
    BY <1>4 DEF make_large_vector
  <2>2. 1 \in 0 .. ACTIVE_AGEGROUPS /\ (v # NIL => age[v] >= 1)
    BY <1>1, <2>1 DEF initial_value_is_old
  <2>3. card' \in [Chunk -> Card] /\ \A d \in Chunk : d = c \/ card'[d] = card[d]
    BY <1>1, <2>1 DEF TypeOK
  <2>. QED
    BY <2>1, <2>2, <2>3, AllocateChunk
<1>5. ASSUME NEW c \in Chunk, NEW r \in Register, allocate_nonempty_code_chunk(c, r)
      PROVE  AInv'
  <2>. DEFINE a == Lower(ACTIVE_AGEGROUPS, CODECHUNK_ALLOCATION_AGEGROUP)
  <2>1. NewChunk(c, r, "code", NIL, a) /\ card' = card
    BY <1>5 DEF allocate_nonempty_code_chunk
  <2>2. a \in 0 .. ACTIVE_AGEGROUPS /\ MayHold("code", NIL)
    BY <1>1 DEF Lower, MayHold
  <2>. HIDE DEF a
  <2>3. card' \in [Chunk -> Card] /\ \A d \in Chunk : d = c \/ card'[d] = card[d]
    BY <1>1, <2>1 DEF TypeOK
  <2>. QED
    BY <1>1, <2>1, <2>2, <2>3, AllocateChunk DEF a
<1>6. ASSUME NEW q \in Register, store(q) PROVE AInv'
  <2>. DEFINE c == field[q]
  <2>1. /\ pc = "run" /\ c # NIL /\ kind[c] = "rw"
        /\ UNCHANGED <<kind, age, senior, card, min_age, pc, cleaner, stale>>
    BY <1>6 DEF store
  <2>2. PICK v \in Values : /\ MayHold("rw", v)
                            /\ field' = [field EXCEPT ![c] = v]
                            /\ heap_changelog' = log_store(c, v)
    BY <1>6 DEF store
  <2>3. c \in Chunk /\ c \in Slot /\ Exists(c)
    BY <1>1, <2>1 DEF TypeOK, Slot, Exists
  <2>. HIDE DEF c
  <2>. QED
    BY <1>1, <1>2, <2>1, <2>2, <2>3, ChangeField DEF log_store
<1>7. ASSUME NEW q \in Register, drop(q) PROVE AInv'
  <2>1. q \in Slot /\ q \notin Chunk /\ Exists(q)
    BY <1>1 DEF Slot, Exists
  <2>. QED
    BY <1>7, <2>1, ChangeField DEF drop
<1>8. ASSUME NEW q \in Register, NEW r \in Register, fetch(q, r) PROVE AInv'
  <2>. DEFINE v == field[field[q]]
  <2>1. r \in Slot /\ r \notin Chunk /\ Exists(r)
    BY <1>1 DEF Slot, Exists
  <2>2. field[q] \in Chunk /\ InHeap(field[q])
    BY <1>1, <1>8 DEF fetch, TypeOK, Slot, AInv, HeapOK, PointsToHeap, Exists
  <2>3. v \in Chunk \cup {NIL} /\ (v # NIL => InHeap(v))
    BY <1>1, <2>2 DEF TypeOK, Slot, AInv, HeapOK, PointsToHeap, Exists, InHeap
  <2>4. /\ pc = "run" /\ field' = [field EXCEPT ![r] = v]
        /\ heap_changelog' = heap_changelog
        /\ UNCHANGED <<kind, age, senior, card, min_age, pc, cleaner, stale>>
    BY <1>8 DEF fetch
  <2>. HIDE DEF v
  <2>. QED
    BY <2>1, <2>3, <2>4, ChangeField
<1>. QED
  BY <1>3, <1>4, <1>5, <1>6, <1>7, <1>8

-----------------------------------------------------------------------------
(* The beginning of a cleaning *)

\* The agegroups up to n become from-space.  Their chunks are promoted in
\* order: what refers to nothing younger will refer to nothing younger.
LEMMA BeginCleaning ==
    ASSUME QuietOK, NEW n \in 0 .. ACTIVE_AGEGROUPS,
           FromspaceIs({c \in Chunk : InHeap(c) /\ age[c] <= n}), clean' = n,
           UNCHANGED <<mutator, unswept, weakrefs>>,
           \/ n = 0 /\ pc' = "roots0"
           \/ n > 0 /\ pc = "prepare" /\ pc' = "roots",
           min_age' \in [Age -> [Card -> 1 .. CLEAN_CARD]],
           \A a \in Age : a > n => min_age'[a] = min_age[a]
    PROVE  AInv'
<1>1. /\ TypeOK /\ NoCleaning /\ PointsToHeap /\ ChunksOK /\ PointersOK
      /\ ACTIVE_AGEGROUPS \in Nat \ {0} /\ NIL \notin Chunk /\ Chunk \cap Register = {}
  BY ConstantsAssumption DEF QuietOK
<1>2. /\ fromspace' = {c \in Chunk : InHeap(c) /\ age[c] <= n} /\ forwarded' = {}
      /\ stale' = {s \in Slot : IsPlain(field[s]) /\ field[s] \in fromspace'}
      /\ unswept' = {} /\ weakrefs' = {}
  BY <1>1 DEF FromspaceIs, NoCleaning
<1>3. UNCHANGED <<kind, field, age, senior, card, heap_changelog>>
  BY DEF mutator
<1>4. ~Quiet' /\ \A s \in Slot : ~Visited(s)'
  BY <1>2, <1>1 DEF Quiet, Visited
<1>5. TypeOK'
  BY <1>1, <1>2, <1>3 DEF TypeOK
<1>6. PointsToHeap' /\ ChunksOK'
  BY <1>1, <1>3 DEF PointsToHeap, ChunksOK, Exists, InHeap, IsPlain
<1>7. ASSUME NEW x \in Chunk, InHeap(x)
      PROVE  /\ x \in fromspace' <=> age[x] <= n
             /\ age[x] \in 0 .. ACTIVE_AGEGROUPS
             /\ x \in senior => age[x] >= 1 /\ age[x] < ACTIVE_AGEGROUPS
             /\ n > 0 => age[x] >= 1
             /\ settled(x)' = IF age[x] > n THEN age[x]
                              ELSE IF n = 0 THEN 1
                              ELSE IF x \in senior THEN age[x] + 1 ELSE age[x]
             /\ will_be_senior(x)' <=>
                  IF settled(x)' <= n THEN settled(x)' < ACTIVE_AGEGROUPS
                                      ELSE x \in senior /\ age[x] > n
  <2>1. x \in fromspace' <=> age[x] <= n
    BY <1>2, <1>7
  <2>2. age[x] \in 0 .. ACTIVE_AGEGROUPS
    BY <1>1 DEF TypeOK
  <2>3. x \in senior => age[x] >= 1 /\ age[x] < ACTIVE_AGEGROUPS
    BY <1>1, <2>2 DEF ChunksOK
  <2>4. n > 0 => age[x] >= 1
    BY <1>1, <1>7 DEF NoCleaning
  <2>5. settled(x)' = IF age[x] > n THEN age[x]
                      ELSE IF n = 0 THEN 1
                      ELSE IF x \in senior THEN age[x] + 1 ELSE age[x]
    BY <1>2, <1>3, <2>1, <2>2 DEF settled, copy_age
  <2>6. will_be_senior(x)' <=>
            IF settled(x)' <= n THEN settled(x)' < ACTIVE_AGEGROUPS
                                ELSE x \in senior /\ age[x] > n
    BY <1>3, <2>1, <2>2 DEF will_be_senior
  <2>. QED
    BY <2>1, <2>2, <2>3, <2>4, <2>5, <2>6
<1>8. ASSUME NEW c \in Chunk, NEW t \in Chunk, InHeap(c), InHeap(t), NotYounger(c, t)
      PROVE  /\ \/ settled(c)' < settled(t)'
                \/ settled(c)' = settled(t)' /\ (will_be_senior(c)' => will_be_senior(t)')
             /\ t \in fromspace' => c \in fromspace'
  <2>1. age[c] < age[t] \/ (age[c] = age[t] /\ (c \in senior => t \in senior))
    BY <1>8 DEF NotYounger
  <2>. QED
    BY <1>7, <1>8, <2>1
<1>9. HeapOK'
  <2>1. ASSUME NEW c \in Chunk, field[c] # NIL, kind[c] # "rw"
        PROVE  /\ Ordered(c, field[c])'
               /\ field[c] \in fromspace' => c \in fromspace'
    <3>0. PICK t \in Chunk : t = field[c]
      BY <1>1, <2>1 DEF TypeOK, Slot
    <3>1. InHeap(c) /\ InHeap(t) /\ NotYounger(c, t)
      BY <1>1, <2>1, <3>0 DEF Slot, ChunksOK, PointsToHeap, PointersOK, Exists, InHeap
    <3>2. /\ \/ settled(c)' < settled(t)'
             \/ settled(c)' = settled(t)' /\ (will_be_senior(c)' => will_be_senior(t)')
          /\ t \in fromspace' => c \in fromspace'
      BY <1>8, <3>1
    <3>3. field'[c] = t
      BY <1>3, <3>0
    <3>. QED
      BY <3>0, <3>2, <3>3 DEF Ordered, settled, copy_age, will_be_senior
  <2>. QED
    BY <1>3, <1>6, <2>1 DEF HeapOK
<1>10. PhaseOK'
  <2>1. ~Quiet' /\ (clean' = 0 <=> pc' \notin {"roots", "cards", "sweep"})
    BY <1>4
  <2>2. pc' \notin {"run", "roots0", "changelog"} => heap_changelog' = {}
    BY <1>1, <1>3 DEF NoCleaning
  <2>3. \A c \in Chunk : InHeap(c)' =>
           /\ pc' \in {"prepare", "roots", "cards", "sweep"} => age'[c] >= 1
           /\ c \notin fromspace' => age'[c] > n
    BY <1>3, <1>7 DEF InHeap
  <2>4. \A c \in fromspace' : c \in Chunk /\ InHeap(c)' /\ age'[c] <= n /\ age'[c] \in Nat
    BY <1>1, <1>2, <1>3 DEF InHeap, TypeOK
  <2>. QED
    BY <1>2, <2>1, <2>2, <2>3, <2>4 DEF PhaseOK
<1>11. SlotsOK'
  BY <1>2, <1>3, <1>4 DEF SlotsOK, IsPlain
<1>12. CardsOK'
  <2>. SUFFICES ASSUME NEW c \in Chunk, kind[c] = "rw", field[c] # NIL,
                       c \notin fromspace',
                       settled(field[c])' < age[c] \/ field[c] \in fromspace'
                PROVE  \/ c \in heap_changelog
                       \/ /\ min_age'[age[c]][card[c]] <= settled(field[c])'
                          /\ field[c] \in fromspace' => min_age'[age[c]][card[c]] <= n
    BY <1>2, <1>3 DEF CardsOK
  <2>0. PICK t \in Chunk : t = field[c]
    BY <1>1 DEF TypeOK, Slot
  <2>1. InHeap(c) /\ InHeap(t)
    BY <1>1, <2>0 DEF Slot, PointsToHeap, Exists, InHeap
  <2>2. settled(field[c])' = settled(t)'
    BY <1>3, <2>0 DEF settled, copy_age
  <2>3. /\ age[t] <= settled(t)' /\ age[t] < age[c] /\ age[c] > n
        /\ settled(t)' \in Nat /\ age[t] \in Nat
        /\ t \in fromspace' => age[t] <= n
    <3>1. /\ c \in fromspace' <=> age[c] <= n
          /\ age[c] \in 0 .. ACTIVE_AGEGROUPS
      BY <1>7, <2>1
    <3>2. /\ t \in fromspace' <=> age[t] <= n
          /\ age[t] \in 0 .. ACTIVE_AGEGROUPS
          /\ settled(t)' = IF age[t] > n THEN age[t]
                           ELSE IF n = 0 THEN 1
                           ELSE IF t \in senior THEN age[t] + 1 ELSE age[t]
      BY <1>7, <2>1
    <3>3. settled(t)' < age[c] \/ t \in fromspace'
      BY <2>0, <2>2
    <3>. QED
      BY <3>1, <3>2, <3>3
  <2>4. c \in heap_changelog \/ min_age[age[c]][card[c]] <= age[t]
    BY <1>1, <2>0, <2>3 DEF PointersOK
  <2>5. age[c] \in Age /\ min_age'[age[c]] = min_age[age[c]]
        /\ min_age[age[c]][card[c]] \in Nat
    BY <1>1, <2>3, SMTT(30) DEF TypeOK, Age, CLEAN_CARD
  <2>. QED
    BY <2>0, <2>2, <2>3, <2>4, <2>5
<1>13. FullOK'
  BY <1>2 DEF FullOK
<1>. QED
  BY <1>5, <1>9, <1>10, <1>11, <1>12, <1>13 DEF AInv

-----------------------------------------------------------------------------
(* The end of a cleaning *)

\* Once everything is swept, what survives refers to what survives, by its
\* new address; except that a chained weakref may refer to what does not.
LEMMA Survivors ==
    ASSUME AInv, pc \in {"sweep0", "sweep"}, unswept = {}
    PROVE  /\ \A s \in Slot \ Dead : field[s] \in Dead => dead_weakref(s)
           /\ stale \subseteq Dead \cup weakrefs
           /\ \A w \in weakrefs : /\ w \in Chunk /\ kind[w] = "weak"
                                  /\ field[w] \in Dead \/ field[w] \in forwarded
<1>1. TypeOK /\ SlotsOK /\ NIL \notin Chunk
  BY ConstantsAssumption DEF AInv
<1>2. ASSUME NEW s \in Slot \ Dead, field[s] \in fromspace, s \notin weakrefs
      PROVE  s \notin stale /\ field[s] \in forwarded
  <2>1. Visited(s)
    BY <1>2 DEF Visited, Dead, Slot
  <2>. QED
    BY <1>1, <1>2, <2>1 DEF SlotsOK
<1>3. \A s \in stale : s \in Slot /\ field[s] \in fromspace
  BY <1>1 DEF SlotsOK, TypeOK
<1>4. \A w \in weakrefs : /\ w \in Chunk /\ kind[w] = "weak"
                          /\ field[w] \in Dead \/ field[w] \in forwarded
  BY <1>1 DEF SlotsOK, TypeOK, Dead
<1>. QED
  BY <1>2, <1>3, <1>4 DEF Dead, dead_weakref

\* The from-space is released.
LEMMA Release ==
    ASSUME AInv, pc \in {"sweep0", "sweep"}, unswept = {}, release_fromspace,
           age' \in [Chunk -> 0 .. ACTIVE_AGEGROUPS], senior' \subseteq Chunk,
           \A x \in Chunk :
               IF x \in Dead \/ ~InHeap(x) THEN age'[x] = 0 /\ x \notin senior'
               ELSE age'[x] = settled(x) /\ (x \in senior' <=> will_be_senior(x)),
           pc' \in {"run", "prepare"}, clean' = 0, min_age' = min_age
    PROVE  AInv'
<1>1. /\ TypeOK /\ HeapOK /\ PointsToHeap /\ ChunksOK /\ PhaseOK /\ NIL \notin Chunk
      /\ Chunk \cap Register = {} /\ ACTIVE_AGEGROUPS \in Nat \ {0} /\ Dead \subseteq Chunk
      /\ ~Quiet /\ heap_changelog = {}
  BY ConstantsAssumption DEF AInv, HeapOK, Dead, TypeOK, Quiet, PhaseOK
<1>2. /\ kind' = [c \in Chunk |-> IF c \in Dead THEN "free" ELSE kind[c]]
      /\ field' = [s \in Slot |-> IF s \in Dead \/ dead_weakref(s) THEN NIL ELSE field[s]]
      /\ stale' = stale \ (Dead \cup weakrefs)
      /\ weakrefs' = {} /\ fromspace' = {} /\ forwarded' = {}
      /\ UNCHANGED <<card, heap_changelog, unswept>>
  BY DEF release_fromspace
<1>3. TypeOK'
  BY <1>1, <1>2 DEF TypeOK
<1>4. stale' = {}
  BY <1>2, Survivors
<1>5. ASSUME NEW s \in Slot, field'[s] # NIL
      PROVE  /\ field'[s] = field[s] /\ s \notin Dead /\ field[s] \in Chunk \ Dead
             /\ kind'[field[s]] = kind[field[s]]
  <2>1. field'[s] = field[s] /\ s \notin Dead /\ ~dead_weakref(s) /\ field[s] \in Chunk
    BY <1>1, <1>2, <1>5 DEF TypeOK
  <2>. QED
    BY <1>2, <2>1, Survivors
<1>6. PointsToHeap'
  <2>1. ASSUME NEW s \in Slot, Exists(s)', field'[s] # NIL PROVE kind'[field'[s]] # "free"
    <3>1. Exists(s) \/ s \notin Register
      BY DEF Exists
    <3>2. Exists(s)
      BY <1>1, <1>2, <1>5, <2>1 DEF Exists, Slot
    <3>. QED
      BY <1>1, <1>5, <2>1, <3>2 DEF PointsToHeap, InHeap
  <2>. QED
    BY <2>1 DEF PointsToHeap, InHeap
<1>7. ASSUME NEW c \in Chunk, field'[c] # NIL
      PROVE  /\ field'[c] = field[c] /\ field[c] \in Chunk /\ field[c] # NIL
             /\ kind'[c] = kind[c] /\ kind'[field[c]] = kind[field[c]]
             /\ InHeap(c) /\ InHeap(field[c])
             /\ c \notin Dead
             /\ age'[c] = settled(c) /\ age'[field[c]] = settled(field[c])
             /\ c \in senior' <=> will_be_senior(c)
             /\ field[c] \in senior' <=> will_be_senior(field[c])
  <2>1. /\ field'[c] = field[c] /\ c \notin Dead /\ field[c] \in Chunk \ Dead
        /\ kind'[field[c]] = kind[field[c]] /\ kind'[c] = kind[c]
    BY <1>2, <1>5, <1>7 DEF Slot
  <2>2. InHeap(c) /\ InHeap(field[c])
    BY <1>1, <1>7, <2>1 DEF ChunksOK, PointsToHeap, Exists, Slot, InHeap
  <2>. QED
    BY <1>1, <2>1, <2>2
<1>8. ChunksOK'
  <2>1. ASSUME NEW c \in Chunk
        PROVE  /\ kind'[c] = "free" => field'[c] = NIL /\ age'[c] = 0
               /\ c \in senior' => kind'[c] # "free" /\ age'[c] \in 1 .. ACTIVE_AGEGROUPS - 1
               /\ kind'[c] = "code" =>
                    /\ field'[c] = NIL
                    /\ age'[c] >= Lower(ACTIVE_AGEGROUPS, CODECHUNK_ALLOCATION_AGEGROUP)
    <3>1. CASE c \in Dead \/ ~InHeap(c)
      <4>1. field'[c] = NIL
        BY <1>7, <3>1
      <4>. QED
        BY <1>2, <3>1, <4>1 DEF InHeap
    <3>2. CASE c \notin Dead /\ InHeap(c)
      <4>1. /\ kind'[c] = kind[c] /\ age'[c] = settled(c)
            /\ c \in senior' <=> will_be_senior(c)
        BY <1>2, <3>2
      <4>2. settled(c) \in 1 .. ACTIVE_AGEGROUPS
            /\ (kind[c] = "code" => age[c] <= settled(c))
            /\ (c \notin fromspace => settled(c) = age[c])
        BY <1>1, <3>2, SettledAges
      <4>3. will_be_senior(c) => settled(c) < ACTIVE_AGEGROUPS
        BY <1>1, <4>2 DEF will_be_senior, ChunksOK
      <4>4. kind[c] = "code" =>
              /\ field[c] = NIL
              /\ age[c] >= Lower(ACTIVE_AGEGROUPS, CODECHUNK_ALLOCATION_AGEGROUP)
        BY <1>1 DEF ChunksOK
      <4>5. Lower(ACTIVE_AGEGROUPS, CODECHUNK_ALLOCATION_AGEGROUP) \in Nat /\ age[c] \in Nat
        BY <1>1, ConstantsAssumption DEF Lower, TypeOK
      <4>6. kind[c] = "code" => field'[c] = NIL
        BY <1>7, <4>4
      <4>. QED
        BY <1>1, <3>2, <4>1, <4>2, <4>3, <4>4, <4>5, <4>6 DEF InHeap
    <3>. QED
      BY <3>1, <3>2
  <2>2. ASSUME NEW c \in Chunk, field'[c] # NIL,
               kind'[c] = "weak" \/ (kind'[c] = "rw" /\ ~RwHoldsCode)
        PROVE  field'[c] # NIL /\ kind'[field'[c]] # "code"
    BY <1>1, <1>7, <2>2 DEF ChunksOK, IsPlain
  <2>3. heap_changelog' = {}
    BY <1>1, <1>2
  <2>. QED
    BY <2>1, <2>2, <2>3 DEF ChunksOK, InHeap, IsPlain
<1>9. PointersOK'
  <2>. SUFFICES ASSUME NEW c \in Chunk, field'[c] # NIL
                PROVE  /\ kind'[c] # "rw" => NotYounger(c, field[c])'
                       /\ kind'[c] = "rw" /\ age'[field'[c]] < age'[c] =>
                            min_age[age'[c]][card[c]] <= age'[field'[c]]
    BY <1>2 DEF PointersOK
  <2>. DEFINE t == field[c]
  <2>1. /\ field'[c] = t /\ t \in Chunk /\ t # NIL /\ kind'[c] = kind[c]
        /\ age'[c] = settled(c) /\ age'[t] = settled(t)
        /\ c \in senior' <=> will_be_senior(c)
        /\ t \in senior' <=> will_be_senior(t)
        /\ InHeap(c) /\ c \notin Dead
    BY <1>7
  <2>2. kind[c] # "rw" => NotYounger(c, field[c])'
    BY <1>1, <2>1 DEF HeapOK, Ordered, NotYounger
  <2>3. ASSUME kind[c] = "rw", settled(t) < settled(c)
        PROVE  min_age[settled(c)][card[c]] <= settled(t)
    <3>1. IsPlain(c) /\ (c \in fromspace => c \in forwarded)
      BY <1>1, <2>1, <2>3 DEF IsPlain, Dead
    <3>2. settled(c) = age[c]
      BY <2>1, <3>1, SettledAges
    <3>. QED
      BY <2>1, <2>3, <3>1, <3>2 DEF AInv, CardsOK
  <2>. QED
    BY <2>1, <2>2, <2>3
<1>10. NoCleaning'
  <2>1. \A c \in Chunk : kind'[c] # "free" => c \notin Dead /\ InHeap(c)
    BY <1>2 DEF InHeap
  <2>2. \A c \in Chunk : kind'[c] # "free" => age'[c] >= 1
    BY <1>1, <2>1, SettledAges
  <2>. QED
    BY <1>1, <1>2, <1>4, <2>2 DEF NoCleaning, Quiet, InHeap
<1>. QED
  <2>1. QuietOK'
    BY <1>3, <1>6, <1>8, <1>9, <1>10 DEF QuietOK
  <2>. QED
    BY <2>1, QuietInvariant, PTL

-----------------------------------------------------------------------------
(* Every step keeps the invariant *)

\* The cleaning of agegroup 0 begins.
LEMMA CallHeapcleaner == AInv /\ call_heapcleaner => AInv'
<1>. SUFFICES ASSUME AInv, call_heapcleaner PROVE AInv'
  OBVIOUS
<1>1. QuietOK /\ TypeOK
  BY QuietInvariant DEF call_heapcleaner, Quiet, AInv
<1>2. clean = 0
  BY DEF AInv, PhaseOK, call_heapcleaner
<1>3. {c \in Chunk : InHeap(c) /\ age[c] = 0} = {c \in Chunk : InHeap(c) /\ age[c] <= 0}
  BY <1>1 DEF TypeOK
<1>4. FromspaceIs({c \in Chunk : InHeap(c) /\ age[c] <= 0})
  BY <1>3 DEF call_heapcleaner
<1>5. /\ clean' = 0 /\ UNCHANGED <<mutator, unswept, weakrefs>> /\ pc' = "roots0"
      /\ min_age' = min_age
  BY <1>2 DEF call_heapcleaner
<1>6. min_age' \in [Age -> [Card -> 1 .. CLEAN_CARD]]
  BY <1>1, <1>5 DEF TypeOK
<1>7. 0 \in 0 .. ACTIVE_AGEGROUPS
  BY ConstantsAssumption
<1>. QED
  BY <1>1, <1>4, <1>5, <1>6, <1>7, BeginCleaning

\* The cleaning of the agegroups up to n begins.
LEMMA PrepareForHeapcleaning ==
    ASSUME AInv, NEW n \in Age, prepare_for_heapcleaning(n)
    PROVE  AInv'
<1>1. QuietOK /\ TypeOK
  BY QuietInvariant DEF prepare_for_heapcleaning, Quiet, AInv
<1>2. /\ FromspaceIs({c \in Chunk : InHeap(c) /\ age[c] <= n}) /\ clean' = n
      /\ UNCHANGED <<mutator, unswept, weakrefs>> /\ pc = "prepare" /\ pc' = "roots"
      /\ min_age' = [a \in Age |-> IF a <= n THEN [k \in Card |-> CLEAN_CARD]
                                             ELSE min_age[a]]
  BY DEF prepare_for_heapcleaning
<1>3. n \in 0 .. ACTIVE_AGEGROUPS /\ n > 0
  BY ConstantsAssumption DEF Age
<1>4. \A a \in Age : a > n => min_age'[a] = min_age[a]
  BY <1>2, <1>3 DEF Age
<1>5. [k \in Card |-> CLEAN_CARD] \in [Card -> 1 .. CLEAN_CARD]
  BY ConstantsAssumption DEF CLEAN_CARD
<1>6. min_age' \in [Age -> [Card -> 1 .. CLEAN_CARD]]
  BY <1>1, <1>2, <1>5 DEF TypeOK
<1>. QED
  BY <1>1, <1>2, <1>3, <1>4, <1>6, BeginCleaning

\* The cleaning of agegroup 0 ends.
LEMMA Agegroup0Done == AInv /\ agegroup0_done => AInv'
<1>. SUFFICES ASSUME AInv, agegroup0_done PROVE AInv'
  OBVIOUS
<1>1. /\ pc = "sweep0" /\ unswept = {} /\ release_fromspace
      /\ age' = [c \in Chunk |-> IF c \in Dead THEN 0 ELSE age[c]]
      /\ pc' \in {"run", "prepare"} /\ senior' = senior /\ min_age' = min_age
      /\ clean' = clean
  BY DEF agegroup0_done
<1>2. TypeOK /\ ChunksOK /\ PhaseOK /\ clean = 0 /\ ~Quiet
      /\ ACTIVE_AGEGROUPS \in Nat \ {0} /\ CODECHUNK_ALLOCATION_AGEGROUP \in Nat \ {0}
      /\ NIL \notin Chunk
  BY <1>1, ConstantsAssumption DEF AInv, HeapOK, PhaseOK, Quiet
<1>3. age' \in [Chunk -> 0 .. ACTIVE_AGEGROUPS] /\ senior' \subseteq Chunk
  BY <1>1, <1>2 DEF TypeOK
<1>4. ASSUME NEW x \in Chunk
      PROVE  IF x \in Dead \/ ~InHeap(x) THEN age'[x] = 0 /\ x \notin senior'
             ELSE age'[x] = settled(x) /\ (x \in senior' <=> will_be_senior(x))
  <2>1. /\ age[x] \in Nat
        /\ x \in senior => age[x] >= 1 /\ InHeap(x)
        /\ kind[x] = "free" => age[x] = 0
        /\ kind[x] = "code" => age[x] >= 1
    BY <1>2 DEF TypeOK, ChunksOK, Lower
  <2>2. x \in fromspace =>
          /\ kind[x] = "code" \/ x \notin forwarded => age[x] <= 0
          /\ IsPlain(x) /\ x \in forwarded => x \notin senior
    BY <1>2 DEF PhaseOK
  <2>3. CASE x \in Dead \/ ~InHeap(x)
    BY <1>1, <2>1, <2>2, <2>3 DEF Dead, InHeap
  <2>4. CASE x \notin Dead /\ InHeap(x)
    <3>1. age'[x] = age[x] /\ (x \in senior' <=> x \in senior)
      BY <1>1, <2>4
    <3>2. x \in fromspace => x \in forwarded /\ kind[x] # "code" /\ IsPlain(x)
      BY <1>2, <2>1, <2>2, <2>4 DEF Dead, IsPlain
    <3>3. settled(x) = age[x]
      BY <3>2 DEF settled
    <3>4. settled(x) >= 1
      BY <1>2, <2>4, SettledAges
    <3>5. will_be_senior(x) <=> x \in senior /\ x \notin fromspace
      BY <1>2, <2>1, <3>3, <3>4 DEF will_be_senior
    <3>. QED
      BY <2>2, <2>4, <3>1, <3>2, <3>3, <3>5
  <2>. QED
    BY <2>3, <2>4
<1>. QED
  BY <1>1, <1>2, <1>3, <1>4, Release

\* The cleaning of older agegroups ends.
LEMMA NAgegroupsDone == AInv /\ n_agegroups_done => AInv'
<1>. SUFFICES ASSUME AInv, n_agegroups_done PROVE AInv'
  OBVIOUS
<1>1. /\ pc = "sweep" /\ unswept = {} /\ release_fromspace
      /\ age' = [c \in Chunk |-> final_age(c)]
      /\ senior' = {c \in Chunk : InHeap(c) /\ c \notin Dead /\ is_senior(c)}
      /\ pc' = "run" /\ clean' = 0 /\ min_age' = min_age
  BY DEF n_agegroups_done
<1>2. TypeOK /\ ChunksOK /\ PhaseOK /\ clean \in Nat \ {0}
      /\ ACTIVE_AGEGROUPS \in Nat \ {0} /\ NIL \notin Chunk
  BY <1>1, ConstantsAssumption DEF AInv, HeapOK, PhaseOK, TypeOK
<1>3. ASSUME NEW x \in Chunk, x \notin Dead, InHeap(x)
      PROVE  final_age(x) = settled(x) /\ (is_senior(x) <=> will_be_senior(x))
  <2>1. final_age(x) = settled(x)
    BY <1>2, <1>3 DEF final_age, settled, copy_age, Dead
  <2>. QED
    BY <2>1 DEF is_senior, will_be_senior
<1>4. ASSUME NEW x \in Chunk
      PROVE  /\ age'[x] \in 0 .. ACTIVE_AGEGROUPS
             /\ IF x \in Dead \/ ~InHeap(x) THEN age'[x] = 0 /\ x \notin senior'
                ELSE age'[x] = settled(x) /\ (x \in senior' <=> will_be_senior(x))
  <2>1. CASE x \in Dead \/ ~InHeap(x)
    <3>1. final_age(x) = 0
      BY <1>2, <2>1 DEF final_age, ChunksOK, InHeap
    <3>. QED
      BY <1>1, <1>2, <2>1, <3>1
  <2>2. CASE x \notin Dead /\ InHeap(x)
    BY <1>1, <1>3, <2>2, SettledAges
  <2>. QED
    BY <2>1, <2>2
<1>5. age' \in [Chunk -> 0 .. ACTIVE_AGEGROUPS] /\ senior' \subseteq Chunk
  <2>1. age' = [c \in Chunk |-> age'[c]]
    BY <1>1
  <2>. QED
    BY <1>1, <1>4, <2>1
<1>. QED
  BY <1>1, <1>4, <1>5, Release

\* A stuttering step changes nothing.
LEMMA StutterAInv == AInv /\ UNCHANGED vars => AInv'
<1>. SUFFICES ASSUME AInv, UNCHANGED vars PROVE AInv'
  OBVIOUS
<1>. QED
  BY DEF vars, mutator, cleaner, AInv, TypeOK, HeapOK, PointsToHeap, ChunksOK,
     PhaseOK, SlotsOK, CardsOK, FullOK, Visited, Quiet, Exists, InHeap, IsPlain,
     Ordered, settled, will_be_senior, copy_age, Reachable, Closed

\* Every step of the specification keeps the invariant.
LEMMA StepAInv ==
    ASSUME CardsSuffice
    PROVE  AInv /\ [Next]_vars => AInv'
<1>. SUFFICES ASSUME AInv, [Next]_vars PROVE AInv'
  OBVIOUS
<1>1. CASE \E c \in Chunk, r \in Register :
             \/ commit_nascent_heapchunk(c, r)
             \/ make_large_vector(c, r)
             \/ allocate_nonempty_code_chunk(c, r)
  BY <1>1, UserCode
<1>2. CASE \/ \E q \in Register : store(q) \/ drop(q)
           \/ \E q, r \in Register : fetch(q, r)
  BY <1>2, UserCode
<1>3. CASE call_heapcleaner
  BY <1>3, CallHeapcleaner
<1>4. CASE scan_roots
  BY <1>4, ScanRoots
<1>5. CASE process_task_heap_changelogs
  BY <1>5, ProcessChangelogs
<1>6. CASE \E c \in Chunk : sweep_agegroup1_sib_tospace(c)
  BY <1>6, SweepAgegroup1
<1>7. CASE agegroup0_done
  BY <1>7, Agegroup0Done
<1>8. CASE \E n \in Age : prepare_for_heapcleaning(n)
  BY <1>8, PrepareForHeapcleaning
<1>9. CASE forward_all_chunks_referenced_by_uncleaned_agegroups
  BY <1>9, ScanCards
<1>10. CASE \E c \in Chunk : forward_rest(c)
  BY <1>10, ForwardRest
<1>11. CASE n_agegroups_done
  BY <1>11, NAgegroupsDone
<1>12. CASE UNCHANGED vars
  BY <1>12, StutterAInv
<1>. QED
  BY <1>1, <1>2, <1>3, <1>4, <1>5, <1>6, <1>7, <1>8, <1>9, <1>10, <1>11, <1>12 DEF Next

-----------------------------------------------------------------------------
(* The theorems *)

\* A cleaning ends in one of two ways.
LEMMA EndOfCleaning ==
    ASSUME AInv, [Next]_vars, fromspace # {}, fromspace' = {}
    PROVE  agegroup0_done \/ n_agegroups_done
<1>1. pc \notin {"run", "prepare"}
  BY DEF AInv, PhaseOK, Quiet
<1>2. fromspace' # fromspace
  OBVIOUS
<1>3. ASSUME NEW S PROVE ~forward_chunks(S)
  BY <1>2 DEF forward_chunks
<1>4. ASSUME NEW c \in Chunk, NEW r \in Register
      PROVE  /\ ~commit_nascent_heapchunk(c, r) /\ ~make_large_vector(c, r)
             /\ ~allocate_nonempty_code_chunk(c, r)
  BY <1>1 DEF commit_nascent_heapchunk, make_large_vector,
     allocate_nonempty_code_chunk, NewChunk
<1>5. ASSUME NEW q \in Register, NEW r \in Register
      PROVE  ~store(q) /\ ~drop(q) /\ ~fetch(q, r)
  BY <1>1 DEF store, drop, fetch
<1>6. ~call_heapcleaner /\ \A n \in Age : ~prepare_for_heapcleaning(n)
  BY <1>1 DEF call_heapcleaner, prepare_for_heapcleaning
<1>7. /\ ~scan_roots /\ ~process_task_heap_changelogs
      /\ ~forward_all_chunks_referenced_by_uncleaned_agegroups
      /\ \A c \in Chunk : ~sweep_agegroup1_sib_tospace(c) /\ ~forward_rest(c)
  BY <1>3 DEF scan_roots, process_task_heap_changelogs, scan_copy,
     forward_all_chunks_referenced_by_uncleaned_agegroups,
     sweep_agegroup1_sib_tospace, forward_rest
<1>8. ~UNCHANGED vars
  BY <1>2 DEF vars, cleaner
<1>. QED
  BY <1>4, <1>5, <1>6, <1>7, <1>8 DEF Next

\* Nothing reachable is in a part of the from-space that is released.
LEMMA ReachableSurvives ==
    ASSUME AInv, pc \in {"sweep0", "sweep"}, unswept = {}
    PROVE  Reachable \subseteq {c \in Chunk : InHeap(c) /\ c \notin Dead}
<1>. DEFINE L == {c \in Chunk : InHeap(c) /\ c \notin Dead}
<1>1. TypeOK /\ PointsToHeap /\ NIL \notin Chunk /\ Chunk \cap Register = {}
      /\ Dead \subseteq Chunk
  BY ConstantsAssumption DEF AInv, HeapOK, Dead, TypeOK
<1>2. ASSUME NEW s \in Register \cup L, s \in Register \/ kind[s] # "weak", field[s] # NIL
      PROVE  field[s] \in L
  <2>1. s \in Slot \ Dead /\ Exists(s) /\ field[s] \in Chunk /\ InHeap(field[s])
    BY <1>1, <1>2 DEF Slot, TypeOK, Exists, InHeap, PointsToHeap
  <2>2. ~dead_weakref(s)
    BY <1>1, <1>2, Survivors DEF dead_weakref
  <2>. QED
    BY <2>1, <2>2, Survivors
<1>3. Closed(L)
  BY <1>2 DEF Closed
<1>. QED
  BY <1>1, <1>3, ReachableIsLeast

\* The release of the from-space leaves what is reachable as it is.
LEMMA GraphSurvives ==
    ASSUME AInv, pc \in {"sweep0", "sweep"}, unswept = {}, release_fromspace,
           NEW s \in Reachable \cup Register
    PROVE  \/ field'[s] = field[s] /\ Exists(s)'
           \/ Exists(s)' /\ kind[s] = "weak" /\ kind'[field[s]] = "free"
<1>1. TypeOK /\ Chunk \cap Register = {} /\ Dead \subseteq Chunk
  BY ConstantsAssumption DEF AInv, Dead, TypeOK
<1>2. /\ kind' = [c \in Chunk |-> IF c \in Dead THEN "free" ELSE kind[c]]
      /\ field' = [x \in Slot |-> IF x \in Dead \/ dead_weakref(x) THEN NIL ELSE field[x]]
  BY DEF release_fromspace
<1>3. s \in Slot \ Dead /\ (s \in Register \/ (s \in Chunk /\ InHeap(s)))
  BY <1>1, ReachableSurvives DEF Slot
<1>4. Exists(s)'
  BY <1>2, <1>3 DEF Exists, InHeap
<1>5. ASSUME dead_weakref(s) PROVE kind[s] = "weak" /\ kind'[field[s]] = "free"
  BY <1>1, <1>2, <1>5, Survivors DEF dead_weakref
<1>. QED
  BY <1>2, <1>3, <1>4, <1>5

\* What survives a cleaning of all agegroups is what is reachable.
LEMMA GarbageIsReclaimed ==
    ASSUME AInv, AInv', n_agegroups_done, clean = ACTIVE_AGEGROUPS
    PROVE  {c \in Chunk : kind'[c] # "free"} = Reachable'
<1>1. /\ TypeOK /\ PhaseOK /\ FullOK /\ NIL \notin Chunk /\ Chunk \cap Register = {}
      /\ ACTIVE_AGEGROUPS \in Nat \ {0} /\ TypeOK' /\ PointsToHeap'
      /\ pc = "sweep" /\ unswept = {} /\ ~Quiet
  BY ConstantsAssumption DEF AInv, HeapOK, n_agegroups_done, Quiet
<1>2. /\ kind' = [c \in Chunk |-> IF c \in Dead THEN "free" ELSE kind[c]]
      /\ field' = [s \in Slot |-> IF s \in Dead \/ dead_weakref(s) THEN NIL ELSE field[s]]
  BY DEF release_fromspace, n_agegroups_done
<1>3. PICK F \in SUBSET Chunk : F = forwarded
  BY <1>1 DEF TypeOK
<1>4. \A c \in Chunk : kind'[c] # "free" <=> c \in F
  <2>1. \A c \in Chunk : InHeap(c) => c \in fromspace
    BY <1>1 DEF PhaseOK, TypeOK
  <2>2. \A c \in F : InHeap(c) /\ c \in fromspace
    BY <1>1, <1>3 DEF PhaseOK, TypeOK
  <2>. QED
    BY <1>2, <1>3, <2>1, <2>2 DEF Dead, InHeap
<1>5. ASSUME NEW s \in Register \cup F, field'[s] # NIL PROVE field'[s] \in F
  <2>1. Exists(s)' /\ s \in Slot
    BY <1>4 DEF Exists, Slot
  <2>2. kind'[field'[s]] # "free" /\ field'[s] \in Chunk
    BY <1>1, <1>5, <2>1 DEF PointsToHeap, InHeap, TypeOK
  <2>. QED
    BY <1>4, <2>2
<1>6. Reachable' \subseteq F
  BY <1>5 DEF Reachable, Closed
<1>7. ASSUME NEW S \in SUBSET Chunk, Closed(S)' PROVE F \subseteq S
  <2>1. ASSUME NEW s \in Register \cup (S \cap F),
               s \in Register \/ kind[s] # "weak", field[s] # NIL
        PROVE  field[s] \in S \cap F
    <3>1. s \in Slot /\ s \notin Dead /\ (s \in F => s \in Chunk)
      BY <1>1, <1>3 DEF Slot, Dead, TypeOK
    <3>2. ~dead_weakref(s)
      BY <1>1, <2>1, Survivors DEF dead_weakref
    <3>3. field'[s] = field[s]
      BY <1>2, <3>1, <3>2
    <3>4. s \in Register \/ kind'[s] # "weak"
      BY <1>2, <2>1, <3>1
    <3>5. field'[s] \in S
      BY <1>7, <2>1, <3>3, <3>4 DEF Closed
    <3>. QED
      BY <1>5, <2>1, <3>3, <3>5
  <2>2. Closed(S \cap F)
    BY <2>1 DEF Closed
  <2>3. Reachable \subseteq S \cap F
    BY <1>1, <2>2, ReachableIsLeast
  <2>. QED
    BY <1>1, <1>3, <2>3 DEF FullOK
<1>8. F \subseteq Reachable'
  BY <1>7 DEF Reachable
<1>. QED
  BY <1>3, <1>4, <1>6, <1>8

\* The inductive invariant, for any number of agegroups, chunks, cards and
\* registers.
THEOREM HeapInvariant ==
    ASSUME CardsSuffice
    PROVE  Spec => []AInv
  BY InitAInv, StepAInv, PTL DEF Spec

\* The variables keep their types through every mix of user code and phases
\* of a cleaning: nothing is promoted beyond the oldest agegroup, and no card
\* gets an age that is none.
THEOREM TypeCorrect ==
    ASSUME CardsSuffice
    PROVE  Spec => []TypeOK
<1>1. AInv => TypeOK
  BY DEF AInv
<1>. QED
  BY <1>1, HeapInvariant, PTL

\* heapclean_agegroup0 and heapclean_n_agegroups leave no slot with the
\* address of a chunk that they moved or reclaimed.
THEOREM NothingDangles ==
    ASSUME CardsSuffice
    PROVE  Spec => []NoDanglingPointers
<1>1. AInv => NoDanglingPointers
  BY DEF AInv, PhaseOK, HeapOK, PointsToHeap, InHeap, NoDanglingPointers
<1>. QED
  BY <1>1, HeapInvariant, PTL

\* Between cleanings the changelog and the card maps know every pointer from
\* an older agegroup into a younger one: what the next partial cleaning
\* relies on to find its roots.
THEOREM OldToYoungIsKnown ==
    ASSUME CardsSuffice
    PROVE  Spec => []InterAgegroupPointersAreKnown
<1>1. ASSUME AInv, Quiet, NEW c \in Chunk, InHeap(c), field[c] # NIL,
             age[field[c]] < age[c]
      PROVE  /\ kind[c] = "rw"
             /\ c \in heap_changelog \/ min_age[age[c]][card[c]] <= age[field[c]]
  <2>1. PointersOK /\ TypeOK
    BY <1>1, QuietInvariant DEF QuietOK
  <2>2. age[c] \in Nat /\ age[field[c]] \in Nat
    BY <1>1, <2>1 DEF TypeOK, Slot
  <2>. QED
    BY <1>1, <2>1, <2>2 DEF PointersOK, NotYounger
<1>2. AInv => InterAgegroupPointersAreKnown
  BY <1>1 DEF InterAgegroupPointersAreKnown
<1>. QED
  BY <1>2, HeapInvariant, PTL

\* No cleaning, of agegroup 0 or of any number of older agegroups, reclaims a
\* chunk that the roots reach or changes what it holds, except for weakrefs
\* to reclaimed chunks.
THEOREM GraphIsPreserved ==
    ASSUME CardsSuffice
    PROVE  Spec => CleaningPreservesTheGraph
<1>1. ASSUME AInv, [Next]_vars, fromspace # {}, fromspace' = {},
             NEW s \in Reachable \cup Register
      PROVE  \/ field'[s] = field[s] /\ Exists(s)'
             \/ Exists(s)' /\ kind[s] = "weak" /\ kind'[field[s]] = "free"
  <2>1. pc \in {"sweep0", "sweep"} /\ unswept = {} /\ release_fromspace
    BY <1>1, EndOfCleaning DEF agegroup0_done, n_agegroups_done
  <2>. QED
    BY <1>1, <2>1, GraphSurvives
<1>2. AInv /\ [Next]_vars =>
        [fromspace # {} /\ fromspace' = {} =>
           \A s \in Reachable \cup Register :
               \/ field'[s] = field[s] /\ Exists(s)'
               \/ Exists(s)' /\ kind[s] = "weak" /\ kind'[field[s]] = "free"]_vars
  BY <1>1
<1>. QED
  BY <1>2, HeapInvariant, PTL DEF Spec, CleaningPreservesTheGraph

\* A cleaning of all agegroups keeps nothing but what the roots reach.
THEOREM AllGarbageIsReclaimed ==
    ASSUME CardsSuffice
    PROVE  Spec => FullCleaningReclaimsAllGarbage
<1>1. ASSUME AInv, AInv', [Next]_vars, pc = "sweep", pc' = "run",
             clean = ACTIVE_AGEGROUPS
      PROVE  {c \in Chunk : kind'[c] # "free"} = Reachable'
  <2>1. n_agegroups_done
    BY <1>1 DEF Next, vars, commit_nascent_heapchunk, make_large_vector,
       allocate_nonempty_code_chunk, NewChunk, store, drop, fetch,
       call_heapcleaner, scan_roots, process_task_heap_changelogs,
       sweep_agegroup1_sib_tospace, scan_copy, agegroup0_done,
       prepare_for_heapcleaning, forward_rest, n_agegroups_done,
       forward_all_chunks_referenced_by_uncleaned_agegroups
  <2>. QED
    BY <1>1, <2>1, GarbageIsReclaimed
<1>2. AInv /\ AInv' /\ [Next]_vars =>
        [pc = "sweep" /\ pc' = "run" /\ clean = ACTIVE_AGEGROUPS =>
           {c \in Chunk : kind'[c] # "free"} = Reachable']_vars
  BY <1>1
<1>. QED
  BY <1>2, HeapInvariant, PTL DEF Spec, FullCleaningReclaimsAllGarbage
=============================================================================
