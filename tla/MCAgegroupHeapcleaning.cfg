SPECIFICATION Spec
CONSTANTS
    Chunk = {c1, c2, c3}
    Register = {r1, r2}
    Card = {k1}
    NIL = NIL
    ACTIVE_AGEGROUPS = 3
    CODECHUNK_ALLOCATION_AGEGROUP = 2
    RwHoldsCode = TRUE
    MAX_OF_KIND <- MaxOfKind
    Refcell1 = Refcell1
    Refcell2 = Refcell2
    Record = Record
    OldCode = OldCode
    NewCode = NewCode
    ra = ra
    rb = rb
    rc = rc
    rd = rd
SYMMETRY Symmetry
INVARIANTS
    TypeOK
    NoDanglingPointers
    InterAgegroupPointersAreKnown
PROPERTIES
    FullCleaningReclaimsAllGarbage
    CleaningPreservesTheGraph
