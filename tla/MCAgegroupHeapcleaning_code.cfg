SPECIFICATION ProgramSpec
CONSTANTS
    Refcell1 = Refcell1
    Refcell2 = Refcell2
    Record = Record
    OldCode = OldCode
    NewCode = NewCode
    ra = ra
    rb = rb
    rc = rc
    rd = rd
    Chunk = {Refcell1, Refcell2, Record, OldCode, NewCode}
    Register = {ra, rb, rc, rd}
    Card = {k1}
    NIL = NIL
    ACTIVE_AGEGROUPS = 5
    CODECHUNK_ALLOCATION_AGEGROUP = 2
    RwHoldsCode = TRUE
    MAX_OF_KIND <- TwoOfEachKind
INVARIANT InterAgegroupPointersAreKnown
