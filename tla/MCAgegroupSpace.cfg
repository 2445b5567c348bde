SPECIFICATION Spec
CONSTANTS
    Hostthread = {h1, h2}
    MAX_HOSTTHREADS = 2
    ACTIVE_AGEGROUPS = 3
    LIMIT = 1
    MIN_FREE = 1
    BOOK = 2
    soft_max_bytesize <- SoftMax
    RATIO = 4
    Kind = {"rw", "ro"}
    Bytesize = {1}
    MAX_CLEANINGS = 1
    MAX_USED <- MaxUsed
SYMMETRY Symmetry
CHECK_DEADLOCK FALSE
INVARIANTS
    NoTospaceOverflow
    RoomForOneAgegroup0
PROPERTIES
    RequestIsGranted
