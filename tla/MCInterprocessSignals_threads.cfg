SPECIFICATION Spec
CONSTANTS
    N = 2
    Fixed = {1}
    Unblockable = {1}
    Threads = {t1, t2}
    HandlersChangeSignals = FALSE
    MAX_SENT = 2
    MAX_MASK = 1
INVARIANTS
    KernelAgreesWithTable
SYMMETRY Symmetry
CHECK_DEADLOCK FALSE
