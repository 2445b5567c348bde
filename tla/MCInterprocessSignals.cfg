SPECIFICATION FairSpec
CONSTANTS
    N = 2
    Fixed = {}
    Unblockable = {}
    Threads = {t1}
    HandlersChangeSignals = FALSE
    MAX_SENT = 3
    MAX_MASK = 1
INVARIANTS
    SignalsAreNoticed
    NoSignalIsLost
    HandlersDoNotNest
    NoSignalIsPassedOver
PROPERTIES
    SeenSignalIsHandled
CHECK_DEADLOCK FALSE
