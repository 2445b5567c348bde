SPECIFICATION FairSpec
CONSTANTS
    Tasks = {t1, t2}
    Servers = {s1, s2}
    DO_STOP = DO_STOP
    None = None
    MAX_PIDS = 2
INVARIANTS
    CountsAreRight
    UsefulWorkIsSeen
    OrdersLeadToDesired
PROPERTIES
    ServesInOrder
    RequestIsTaken
    ChangeCompletes
