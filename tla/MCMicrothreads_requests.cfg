SPECIFICATION FairSpec
CONSTANTS
    Threads = {t0, t1}
    Tasks = {k0}
    DefaultThread = t0
    DefaultTask = k0
    Idle = Idle
    Soon = Soon
    MaxRequests = 2
    MaxTeam = 0
    Calls = {}
    Awaited = {}
CHECK_DEADLOCK FALSE
INVARIANTS
    RequestsBeginInOrder
    NoEarlyShutdown
PROPERTIES
    ForegroundIsServed
    RequestsAreServed
