SPECIFICATION Spec
CONSTANTS
    Threads = {t0, t1}
    Tasks = {k0, k1}
    DefaultThread = t0
    DefaultTask = k0
    Idle = Idle
    Soon = Soon
    MaxRequests = 0
    MaxTeam = 1
    Calls = {"kill", "mail", "raise", "wait"}
    Awaited = {t0, t1, k1}
CHECK_DEADLOCK FALSE
INVARIANTS
    TypeOK
    EveryThreadInOnePlace
    DeathIsAnnounced
    AliveThreadsAreCounted
PROPERTY ThreadDiesOnce
