SPECIFICATION FairSpec
CONSTANTS
    Threads = {t0, t1, t2}
    Tasks = {k0, k1}
    DefaultThread = t0
    DefaultTask = k0
    Idle = Idle
    Soon = Soon
    MaxRequests = 0
    MaxTeam = 1
    Calls = {"kill"}
    Awaited = {}
CHECK_DEADLOCK FALSE
PROPERTY OnlyTheLivingRun
