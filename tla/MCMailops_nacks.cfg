SPECIFICATION Spec
CONSTANTS
    Threads = {t1, t2}
    s1 = s1
    s2 = s2
    d1 = d1
    o1 = o1
    q1 = q1
    n1 = n1
    n2 = n2
    Slots = {s1, s2}
    Maildrops = {}
    Oneshots = {}
    Mailqueues = {}
    Nacks = {n1, n2}
    Programs <- ServerPrograms
    Null = Null
    Stale = Stale
    MaxMail = 1
    MaxPriority = 3
CHECK_DEADLOCK FALSE
INVARIANT PartnerIsStillBlocked
