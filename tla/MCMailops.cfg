SPECIFICATION Spec
CONSTANTS
    Threads = {t1, t2, t3}
    s1 = s1
    s2 = s2
    d1 = d1
    o1 = o1
    q1 = q1
    n1 = n1
    n2 = n2
    Slots = {s1, s2}
    Maildrops = {d1}
    Oneshots = {o1}
    Mailqueues = {q1}
    Nacks = {n1, n2}
    Programs <- PassingPrograms
    Null = Null
    Stale = Stale
    MaxMail = 2
    MaxPriority = 3
SYMMETRY Symmetry
CHECK_DEADLOCK FALSE
INVARIANTS
    NobodyWaitsInVain
    NoReadyMailopIsPassedOver
PROPERTY
    ExchangesMail
