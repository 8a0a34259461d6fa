SPECIFICATION FairSpec
CONSTANTS
    None = None
    Ui = Ui
    j1 = j1
    j2 = j2
    j3 = j3
    j4 = j4
    m1 = m1
    m2 = m2
    m3 = m3
    p1 = p1
    a = a
    b = b
    Peers = {p1}
    Labels = {a, b}
    Budget = 1
    U32Max = 2
    Jobs = {j1, j2, j3}
    Managers = {m1, m2}
    MaxSessions = 2
    MaxFaults = 1
    MaxCalls = 2
INVARIANTS ReattachesOnlyCurrentSession
PROPERTIES SupervisionReattaches
CHECK_DEADLOCK FALSE
