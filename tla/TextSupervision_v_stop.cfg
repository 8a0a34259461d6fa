SPECIFICATION FairSpec
CONSTANTS
    None = None
    Ui = Ui
    j1 = j1
    j2 = j2
    j3 = j3
    j4 = j4
    m1 = m1
    m2 = m2
    m3 = m3
    p1 = p1
    a = a
    b = b
    Peers = {p1}
    Labels = {a}
    Budget = 1
    U32Max = 2
    Jobs = {j1, j2, j3}
    Managers = {m1, m2}
    MaxSessions = 1
    MaxFaults = 0
    MaxCalls = 2
PROPERTIES SupervisionEndsWithSession
CHECK_DEADLOCK FALSE
