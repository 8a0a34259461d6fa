SPECIFICATION Spec
CONSTANTS
    None = None
    j1 = j1
    j2 = j2
    j3 = j3
    p1 = p1
    p2 = p2
    a = a
    b = b
    Peers = {p1}
    Labels = {a}
    Jobs = {j1, j2, j3}
    U32Max = 1
    MaxSessions = 1
    MaxFaults = 2
PROPERTIES OwnRowOnly
CHECK_DEADLOCK FALSE
