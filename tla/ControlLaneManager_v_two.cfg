SPECIFICATION Spec
CONSTANTS
    None = None
    Ui = Ui
    m1 = m1
    m2 = m2
    m3 = m3
    a1 = a1
    a2 = a2
    s1 = s1
    s2 = s2
    Budget = 2
    U32Max = 4
    MaxCalls = 3
    Sessions = {s1}
    Managers = {m1, m2}
    Attachers = {a1, a2}
INVARIANTS OneManagerPerSession
CHECK_DEADLOCK FALSE
