SPECIFICATION Spec
CONSTANTS
    p1 = p1
    p2 = p2
    m1 = m1
    m2 = m2
    m3 = m3
    Messages = {m1, m2, m3}
    Peers = {p1}
    Kind = "dm"
    PumpLimit = 2
    MaxEpoch = 0
    MaxRemoved = 0
    MaxFaults = 2
INVARIANTS ReceiptsAreTrue RecordsConsistent
PROPERTIES DeliveryPromise
CHECK_DEADLOCK FALSE
