SPECIFICATION FairSpec
CONSTANTS
    p1 = p1
    p2 = p2
    m1 = m1
    m2 = m2
    m3 = m3
    Messages = {m1}
    Peers = {p1, p2}
    Kind = "channel"
    PumpLimit = 16
    MaxEpoch = 1
    MaxRemoved = 1
    MaxFaults = 1
INVARIANTS TypeOK ReceiptsAreTrue RecordsConsistent
PROPERTIES DeliveryPromise EventuallyReceipted
CHECK_DEADLOCK FALSE
