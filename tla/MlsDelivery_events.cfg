SPECIFICATION Spec
CONSTANTS
    Members = {1, 2}
    Founders = {1, 2}
    Hashes = {1, 2}
    Payloads = {1}
    Comparator = "history"
    MaxEpoch = 2
    MaxCommits = 2
    MaxInbox = 1
    MaxTime = 0
    WelcomeTtl = 0
INVARIANTS GaplessHistory
PROPERTIES EventsAcceptedInTheirEpoch EpochNeverDecreases
CHECK_DEADLOCK FALSE
