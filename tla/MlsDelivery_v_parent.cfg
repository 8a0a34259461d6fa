SPECIFICATION Spec
CONSTANTS
    Members = {1, 2}
    Founders = {1, 2}
    Hashes = {1, 2}
    Payloads = {}
    Comparator = "summary"
    MaxEpoch = 2
    MaxCommits = 1
    MaxInbox = 1
    MaxTime = 0
    WelcomeTtl = 0
PROPERTIES CommitExtendsState
CHECK_DEADLOCK FALSE
