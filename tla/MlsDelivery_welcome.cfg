SPECIFICATION FairSpec
CONSTANTS
    Members = {1, 2, 3}
    Founders = {1, 2}
    Hashes = {1, 2, 3}
    Payloads = {}
    Comparator = "summary"
    MaxEpoch = 1
    MaxCommits = 1
    MaxInbox = 2
    MaxTime = 1
    WelcomeTtl = 0
PROPERTIES Convergence
CHECK_DEADLOCK FALSE
