SPECIFICATION FairSpec
CONSTANTS
    Jobs = {j1}
    Workers = {w1}
    Hashes = {h1, h2}
    MAX_RETRIES = 5
    MaxFaults = 1
    None = None
PROPERTY FailedIsRetried
CHECK_DEADLOCK FALSE
