SPECIFICATION FairSpec
CONSTANTS
    Jobs = {j1, j2}
    Workers = {w1, w2}
    Hashes = {h1, h2, h3}
    MAX_RETRIES = 5
    MaxFaults = 1
    None = None
PROPERTY PendingResolved
CHECK_DEADLOCK FALSE
