SPECIFICATION FairBridgeSpec
CONSTANTS
    Jobs = {j1}
    Workers = {w1}
    Hashes = {h1}
    BACKFILL_LIMIT = 50
    MAX_RETRIES = 5
    MaxFaults = 0
    MaxReplayFaults = 0
    None = None
PROPERTY FinalizedSurfacesId
CHECK_DEADLOCK FALSE
