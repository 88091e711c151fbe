SPECIFICATION BridgeSpec
CONSTANTS
    Jobs = {j1, j2}
    Workers = {w1}
    Hashes = {h1, h2}
    BACKFILL_LIMIT = 1
    MAX_RETRIES = 5
    MaxFaults = 1
    MaxReplayFaults = 1
    None = None
SYMMETRY Symmetry
INVARIANTS
    BridgeTypeOK
    ChainIdCorrect
    UnlinkedIsExplained
    MirrorReconciles
PROPERTIES
    IdsAreFinal
    ImplementsOutbox
CHECK_DEADLOCK FALSE
