SPECIFICATION Spec
CONSTANTS
    Jobs = {j1, j2}
    Workers = {w1, w2}
    Hashes = {h1, h2, h3, h4}
    MAX_RETRIES = 5
    MaxFaults = 2
    None = None
SYMMETRY Symmetry
INVARIANTS
    TypeOK
    FinalizedIsOnChain
    SingleSubmission
    NoPhantomFailure
    RetriesUnused
    NobodyStuck
PROPERTIES
    TerminalRows
    ImplementsAbs
CHECK_DEADLOCK FALSE
