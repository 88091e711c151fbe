SPECIFICATION Spec
CONSTANTS
    Replicas = {r1, r2}
    Bodies <- MCBodies
    MaxEvents = 2
    MaxBlocks = 3
    MaxFaults = 1
    None = None
SYMMETRY Symmetry
INVARIANTS
    TypeOK
    CursorOnRecorded
    NoSilentSkip
    MirrorIsFinalized
PROPERTY
    ImplementsMirror
CHECK_DEADLOCK FALSE
