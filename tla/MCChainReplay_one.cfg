SPECIFICATION FairSpec
CONSTANTS
    Replicas = {r1}
    Bodies <- MCBodies
    MaxEvents = 2
    MaxBlocks = 3
    MaxFaults = 2
    None = None
PROPERTIES
    CursorMonotone
    NoReapply
    EventuallyIngested
CHECK_DEADLOCK FALSE
