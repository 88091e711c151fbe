SPECIFICATION Spec
CONSTANTS
    Replicas = {r1}
    Bodies <- MCBodies
    MaxEvents = 2
    MaxBlocks = 3
    MaxFaults = 1
    None = None
INVARIANT ReplaysFromCursor
CHECK_DEADLOCK FALSE
