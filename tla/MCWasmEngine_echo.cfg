SPECIFICATION Spec
CONSTANTS
    Bytes = {0, 1}
    MaxInput = 10
    Json <- MCJson
    HEAP_BASE = 6
    MEMORY = 8
    PAGE = 4
    U32_SIZE = 32
    Error = Error
INVARIANT WasmEchoes
CHECK_DEADLOCK FALSE
