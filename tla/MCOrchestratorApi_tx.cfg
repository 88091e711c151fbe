SPECIFICATION Spec
CONSTANTS
    Requests = {r1, r2}
    Tasks = {t1}
    Agents = {a1}
    Budgets = {1}
    Intents <- MCIntents
    I64_SIZE = 4
    U64_SIZE = 8
    MaxFaults = 0
    MaxRestarts = 0
    None = None
INVARIANT CompletedHasResult
CHECK_DEADLOCK FALSE
