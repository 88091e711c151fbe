SPECIFICATION Spec
CONSTANTS
    Requests = {r1, r2, r3}
    Tasks = {t1, t2}
    Agents = {a1}
    Budgets = {1, 4, 8}
    Intents <- MCIntents
    I64_SIZE = 4
    U64_SIZE = 8
    MaxFaults = 1
    MaxRestarts = 1
    None = None
SYMMETRY Symmetry
INVARIANTS
    TypeOK
    AckIsStored
    OutboxHasSubject
    TaskOfResultCompleted
    HandlersQueueCalls
    QueuedFailsOnNumber
    UnbackedOnlyByFailure
PROPERTY StatusNeverRegresses
CHECK_DEADLOCK FALSE
