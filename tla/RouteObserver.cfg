SPECIFICATION FairSpec
CONSTANTS
    w1 = w1
    w2 = w2
    Workers = {w1, w2}
    AccountSlots = 2
    HostSlots = 1
    MaxRetries = 1
    RequestLimit = 2
    ByteLimit = 1
    RefusedThreshold = 2
    MaxWindow = 1
    MaxRestarts = 1
CHECK_DEADLOCK FALSE
INVARIANTS
    TypeOK
    BudgetHolds
    HalfOpenIsProbed
PROPERTY
    EveryCallEnds
