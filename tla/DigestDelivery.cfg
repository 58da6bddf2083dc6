SPECIFICATION FairSpec
CONSTANTS
    d1 = d1
    d2 = d2
    j1 = j1
    j2 = j2
    Deliveries = {d1}
    Jobs = {j1, j2}
    MaxAttempts = 3
    MaxNotes = 2
    MaxFailures = 4
CHECK_DEADLOCK FALSE
INVARIANTS
    ZeroResend
    RecordIsTruthful
    SignalIsPersisted
PROPERTY
    EveryDeliveryFinishes
