SPECIFICATION FairSpec
CONSTANTS
    safety = safety
    j1 = j1
    j2 = j2
    j3 = j3
    j4 = j4
    Keys = {safety}
    UrgentKeys = {safety}
    Jobs = {j1, j2, j3, j4}
    MaxAttempts = 3
    MaxFailures = 2
CHECK_DEADLOCK FALSE
INVARIANTS
    TypeOK
    PendingIsDriven
    RowIsTruthful
    DuplicatesAreLosses
PROPERTY
    EveryIntentConcludes
