SPECIFICATION Spec
CONSTANTS
    l1 = l1
    l2 = l2
    w1 = w1
    w2 = w2
    p1 = p1
    p2 = p2
    Lineages = {l1, l2}
    Callers = {w1}
    Passes = {p1}
    MaxVersions = 1
    MaxRecs = 1
    MaxEvidence = 1
    MaxSelections = 2
    MaxClock = 1
    MaxFailures = 1
SYMMETRY Interchangeable
CHECK_DEADLOCK FALSE
PROPERTIES
    EveryMemberIsReported
