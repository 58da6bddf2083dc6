SPECIFICATION Spec
CONSTANTS
    l1 = l1
    l2 = l2
    w1 = w1
    w2 = w2
    p1 = p1
    p2 = p2
    Lineages = {l1}
    Callers = {}
    Passes = {p1, p2}
    MaxVersions = 3
    MaxRecs = 2
    MaxEvidence = 2
    MaxSelections = 0
    MaxClock = 1
    MaxFailures = 1
SYMMETRY Interchangeable
CHECK_DEADLOCK FALSE
INVARIANTS
    NewerEvidenceOnly
    EditsAreLinear
