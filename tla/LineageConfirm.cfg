SPECIFICATION Spec
CONSTANTS
    l1 = l1
    l2 = l2
    w1 = w1
    w2 = w2
    p1 = p1
    p2 = p2
    Lineages = {l1}
    Callers = {w1, w2}
    Passes = {p1}
    MaxVersions = 2
    MaxRecs = 1
    MaxEvidence = 1
    MaxSelections = 1
    MaxClock = 1
    MaxFailures = 0
SYMMETRY Interchangeable
CHECK_DEADLOCK FALSE
INVARIANTS
    AuthorizedOnce
PROPERTIES
    EndIsFinal
    ApprovesOnlyHead
    ReportIsTrue
