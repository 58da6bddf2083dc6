SPECIFICATION Spec
CONSTANTS
    c1 = c1
    c2 = c2
    Calls = {c1, c2}
    MaxGen = 2
    MaxRuns = 2
    MaxPages = 2
    MaxAttempts = 2
    MaxFailures = 1
CHECK_DEADLOCK FALSE
SYMMETRY Interchangeable
INVARIANTS
    RegistryIsCurrent
    RunsAreWhole
    RunInFlightIsDriven
