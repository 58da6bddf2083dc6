SPECIFICATION Spec
CONSTANTS
    c1 = c1
    a1 = a1
    river = river
    http = http
    Cards = {c1}
    Actions = {a1}
    ActionOf <- OneCard
    Callers = {river, http}
    RiverWorkers = {river}
    Modes = {"write", "recommend_only", "dark"}
    MaxAttempts = 1
    MaxFailures = 1
INVARIANTS
    AtMostOneWrite
    WriteIsAuthorized
    MarkerForeclosesWrite
    OutcomeIsEvidenced
PROPERTY
    ImplementsLedger
