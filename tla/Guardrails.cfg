SPECIFICATION Spec
CONSTANTS
    o1 = o1
    o2 = o2
    Owners = {o1, o2}
    Requests <- Asked
    Legacy <- Unversioned
    Markets <- Inputs
    Edits = {43, 45}
    MaxVersions = 3
    MaxMantissa = 62
SYMMETRY Interchangeable
INVARIANTS
    LimitsOnlyTighten
    OffersObeyEveryLimit
    FirstBlockerIsFirstFailure
