SPECIFICATION Spec
CONSTANTS
    route_b = route_b
    route_c = route_c
    v1 = v1
    v2 = v2
    i1 = i1
    i2 = i2
    Routes = {route_b, route_c}
    Values = {v1, v2}
    NoPrice = NoPrice
    Arriving <- Reports
    Ingests = {i1, i2}
    Window = 2
    MaxClock = 3
    MaxEvidence = 2
SYMMETRY Interchangeable
CHECK_DEADLOCK FALSE
INVARIANTS
    TypeOK
    OfferIsEvidenced
    ConflictBlocks
PROPERTIES
    BlockIsLiftedByEvidence
