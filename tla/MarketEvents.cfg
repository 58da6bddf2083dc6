SPECIFICATION FairSpec
CONSTANTS
    s1 = s1
    s2 = s2
    p1 = p1
    p2 = p2
    Order <- TwoSellers
    DedupKey <- OfferOf
    Sightings <- SightingsOf
    Refused = {s1}
    Passes = {p1, p2}
    Prices = {100, 110, 120, 150}
    MoveBp = 1500
    MaxInstant = 3
    SweepInstants = {0, 2, 3}
    PageLimit = 2
    MaxFailures = 1
CHECK_DEADLOCK FALSE
INVARIANTS
    EventTypeOK
    NothingSkipped
    EveryEventIsAnnouncedOnce
PROPERTY
    EveryStreamIsDrained
