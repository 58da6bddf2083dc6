SPECIFICATION FairSpec
CONSTANTS
    c1 = c1
    a1 = a1
    river = river
    http = http
    Cards = {c1}
    Actions = {a1}
    ActionOf <- OneCard
    Callers = {river, http}
    RiverWorkers = {river}
    Modes = {"write", "dark"}
    MaxAttempts = 3
    MaxFailures = 1
PROPERTY
    EveryCardSettles
