\* Two requests at once that may die at any await; every time-to-live runs out.
CONSTANTS
    Nodes = {n1}
    Requests = {r1, r2}
    Pushed <- CleanOrBroken
    MaxTriples = 1
    MaxEntities = 1
    MaxField = 2
    Soft = 1
    Hard = 6
    Rate = 1
    MaxPushes = 4
    Failures = TRUE
SPECIFICATION FairSpec
INVARIANTS
    TypeOK
    NoEscape
    WindowCap
    LimitedCap
    CountersEnd
PROPERTIES
    UnblockSettles
    StrikesLapse
    WindowCloses
CHECK_DEADLOCK FALSE
