\* An unblock and a push of the same node beside it.
CONSTANTS
    Nodes = {n1}
    Requests = {r1, r2}
    Pushed <- CleanOrSensitive
    MaxTriples = 1
    MaxEntities = 1
    MaxField = 2
    Soft = 1
    Hard = 3
    Rate = 2
    MaxPushes = 2
    Failures = FALSE
SPECIFICATION Spec
PROPERTY UnblockFrees
CHECK_DEADLOCK FALSE
