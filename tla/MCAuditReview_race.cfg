\* Two reviews of one entry overlap.
CONSTANTS
    n1 = n1
    n2 = n2
    alice = alice
    bob = bob
    Nodes = {n1, n2}
    Entries = {e1}
    Requests = {r1, r2}
    Names <- MCNames
    RawPredicates <- MCRaw
    Upper <- MCUpper
    Allowed <- MCAllowed
    Bundles <- FirstOnly
    MaxCommits = 2
    Failures = FALSE
SPECIFICATION Spec
PROPERTY DecisionIsFinal
CHECK_DEADLOCK FALSE
