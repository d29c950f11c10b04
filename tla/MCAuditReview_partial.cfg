\* An approval fails between two statements.
CONSTANTS
    n1 = n1
    n2 = n2
    alice = alice
    bob = bob
    Nodes = {n1, n2}
    Entries = {e1}
    Requests = {r1}
    Names <- MCNames
    RawPredicates <- MCRaw
    Upper <- MCUpper
    Allowed <- MCAllowed
    Bundles <- FirstOnly
    MaxCommits = 1
    Failures = TRUE
SPECIFICATION Spec
INVARIANT AvailableIsApproved
CHECK_DEADLOCK FALSE
