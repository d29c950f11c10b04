\* A second commit holds a triple of two old entities; the node names no domains.
CONSTANTS
    n1 = n1
    alice = alice
    bob = bob
    Nodes = {n1}
    Entries = {e1, e2}
    Requests = {r1}
    Names <- MCNames
    RawPredicates = {"is_a"}
    Upper <- MCUpper
    Allowed <- MCAllowed
    Bundles <- MCBundles
    MaxCommits = 2
    Failures = FALSE
    Pullers = {n1}
    Domains = {}
    NoDomain = none
    Given = {none}
    Typings = {TRUE}
    Limits = {3}
    MaxLimit = 10
    MaxBundle = 5
SPECIFICATION SyncSpec
INVARIANT TriplesAreDelivered
CHECK_DEADLOCK FALSE
