\* Two requests at once over two entries of two nodes, with failures.
CONSTANTS
    n1 = n1
    n2 = n2
    alice = alice
    bob = bob
    Nodes = {n1, n2}
    Entries = {e1, e2}
    Requests = {r1, r2}
    Names <- MCNames
    RawPredicates <- MCRaw
    Upper <- MCUpper
    Allowed <- MCAllowed
    Bundles <- MCBundles
    MaxCommits = 2
    Failures = TRUE
SYMMETRY Symmetry
SPECIFICATION Spec
INVARIANTS
    TypeOK
    ApprovedIsPublished
    PublishedIsSanctioned
    LogAgreesWithQueue
    CreditIsOwned
PROPERTIES
    DecisionSettles
    ImplementsLedger
CHECK_DEADLOCK FALSE
