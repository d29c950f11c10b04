\* One request of each kind at a time, any of which may die at any await.
CONSTANTS
    n1 = n1
    alice = alice
    bob = bob
    Nodes = {n1}
    Requests = {r1}
    Registrars = {h1}
    Reviewers = {a1}
    Keys = {k1, k2}
    NoKey = NoKey
    Pushed <- MCPushed
    MaxTriples = 1
    MaxEntities = 1
    MaxField = 2
    Soft = 1
    Hard = 3
    Rate = 1
    MaxPushes = 2
    Entries = {e1, e2}
    Names <- MCNames
    RawPredicates = {"is_a"}
    Upper <- MCUpper
    Allowed <- MCAllowed
    MaxCommits = 1
    Stored <- MCStored
    Knowledge <- MCKnowledge
    Failures = TRUE
SYMMETRY Symmetry
SPECIFICATION HubSpec
INVARIANTS
    HubTypeOK
    VettedOnly
PROPERTIES
    ClosedDrains
CHECK_DEADLOCK FALSE
