\* Two requests and one puller at once; a response holds one entity at most; requests and
\* responses get lost.
CONSTANTS
    n1 = n1
    alice = alice
    bob = bob
    Nodes = {n1}
    Entries = {e1, e2}
    Requests = {r1, r2}
    Names <- MCNames
    RawPredicates = {"is_a"}
    Upper <- MCUpper
    Allowed <- MCAllowed
    Bundles <- ShortBundles
    MaxCommits = 2
    Failures = TRUE
    Pullers = {n1}
    Domains = {general}
    NoDomain = none
    Given = {general, none}
    Typings = {TRUE, FALSE}
    Limits = {0, 1, 3}
    MaxLimit = 2
    MaxBundle = 1
SYMMETRY Symmetry
SPECIFICATION SyncSpec
INVARIANTS
    SyncTypeOK
    NothingElseIsLost
    ReceivedIsWanted
    RelationsAreGiven
CHECK_DEADLOCK FALSE
