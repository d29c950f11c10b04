\* Two requests that do not fail and one puller whose responses may get lost; it
\* names no domains.
CONSTANTS
    n1 = n1
    alice = alice
    bob = bob
    Nodes = {n1}
    Entries = {e1, e2}
    Requests = {r1, r2}
    Names <- MCNames
    RawPredicates = {"is_a"}
    Upper <- MCUpper
    Allowed <- MCAllowed
    Bundles <- ShortBundles
    MaxCommits = 2
    Failures = FALSE
    Pullers = {n1}
    Domains = {}
    NoDomain = none
    Given = {none}
    Typings = {TRUE, FALSE}
    Limits = {1, 2}
    MaxLimit = 2
    MaxBundle = 1
SPECIFICATION FairSyncSpec
INVARIANT AvailableIsCommitted
PROPERTIES
    SanctionedGetsCommitted
    PullsCatchUp
CHECK_DEADLOCK FALSE
