\* The periodic sync and one admin's, over two servers and two commits of the
\* registry, with crashes and kills at any time.
CONSTANTS
    Admins = {a1}
    Servers = {s1, s2}
    MaxVersion = 2
    AdminKeyLength = 32
SPECIFICATION Spec
INVARIANTS
    TypeOK
    CheckoutIsWhole
PROPERTIES
    CacheAdvances
    PeriodicGoesOn
    CatchesUp
    StartsWithoutGraph
CHECK_DEADLOCK FALSE
