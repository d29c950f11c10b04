\* A walk over five entries in pages of two.
CONSTANTS
    Entries = {e1, e2, e3, e4, e5}
    PerPage = 2
SYMMETRY Symmetry
SPECIFICATION Spec
INVARIANTS
    TypeOK
    OverlookedAreDeparted
CHECK_DEADLOCK FALSE
