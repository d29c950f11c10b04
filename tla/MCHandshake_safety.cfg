\* Two requests at once over two nodes, with failures.
CONSTANTS
    Nodes = {n1, n2}
    Requests = {r1, r2}
    Keys = {k1, k2, k3}
    NoKey = NoKey
    Failures = TRUE
SYMMETRY Symmetry
SPECIFICATION Spec
INVARIANTS
    TypeOK
    AuthenticatesAdmitted
    AnswerIsRecorded
    KeyIsSomewhere
PROPERTIES
    ImplementsAdmission
    RejectionIsFinal
    KeyStands
CHECK_DEADLOCK FALSE
