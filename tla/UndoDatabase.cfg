SPECIFICATION Spec
CONSTANTS
    Indexes = {idx}
    Numbers <- MCNumbers
    Keys = {k1, k2}
    Payloads = {p1, p2}
    None = None
    MaxSizes = {2, 3}
    MaxNested = 3
SYMMETRY MCSymmetry
INVARIANTS
    UndoRestoresSnapshot
    UndoCannotThrow
    OpenSessionsKeepState
PROPERTY
    AbstractSpec
