SPECIFICATION Spec
CONSTANTS
    User = {o, u}
    Owner = o
    Erased = {}
    Request = {r1, r2}
SYMMETRY Ids
INVARIANTS
    UnavailableMeansRollback
CHECK_DEADLOCK FALSE
