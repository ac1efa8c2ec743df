SPECIFICATION Spec
CONSTANTS
    User = {o, u}
    Owner = o
    Erased = {}
    Request = {r1, r2, r3}
SYMMETRY Ids
INVARIANTS
    NoWriteIsLost
PROPERTIES
    ImplementsSerial
CHECK_DEADLOCK FALSE
