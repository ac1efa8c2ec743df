SPECIFICATION SpecAll
CONSTANTS
    User = {u1}
    Invitation = {}
    Permission = {}
    Ttl = 1
    Worker = {w1}
    Lease = 1
SYMMETRY Ids
INVARIANTS
    CompletedIsClean
CHECK_DEADLOCK FALSE
