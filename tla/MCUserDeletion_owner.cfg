SPECIFICATION SpecAll
CONSTANTS
    User = {u1, u2}
    Invitation = {i1}
    Permission = {}
    Ttl = 1
    Worker = {w1}
    Lease = 1
SYMMETRY Ids
INVARIANTS
    OwnerIsActive
CHECK_DEADLOCK FALSE
