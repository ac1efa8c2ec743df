SPECIFICATION FairSpec
CONSTANTS
    User = {u1}
    Invitation = {}
    Permission = {}
    Ttl = 1
    Worker = {w1, w2}
    Lease = 2
INVARIANTS
    AllTypeOK
    StageFollowsWork
    OnlyDeletionOrphans
PROPERTIES
    DeletionIsIrreversible
    LeaseIsRespected
    DeletionCompletes
CHECK_DEADLOCK FALSE
