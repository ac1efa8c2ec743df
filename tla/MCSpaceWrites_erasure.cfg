SPECIFICATION FairSpec
CONSTANTS
    User = {o, u, v}
    Owner = o
    Erased = {v}
    Request = {r1, r2}
INVARIANTS
    TypeOK
    DeletedSpaceIsEmpty
PROPERTIES
    ActsByRight
    EveryRequestIsAnswered
CHECK_DEADLOCK FALSE
