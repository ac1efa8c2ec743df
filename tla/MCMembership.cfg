SPECIFICATION Spec
CONSTANTS
    User = {u1, u2, u3}
    Invitation = {i1, i2, i3}
    Permission = {manageAccounts, manageTransactions}
    Ttl = 2
SYMMETRY Ids
INVARIANTS
    TypeOK
    OwnerIsActive
    DeletedSpaceIsClosed
    RightsAreNotInherited
    JournalIsTrue
PROPERTIES
    JoinsByInvitation
    HistoryIsKept
CHECK_DEADLOCK FALSE
