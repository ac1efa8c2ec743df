SPECIFICATION Spec
CONSTANTS
    Account = {a1, a2}
    Row = {r1, r2}
    Currency = {RUB, USD}
    Day <- MCDay
    MonthEnd <- MCMonthEnd
    MaxAmount = 2
SYMMETRY Ids
INVARIANTS
    TypeOK
    SnapshotsMatchLedger
    ReferencesHold
    MoneyConserved
    ReportsAddUp
PROPERTIES
    ArchivedIsFrozen
    TransfersAreCovered
    ImplementsBook
CHECK_DEADLOCK FALSE
