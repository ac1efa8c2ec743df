CONSTANTS
    usd = usd
    wallet = wallet
    owner = owner
    Actor = {owner, mate}
    Manager <- MCManager
    Account = {wallet}
    Currency = {usd, eur}
    CurrencyOf <- MCCurrencyOf
    Day = {1, 2}
    OpenedAt <- MCOpenedAt
    Name = {food, fun}
    Category = {c1, c2}
    Expense = {x1, x2}
    Limit = {l1, l2}
    Plan = {p1}
    None = None
SPECIFICATION Spec
SYMMETRY Ids
CHECK_DEADLOCK FALSE
INVARIANTS
    TypeOK
    AuditIsClean
    ExpenseCountsOnce
PROPERTIES
    ClosedForGood
    NothingJoinsArchived
