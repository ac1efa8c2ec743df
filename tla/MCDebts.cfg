CONSTANTS
    usd = usd
    wallet = wallet
    Actor = {owner, mate}
    Owner = owner
    Manager = {}
    Account = {wallet}
    Currency = {usd, eur}
    CurrencyOf <- MCCurrencyOf
    Day = {1, 2}
    OpenedAt <- MCOpenedAt
    Debt = {d1}
    Repayment = {r1, r2}
    Income = {i1, i2}
    None = None
    MaxAmount = 2
SPECIFICATION Spec
SYMMETRY Ids
CHECK_DEADLOCK FALSE
INVARIANTS
    TypeOK
    AuditIsClean
PROPERTIES
    ArchivedIsFrozen
    ImplementsDebtBook
