------------------------------- MODULE Ledger -------------------------------
(***************************************************************************)
(* The financial ledger of one space: its accounts, the income, expense    *)
(* and transfer rows that move their money, and the monthly snapshots that *)
(* cache the balances (AccountsService, TransactionsService,               *)
(* IncomesService, ExpensesService, TransfersService and                   *)
(* AccountsSnapshotsService).                                              *)
(*                                                                         *)
(* Every operation runs inside BudgetWriteService.run, one MongoDB         *)
(* transaction that first increments the space's mutationVersion, so an    *)
(* operation that succeeds is one atomic step here; an operation that      *)
(* throws is rolled back and is no step.  Module SpaceWrites models that   *)
(* transaction.  Who may run an operation is decided there too: the        *)
(* actions below are what an authorised request does.                      *)
(*                                                                         *)
(* Money is counted in minor units of the account's currency, the unit     *)
(* normalizeMoney rounds to and hasValidMoneyPrecision insists on.         *)
(***************************************************************************)
EXTENDS Integers, FiniteSets, Functions

CONSTANTS
    Account,     \* account ids
    Row,         \* ids of income, expense and transfer rows
    Currency,    \* currency codes
    Day,         \* dates, as numbers
    MonthEnd,    \* utcMonthEnd: the last day of a day's month
    MaxAmount    \* bound on the amount of a leg and on an opening balance

Amount == 1 .. MaxAmount

ASSUME LedgerAssumption ==
    /\ IsFiniteSet(Row)
    /\ Day \subseteq Int
    /\ MonthEnd \in [Day -> Day]
    /\ \A d \in Day : d <= MonthEnd[d] /\ MonthEnd[MonthEnd[d]] = MonthEnd[d]
    /\ \A d, e \in Day : d <= e => MonthEnd[d] <= MonthEnd[e]
    /\ MaxAmount \in Nat

VARIABLES
    accounts,    \* the stored accounts: id -> document
    rows,        \* the stored rows, soft-deleted ones included: id -> document
    snapshots    \* the stored snapshots: account id -> (month end -> amount)

vars == <<accounts, rows, snapshots>>

AccountDocument ==
    [state : {"open", "archived"}, currency : Currency, initialAmount : 0 .. MaxAmount,
     openedAt : Day]

(* A transfer moves `amount` out of `account` and `received` into          *)
(* `destination`; an income or an expense has the one leg `account`.       *)
RowDocument ==
    [state : {"active", "deleted"}, type : {"income", "expense", "transfer"},
     account : Account, amount : Amount,
     destination : Account, received : Amount, date : Day]

IsCollection(f, Id, Document) ==
    DOMAIN f \subseteq Id /\ f \in [DOMAIN f -> Document]

Put(f, id, document) ==
    [x \in DOMAIN f \cup {id} |-> IF x = id THEN document ELSE f[x]]

MonthEnds == {MonthEnd[d] : d \in Day}

-----------------------------------------------------------------------------
(* Balances: balanceForBudget sums, over the rows of the account that are  *)
(* not deleted and not later than the day, what each row brings it.        *)

Involves(row, a) ==
    row.account = a \/ (row.type = "transfer" /\ row.destination = a)

Credit(row, a) ==
    IF row.type = "income" THEN row.amount
    ELSE IF row.type = "transfer" /\ row.account # a THEN row.received
    ELSE 0

Debit(row, a) ==
    IF row.type = "expense" \/ (row.type = "transfer" /\ row.account = a)
    THEN row.amount ELSE 0

Counted(rs, a, day) ==
    {r \in DOMAIN rs :
        rs[r].state = "active" /\ Involves(rs[r], a) /\ rs[r].date <= day}

CreditUnits(rs, a, day) ==
    {u \in Counted(rs, a, day) \X Amount : u[2] <= Credit(rs[u[1]], a)}

DebitUnits(rs, a, day) ==
    {u \in Counted(rs, a, day) \X Amount : u[2] <= Debit(rs[u[1]], a)}

Balance(acc, rs, a, day) ==
    IF day < acc[a].openedAt THEN 0
    ELSE acc[a].initialAmount + Cardinality(CreditUnits(rs, a, day))
                              - Cardinality(DebitUnits(rs, a, day))

(* Mutants of Rebuild: the date is not brought to the end of its month;     *)
(* only the row's own month is repriced.                                   *)
RebuildByDay(acc, rs, sn, a, from) ==
    [sn EXCEPT ![a] =
        [e \in DOMAIN sn[a] \cup {from} |->
            IF e >= from THEN Balance(acc, rs, a, e) ELSE sn[a][e]]]

RebuildOneMonth(acc, rs, sn, a, from) ==
    [sn EXCEPT ![a] =
        [e \in DOMAIN sn[a] \cup {MonthEnd[from]} |->
            IF e = MonthEnd[from] THEN Balance(acc, rs, a, e) ELSE sn[a][e]]]

(* rebuildForBudget: recompute every stored snapshot from the month of     *)
(* `from` on, and store one for that month if there is none.               *)
Rebuild(acc, rs, sn, a, from) ==
    [sn EXCEPT ![a] =
        [e \in DOMAIN sn[a] \cup {MonthEnd[from]} |->
            IF e >= MonthEnd[from] THEN Balance(acc, rs, a, e) ELSE sn[a][e]]]

(* prepareForBudget before the write, applyForBudget after it.             *)
Reprice(rs, a, from) ==
    Rebuild(accounts, rs, Rebuild(accounts, rows, snapshots, a, from), a, from)

-----------------------------------------------------------------------------
(* Accounts.                                                               *)

(* Mutant of Unlocked: archiving does not lock.                            *)
UnlockedArchived(a) == a \in DOMAIN accounts

(* accountForBudget and lockAccountsForBudget: found and not archived.     *)
Unlocked(a) == a \in DOMAIN accounts /\ accounts[a].state = "open"

CreateAccount(a, currency, amount, openedAt) ==
    /\ a \notin DOMAIN accounts
    /\ accounts' = Put(accounts, a,
            [state |-> "open", currency |-> currency,
             initialAmount |-> amount, openedAt |-> openedAt])
    /\ snapshots' = [snapshots EXCEPT ![a] =
            [e \in {MonthEnd[openedAt]} |-> amount]]
    /\ UNCHANGED rows

ArchiveAccount(a) ==
    /\ Unlocked(a)
    /\ accounts' = [accounts EXCEPT ![a].state = "archived"]
    /\ UNCHANGED <<rows, snapshots>>

(* Mutant of HasHistory: the destination of a transfer is not looked at.   *)
HasHistoryAsSource(a) == \E r \in DOMAIN rows : rows[r].account = a

(* hasHistoryForBudget: soft-deleted rows count.                           *)
HasHistory(a) == \E r \in DOMAIN rows : Involves(rows[r], a)

RemoveAccount(a) ==
    /\ a \in DOMAIN accounts
    /\ accounts[a].initialAmount = 0
    /\ ~HasHistory(a)
    /\ accounts' = [x \in DOMAIN accounts \ {a} |-> accounts[x]]
    /\ snapshots' = [snapshots EXCEPT ![a] = [e \in {} |-> 0]]
    /\ UNCHANGED rows

AccountForCreate(a, date) == Unlocked(a) /\ date >= accounts[a].openedAt

-----------------------------------------------------------------------------
(* Incomes and expenses.                                                   *)

CreateMovement(r, type, a, amount, date) ==
    /\ r \notin DOMAIN rows
    /\ AccountForCreate(a, date)
    /\ rows' = Put(rows, r,
            [state |-> "active", type |-> type, account |-> a,
             amount |-> amount, destination |-> a, received |-> amount,
             date |-> date])
    /\ snapshots' = Reprice(rows', a, date)
    /\ UNCHANGED accounts

CreateIncome(r, a, amount, date) == CreateMovement(r, "income", a, amount, date)

CreateExpense(r, a, amount, date) == CreateMovement(r, "expense", a, amount, date)

(* findOneForBudget: a stored row that is not deleted.                     *)
IsActive(r) == r \in DOMAIN rows /\ rows[r].state = "active"

IsMovement(r) == IsActive(r) /\ rows[r].type # "transfer"

UpdateTransaction(r, amount) ==
    /\ IsMovement(r)
    /\ Unlocked(rows[r].account)
    /\ rows' = [rows EXCEPT ![r].amount = amount, ![r].received = amount]
    /\ snapshots' = Rebuild(accounts, rows', snapshots, rows[r].account, rows[r].date)
    /\ UNCHANGED accounts

DeleteTransaction(r) ==
    /\ IsMovement(r)
    /\ Unlocked(rows[r].account)
    /\ rows' = [rows EXCEPT ![r].state = "deleted"]
    /\ snapshots' = Rebuild(accounts, rows', snapshots, rows[r].account, rows[r].date)
    /\ UNCHANGED accounts

-----------------------------------------------------------------------------
(* Transfers.                                                              *)

(* Mutant of ValidAmounts: one currency does not bind the two legs.        *)
AnyAmounts(source, destination, amount, received) == TRUE

ValidAmounts(source, destination, amount, received) ==
    accounts[source].currency = accounts[destination].currency
        => amount = received

(* Mutant of RebuildBoth: the source's chain is forgotten.                 *)
RebuildDestination(rs, sn, source, destination, date) ==
    Rebuild(accounts, rs, sn, destination, date)

(* apply: rebuild both chains.                                             *)
RebuildBoth(rs, sn, source, destination, date) ==
    Rebuild(accounts, rs, Rebuild(accounts, rs, sn, source, date), destination, date)

CreateTransfer(r, source, destination, amount, received, date) ==
    /\ r \notin DOMAIN rows
    /\ source # destination
    /\ AccountForCreate(source, date)
    /\ AccountForCreate(destination, date)
    /\ ValidAmounts(source, destination, amount, received)
    /\ Balance(accounts, rows, source, date) >= amount
    /\ rows' = Put(rows, r,
            [state |-> "active", type |-> "transfer", account |-> source,
             amount |-> amount, destination |-> destination,
             received |-> received, date |-> date])
    /\ snapshots' = RebuildBoth(rows',
            RebuildBoth(rows, snapshots, source, destination, date),
            source, destination, date)
    /\ UNCHANGED accounts

IsTransfer(r) ==
    /\ IsActive(r)
    /\ rows[r].type = "transfer"
    /\ Unlocked(rows[r].account)
    /\ Unlocked(rows[r].destination)

(* Mutant of ExtraDebit: the difference the wrong way round.               *)
ExtraCredit(r, amount) == rows[r].amount - amount

(* extraDebit: what an edit takes from the source beyond what it took.     *)
ExtraDebit(r, amount) == amount - rows[r].amount

UpdateTransfer(r, amount, received) ==
    LET source == rows[r].account
        destination == rows[r].destination
        extraDebit == ExtraDebit(r, amount)
    IN  /\ IsTransfer(r)
        /\ ValidAmounts(source, destination, amount, received)
        /\ extraDebit > 0
             => Balance(accounts, rows, source, rows[r].date) >= extraDebit
        /\ rows' = [rows EXCEPT ![r].amount = amount, ![r].received = received]
        /\ snapshots' = RebuildBoth(rows', snapshots, source, destination, rows[r].date)
        /\ UNCHANGED accounts

DeleteTransfer(r) ==
    /\ IsTransfer(r)
    /\ rows' = [rows EXCEPT ![r].state = "deleted"]
    /\ snapshots' = RebuildBoth(rows', snapshots, rows[r].account,
                                rows[r].destination, rows[r].date)
    /\ UNCHANGED accounts

-----------------------------------------------------------------------------

Init ==
    /\ accounts = [a \in {} |-> 0]
    /\ rows = [r \in {} |-> 0]
    /\ snapshots = [a \in Account |-> [e \in {} |-> 0]]

AccountStep ==
    \E a \in Account :
        \/ \E c \in Currency, amount \in 0 .. MaxAmount, d \in Day :
                CreateAccount(a, c, amount, d)
        \/ ArchiveAccount(a)
        \/ RemoveAccount(a)

MovementStep ==
    \E r \in Row :
        \/ \E a \in Account, amount \in Amount, d \in Day :
                \/ CreateIncome(r, a, amount, d)
                \/ CreateExpense(r, a, amount, d)
        \/ \E amount \in Amount : UpdateTransaction(r, amount)
        \/ DeleteTransaction(r)

TransferStep ==
    \E r \in Row :
        \/ \E s, t \in Account, amount, received \in Amount, d \in Day :
                CreateTransfer(r, s, t, amount, received, d)
        \/ \E amount, received \in Amount : UpdateTransfer(r, amount, received)
        \/ DeleteTransfer(r)

Next == AccountStep \/ MovementStep \/ TransferStep

Spec == Init /\ [][Next]_vars

-----------------------------------------------------------------------------
(* Properties.                                                             *)

(* The type invariant: what each collection holds.                         *)
TypeOK ==
    /\ IsCollection(accounts, Account, AccountDocument)
    /\ IsCollection(rows, Row, RowDocument)
    /\ snapshots = [a \in Account |-> snapshots[a]]
    /\ \A a \in Account : IsCollection(snapshots[a], MonthEnds, Int)

(* A cached balance is never stale: after any history of backdated         *)
(* creations, edits and deletions every stored snapshot equals the balance *)
(* recomputed from the rows (rebuildForBudget reprices all later months).  *)
SnapshotsMatchLedger ==
    \A a \in DOMAIN accounts : \A e \in DOMAIN snapshots[a] :
        snapshots[a][e] = Balance(accounts, rows, a, e)

(* No stored row, soft-deleted ones included, is left without what it      *)
(* refers to: each account it moves money on is stored, was open at its    *)
(* date, and keeps the snapshot of its month (accountId, snapshotId; the   *)
(* integrity audit reports such a row).                                    *)
ReferencesHold ==
    \A r \in DOMAIN rows, a \in Account :
        Involves(rows[r], a) =>
            /\ a \in DOMAIN accounts
            /\ accounts[a].openedAt <= rows[r].date
            /\ MonthEnd[rows[r].date] \in DOMAIN snapshots[a]

Holders(c, day) ==
    {a \in DOMAIN accounts :
        accounts[a].currency = c /\ accounts[a].openedAt <= day}

StaysIn(c, row) ==
    /\ row.type = "transfer"
    /\ accounts[row.account].currency = c
    /\ accounts[row.destination].currency = c

Outer(c, day) ==
    {r \in DOMAIN rows :
        rows[r].state = "active" /\ rows[r].date <= day /\ ~StaysIn(c, rows[r])}

Brought(r, holders) ==
    SumFunction([a \in {b \in holders : Involves(rows[r], b)} |->
        Credit(rows[r], a) - Debit(rows[r], a)])

(* Money is neither made nor lost between the accounts of a currency: on   *)
(* every day their balances add up to the opening balances and what        *)
(* incomes, expenses and exchanges with other currencies brought them.     *)
(* A transfer inside the currency, edited or deleted at will, moves none.  *)
MoneyConserved ==
    \A c \in Currency, day \in Day :
        SumFunction([a \in Holders(c, day) |-> Balance(accounts, rows, a, day)])
            = SumFunction([a \in Holders(c, day) |-> accounts[a].initialAmount])
                + SumFunction([r \in Outer(c, day) |-> Brought(r, Holders(c, day))])

(* An archived account keeps its past: whatever happens to other accounts, *)
(* its rows, its snapshots and its balance on every day stay as they were  *)
(* until it is removed, and it never reopens.                              *)
FrozenStep ==
    \A a \in DOMAIN accounts :
        accounts[a].state = "archived" /\ a \in DOMAIN accounts' =>
            /\ accounts'[a] = accounts[a]
            /\ snapshots'[a] = snapshots[a]
            /\ \A r \in DOMAIN rows' : Involves(rows'[r], a) =>
                    r \in DOMAIN rows /\ rows'[r] = rows[r]

ArchivedIsFrozen == [][FrozenStep]_vars

(* A transfer takes only money that is there on its date: a step that      *)
(* makes a transfer take more from its source leaves the source's balance  *)
(* on that date non-negative, although expenses may drive it below zero.   *)
CoveredStep ==
    \A r \in DOMAIN rows' :
        LET taken == IF r \in DOMAIN rows THEN rows[r].amount ELSE 0
        IN  rows'[r].type = "transfer" /\ rows'[r].amount > taken =>
                Balance(accounts', rows', rows'[r].account, rows'[r].date) >= 0

TransfersAreCovered == [][CoveredStep]_vars

(* What an account shows for a day: the stored snapshot where there is     *)
(* one, the recomputed balance where there is none.                        *)
Shown(a, day) ==
    IF a \notin DOMAIN accounts THEN 0
    ELSE IF day \in DOMAIN snapshots[a] THEN snapshots[a][day]
    ELSE Balance(accounts, rows, a, day)

Entry(r) ==
    IF r \notin DOMAIN rows THEN [state |-> "blank"]
    ELSE [state |-> rows[r].state, date |-> rows[r].date,
          moved |-> [a \in Account |->
              IF Involves(rows[r], a) THEN Credit(rows[r], a) - Debit(rows[r], a)
              ELSE 0]]

ShownBook == [a \in Account |-> [day \in Day |-> Shown(a, day)]]

ShownEntries == [r \in Row |-> Entry(r)]

(* The ledger is an account book: recomputing balances from the rows       *)
(* amounts to posting each row's difference once, on its date, and         *)
(* reversing a deleted row exactly once by what it had last posted.        *)
Book == INSTANCE AccountBook WITH book <- ShownBook, entries <- ShownEntries

ImplementsBook == Book!Spec
=============================================================================
