------------------------------- MODULE Debts --------------------------------
(***************************************************************************)
(* Debts of one space, their repayments and the incomes repayments create  *)
(* (DebtsService behind SpaceDebtsService, IncomesService and              *)
(* TransactionsService, and the part of SpaceTransactionsService that      *)
(* touches incomes).                                                       *)
(*                                                                         *)
(* A repayment may or may not bring an income into an account.  The same   *)
(* fact is then stored three times: the debt's remaining amount, the       *)
(* repayment row, the income row.  Nothing in the database ties them       *)
(* together; the services have to, and findDebtViolations audits that they *)
(* did.                                                                    *)
(*                                                                         *)
(* Every operation runs in BudgetWriteService.run (module SpaceWrites), so *)
(* one that succeeds is one atomic step and one that throws is no step.    *)
(* The balances and snapshots an income moves are module Ledger's.         *)
(***************************************************************************)
EXTENDS Integers, FiniteSets

CONSTANTS
    Actor,       \* members of the space
    Owner,       \* its owner
    Manager,     \* the members granted manageTransactions
    Account,     \* its accounts
    Currency,
    CurrencyOf,  \* account -> its currency
    Day,
    OpenedAt,    \* account -> the day it was opened
    Debt,        \* debt ids
    Repayment,   \* ids of repayment rows (DebtTransaction)
    Income,      \* ids of income rows
    None,        \* no income, no origin
    MaxAmount    \* bound on a principal and on an income

Amount == 1 .. MaxAmount

ASSUME DebtsAssumption ==
    /\ Owner \in Actor
    /\ Manager \subseteq Actor
    /\ CurrencyOf \in [Account -> Currency]
    /\ Day \subseteq Int
    /\ OpenedAt \in [Account -> Day]
    /\ IsFiniteSet(Repayment)
    /\ None \notin Debt \cup Income
    /\ MaxAmount \in Nat

VARIABLES
    accounts,    \* account -> "open" or "archived"
    debts,       \* the stored debts: id -> document
    history,     \* the stored repayments: id -> document
    incomes      \* the stored incomes, soft-deleted ones included

vars == <<accounts, debts, history, incomes>>

DebtDocument ==
    [createdBy : Actor, currency : Currency, principal : Amount,
     remaining : 0 .. MaxAmount, status : {"active", "closed"},
     archived : BOOLEAN]

RepaymentDocument ==
    [debt : Debt, amount : Amount, date : Day, createdBy : Actor,
     isIncome : BOOLEAN, income : Income \cup {None}, cancelled : BOOLEAN]

IncomeDocument ==
    [account : Account, amount : Amount, currency : Currency, date : Day,
     createdBy : Actor, origin : Debt \cup {None}, deleted : BOOLEAN]

Put(f, id, document) ==
    [x \in DOMAIN f \cup {id} |-> IF x = id THEN document ELSE f[x]]

(* The rights row rules share: the owner, the author, or a manager.        *)
MayChange(actor, author) ==
    actor = Owner \/ actor = author \/ actor \in Manager

-----------------------------------------------------------------------------
(* Incomes.                                                                *)

(* accountForBudget, accountForCreate: not archived, opened by that day.   *)
Unlocked(a) == accounts[a] = "open"

IncomeRow(actor, a, amount, date, origin) ==
    [account |-> a, amount |-> amount, currency |-> CurrencyOf[a],
     date |-> date, createdBy |-> actor, origin |-> origin,
     deleted |-> FALSE]

StoreIncome(i, actor, a, amount, date, origin) ==
    /\ i \notin DOMAIN incomes
    /\ Unlocked(a)
    /\ date >= OpenedAt[a]
    /\ incomes' = Put(incomes, i, IncomeRow(actor, a, amount, date, origin))

CreateIncome(i, actor, a, amount, date) ==
    /\ StoreIncome(i, actor, a, amount, date, None)
    /\ UNCHANGED <<accounts, debts, history>>

(* change: the income a repayment made is changed by cancelling it only.   *)
Changeable(i, actor) ==
    /\ i \in DOMAIN incomes
    /\ ~incomes[i].deleted
    /\ MayChange(actor, incomes[i].createdBy)
    /\ Unlocked(incomes[i].account)
    /\ incomes[i].origin = None

UpdateIncome(i, actor, amount) ==
    /\ Changeable(i, actor)
    /\ incomes' = [incomes EXCEPT ![i].amount = amount]
    /\ UNCHANGED <<accounts, debts, history>>

DeleteIncome(i, actor) ==
    /\ Changeable(i, actor)
    /\ incomes' = [incomes EXCEPT ![i].deleted = TRUE]
    /\ UNCHANGED <<accounts, debts, history>>

ArchiveAccount(a) ==
    /\ Unlocked(a)
    /\ accounts' = [accounts EXCEPT ![a] = "archived"]
    /\ UNCHANGED <<debts, history, incomes>>

-----------------------------------------------------------------------------
(* Debts.                                                                  *)

CreateDebt(d, actor, principal, currency) ==
    /\ d \notin DOMAIN debts
    /\ debts' = Put(debts, d,
            [createdBy |-> actor, currency |-> currency,
             principal |-> principal, remaining |-> principal,
             status |-> "active", archived |-> FALSE])
    /\ UNCHANGED <<accounts, history, incomes>>

(* requireDebt and requireMutation.                                        *)
Mutable(d, actor) ==
    /\ d \in DOMAIN debts
    /\ MayChange(actor, debts[d].createdBy)

LiveDebt(d, actor) == Mutable(d, actor) /\ ~debts[d].archived

(* Mutant of HistoryOf: cancelled repayments are no history.               *)
UncancelledOf(d) ==
    {r \in DOMAIN history : history[r].debt = d /\ ~history[r].cancelled}

HistoryOf(d) == {r \in DOMAIN history : history[r].debt = d}

(* The amount is the only field that other rows depend on; debtor, due     *)
(* date and description are free text here.                                *)
UpdateDebt(d, actor, principal) ==
    /\ LiveDebt(d, actor)
    /\ HistoryOf(d) = {}
    /\ debts' = [debts EXCEPT ![d].principal = principal,
                              ![d].remaining = principal]
    /\ UNCHANGED <<accounts, history, incomes>>

ArchiveDebt(d, actor) ==
    /\ LiveDebt(d, actor)
    /\ debts' = [debts EXCEPT ![d].archived = TRUE]
    /\ UNCHANGED <<accounts, history, incomes>>

RemoveDebt(d, actor) ==
    /\ LiveDebt(d, actor)
    /\ HistoryOf(d) = {}
    /\ \A i \in DOMAIN incomes : incomes[i].origin # d
    /\ debts' = [x \in DOMAIN debts \ {d} |-> debts[x]]
    /\ UNCHANGED <<accounts, history, incomes>>

-----------------------------------------------------------------------------
(* Repayments.                                                             *)

StatusFor(remaining) == IF remaining = 0 THEN "closed" ELSE "active"

(* Mutant of Repayable: a closed debt is refused, too large an amount not. *)
RepayableBeyond(d, actor, amount) ==
    LiveDebt(d, actor) /\ debts[d].status = "active"

Repayable(d, actor, amount) ==
    /\ LiveDebt(d, actor)
    /\ debts[d].status = "active"
    /\ amount <= debts[d].remaining

(* The history row and the debt, which both ways to repay write.           *)
RecordRepayment(d, r, actor, amount, date, isIncome, income) ==
    LET remaining == debts[d].remaining - amount
    IN  /\ r \notin DOMAIN history
        /\ history' = Put(history, r,
                [debt |-> d, amount |-> amount, date |-> date,
                 createdBy |-> actor, isIncome |-> isIncome,
                 income |-> income, cancelled |-> FALSE])
        /\ debts' = [debts EXCEPT ![d].remaining = remaining,
                                  ![d].status = StatusFor(remaining)]

Repay(d, r, actor, amount, date) ==
    /\ Repayable(d, actor, amount)
    /\ RecordRepayment(d, r, actor, amount, date, FALSE, None)
    /\ UNCHANGED <<accounts, incomes>>

RepayAsIncome(d, r, i, actor, a, amount, date) ==
    /\ Repayable(d, actor, amount)
    /\ StoreIncome(i, actor, a, amount, date, d)
    /\ CurrencyOf[a] = debts[d].currency
    /\ RecordRepayment(d, r, actor, amount, date, TRUE, i)
    /\ UNCHANGED accounts

(* The income a cancellation insists on before it deletes it.              *)
IncomeAgrees(d, r) ==
    LET i == history[r].income
    IN  /\ i \in DOMAIN incomes
        /\ ~incomes[i].deleted
        /\ incomes[i].origin = d
        /\ incomes[i].amount = history[r].amount
        /\ incomes[i].currency = debts[d].currency
        /\ incomes[i].date = history[r].date

(* Mutant of CancelIncome: the income stays in the books.                  *)
KeepIncome(d, r) == UNCHANGED incomes

(* deleteForBudget: the account must still be there and not archived.      *)
CancelIncome(d, r) ==
    IF history[r].isIncome
    THEN /\ IncomeAgrees(d, r)
         /\ Unlocked(incomes[history[r].income].account)
         /\ incomes' = [incomes EXCEPT ![history[r].income].deleted = TRUE]
    ELSE history[r].income = None /\ UNCHANGED incomes

(* Mutant of Cancellable: the archived debt is not refused.                *)
CancellableArchived(d, r, actor) ==
    /\ Mutable(d, actor)
    /\ r \in HistoryOf(d)
    /\ ~history[r].cancelled

Cancellable(d, r, actor) ==
    /\ LiveDebt(d, actor)
    /\ r \in HistoryOf(d)
    /\ ~history[r].cancelled

CancelRepayment(d, r, actor) ==
    LET remaining == debts[d].remaining + history[r].amount
    IN  /\ Cancellable(d, r, actor)
        /\ CancelIncome(d, r)
        /\ remaining <= debts[d].principal
        /\ history' = [history EXCEPT ![r].cancelled = TRUE]
        /\ debts' = [debts EXCEPT ![d].remaining = remaining,
                                  ![d].status = "active"]
        /\ UNCHANGED accounts

-----------------------------------------------------------------------------
Init ==
    /\ accounts = [a \in Account |-> "open"]
    /\ debts = [d \in {} |-> None]
    /\ history = [r \in {} |-> None]
    /\ incomes = [i \in {} |-> None]

IncomeStep ==
    \E i \in Income, actor \in Actor :
        \/ DeleteIncome(i, actor)
        \/ \E amount \in Amount :
            \/ UpdateIncome(i, actor, amount)
            \/ \E a \in Account, date \in Day :
                   CreateIncome(i, actor, a, amount, date)

DebtStep ==
    \E d \in Debt, actor \in Actor :
        \/ ArchiveDebt(d, actor)
        \/ RemoveDebt(d, actor)
        \/ \E principal \in Amount :
            \/ UpdateDebt(d, actor, principal)
            \/ \E currency \in Currency :
                   CreateDebt(d, actor, principal, currency)

RepaymentStep ==
    \E d \in Debt, r \in Repayment, actor \in Actor :
        \/ CancelRepayment(d, r, actor)
        \/ \E amount \in Amount, date \in Day :
            \/ Repay(d, r, actor, amount, date)
            \/ \E i \in Income, a \in Account :
                   RepayAsIncome(d, r, i, actor, a, amount, date)

AccountStep == \E a \in Account : ArchiveAccount(a)

Next == IncomeStep \/ DebtStep \/ RepaymentStep \/ AccountStep

Spec == Init /\ [][Next]_vars

-----------------------------------------------------------------------------
(* The audit: findDebtViolations, the three checks an operator runs over   *)
(* the stored collections.                                                 *)

(* One unit per minor unit repaid and not taken back; what is paid is how  *)
(* many there are.                                                         *)
PaidUnits(h, d) ==
    {u \in (DOMAIN h) \X Amount :
        h[u[1]].debt = d /\ ~h[u[1]].cancelled /\ u[2] <= h[u[1]].amount}

Paid(h, d) == Cardinality(PaidUnits(h, d))

(* Check "balance".                                                        *)
BalanceViolations ==
    {d \in DOMAIN debts :
        LET remaining == debts[d].principal - Paid(history, d)
        IN  \/ remaining # debts[d].remaining
            \/ remaining < 0
            \/ debts[d].status # StatusFor(remaining)}

LinkMatches(r, i, d) ==
    /\ history[r].debt = d
    /\ history[r].income = i
    /\ incomes[i].origin = d
    /\ incomes[i].amount = history[r].amount
    /\ incomes[i].currency = debts[d].currency
    /\ incomes[i].date = history[r].date
    /\ incomes[i].createdBy = history[r].createdBy
    /\ incomes[i].deleted = history[r].cancelled

Linked(r, i, d) ==
    d \in DOMAIN debts /\ i \in DOMAIN incomes /\ LinkMatches(r, i, d)

RepaymentsOf(i) == {r \in DOMAIN history : history[r].income = i}

(* Check "repayment-income".                                               *)
RepaymentViolations ==
    {r \in DOMAIN history :
        IF history[r].isIncome
        THEN \/ ~Linked(r, history[r].income, history[r].debt)
             \/ RepaymentsOf(history[r].income) # {r}
        ELSE history[r].income # None}

(* Check "income-repayment".                                               *)
IncomeViolations ==
    {i \in DOMAIN incomes :
        /\ incomes[i].origin # None
        /\ ~ \E r \in DOMAIN history :
                /\ RepaymentsOf(i) = {r}
                /\ history[r].isIncome
                /\ Linked(r, i, history[r].debt)}

-----------------------------------------------------------------------------
(* Type correctness of the four collections.                               *)
TypeOK ==
    /\ accounts \in [Account -> {"open", "archived"}]
    /\ DOMAIN debts \subseteq Debt /\ debts \in [DOMAIN debts -> DebtDocument]
    /\ DOMAIN history \subseteq Repayment
    /\ history \in [DOMAIN history -> RepaymentDocument]
    /\ DOMAIN incomes \subseteq Income
    /\ incomes \in [DOMAIN incomes -> IncomeDocument]

(* The debt audit never reports anything: in every state that any          *)
(* interleaving of repayments, cancellations and edits reaches, each debt  *)
(* owes its principal less its live repayments and is closed exactly when  *)
(* that is nothing; each income repayment has its income and each debt     *)
(* income its repayment, one for one, agreeing on amount, currency, day    *)
(* and author, the income deleted exactly when the repayment is cancelled. *)
AuditIsClean ==
    BalanceViolations = {} /\ RepaymentViolations = {} /\ IncomeViolations = {}

(* Archiving a debt freezes everything about it for good: the document,    *)
(* its repayments, and the incomes they made, although incomes are         *)
(* reachable through endpoints of their own.                               *)
ArchivedIsFrozen ==
    [][\A d \in DOMAIN debts : debts[d].archived =>
        /\ d \in DOMAIN debts' /\ debts'[d] = debts[d]
        /\ {r \in DOMAIN history' : history'[r].debt = d} = HistoryOf(d)
        /\ \A r \in HistoryOf(d) : history'[r] = history[r]
        /\ \A i \in DOMAIN incomes : incomes[i].origin = d =>
               i \in DOMAIN incomes' /\ incomes'[i] = incomes[i]]_vars

(* The debt as the books see it: what is owed is computed from the         *)
(* repayments alone, the stored remaining amount is not looked at.         *)
Life(d) ==
    IF debts[d].archived THEN "final"
    ELSE IF HistoryOf(d) = {} THEN "untouched" ELSE "touched"

Book ==
    [d \in Debt |->
        IF d \notin DOMAIN debts
        THEN [principal |-> 0, owed |-> 0, life |-> "none"]
        ELSE [principal |-> debts[d].principal,
              owed |-> debts[d].principal - Paid(history, d),
              life |-> Life(d)]]

Abstract == INSTANCE DebtBook WITH book <- Book

(* The services implement the debt book: a payment never exceeds what is   *)
(* owed, a cancellation gives back no more than was paid, the principal    *)
(* moves and the debt goes away only while no repayment was ever recorded, *)
(* cancelled ones included.                                                *)
ImplementsDebtBook == Abstract!Spec
=============================================================================
