------------------------------ MODULE Planning ------------------------------
(***************************************************************************)
(* Expense categories, spending limits and plans of one space, and the     *)
(* expenses that refer to them (ExpenseCategoriesService,                  *)
(* ExpenseLimitsService, PlansService, ExpensesService behind              *)
(* SpaceSettingsService, SpacePlansService and SpaceTransactionsService).  *)
(*                                                                         *)
(* The four collections refer to one another by id and the database checks *)
(* none of it: a category must not go while an expense, a limit or a plan  *)
(* names it, a closed plan and its expense name each other, and two limits *)
(* must not claim the same expense.                                        *)
(*                                                                         *)
(* Every operation runs in BudgetWriteService.run (module SpaceWrites), so *)
(* one that succeeds is one atomic step and one that throws is no step.    *)
(* Amounts are module Ledger's, nothing here depends on them; an expense   *)
(* is changed by whom its row lets change it, which is left out too.       *)
(***************************************************************************)
EXTENDS Integers, FiniteSets

CONSTANTS
    Actor,       \* members of the space
    Manager,     \* permission -> the members who have it, its owner included
    Account,     \* accounts of the space
    Currency,
    CurrencyOf,  \* account -> its currency
    Day,
    OpenedAt,    \* account -> the day it was opened
    Name,        \* names of categories
    Category,    \* ids of categories,
    Expense,     \* of expense rows,
    Limit,       \* of limits
    Plan,        \* and of plans
    None         \* no expense, no origin

ASSUME PlanningAssumption ==
    /\ Manager \in [{"transactions", "categories", "limits"} -> SUBSET Actor]
    /\ CurrencyOf \in [Account -> Currency]
    /\ Day \subseteq Int
    /\ OpenedAt \in [Account -> Day]
    /\ None \notin Expense \cup Plan

VARIABLES
    accounts,    \* account -> "open" or "archived"
    categories,  \* the stored categories: id -> document
    expenses,    \* the stored expenses, soft-deleted ones included
    limits,      \* the stored limits
    plans        \* the stored plans

vars == <<accounts, categories, expenses, limits, plans>>

CategoryDocument == [name : Name, archived : BOOLEAN]

ExpenseDocument ==
    [category : Category, account : Account, currency : Currency, date : Day,
     origin : Plan \cup {None}, deleted : BOOLEAN]

LimitDocument ==
    {l \in [category : Category, currency : Currency, start : Day, end : Day] :
        l.start <= l.end}

PlanDocument ==
    [createdBy : Actor, category : Category, currency : Currency,
     status : {"active", "closed"}, archived : BOOLEAN,
     expense : Expense \cup {None}]

Put(f, id, document) ==
    [x \in DOMAIN f \cup {id} |-> IF x = id THEN document ELSE f[x]]

Drop(f, id) == [x \in DOMAIN f \ {id} |-> f[x]]

-----------------------------------------------------------------------------
(* Categories.                                                             *)

(* Mutant of LockCategory: isArchived is not looked at.                    *)
LockAnyCategory(c) == c \in DOMAIN categories

(* lockBudgetExpenseCategory: found, and not archived.                     *)
LockCategory(c) == c \in DOMAIN categories /\ ~categories[c].archived

(* checkDuplicateName, and the unique index behind it.                     *)
NameIsFree(c, name) ==
    \A other \in DOMAIN categories \ {c} : categories[other].name # name

CreateCategory(c, name) ==
    /\ c \notin DOMAIN categories
    /\ NameIsFree(c, name)
    /\ categories' = Put(categories, c, [name |-> name, archived |-> FALSE])
    /\ UNCHANGED <<accounts, expenses, limits, plans>>

(* An archived category is still renamed, and unarchived.                  *)
UpdateCategory(c, name, archived) ==
    /\ c \in DOMAIN categories
    /\ NameIsFree(c, name)
    /\ categories' = [categories EXCEPT ![c] =
            [name |-> name, archived |-> archived]]
    /\ UNCHANGED <<accounts, expenses, limits, plans>>

(* Mutant of InUse: a deleted expense is no dependency.                    *)
InActiveUse(c) ==
    \/ \E x \in DOMAIN expenses :
            expenses[x].category = c /\ ~expenses[x].deleted
    \/ \E l \in DOMAIN limits : limits[l].category = c
    \/ \E p \in DOMAIN plans : plans[p].category = c

(* Deleted expenses still belong to financial history.                     *)
InUse(c) ==
    \/ \E x \in DOMAIN expenses : expenses[x].category = c
    \/ \E l \in DOMAIN limits : limits[l].category = c
    \/ \E p \in DOMAIN plans : plans[p].category = c

RemoveCategory(c) ==
    /\ c \in DOMAIN categories
    /\ ~InUse(c)
    /\ categories' = Drop(categories, c)
    /\ UNCHANGED <<accounts, expenses, limits, plans>>

-----------------------------------------------------------------------------
(* Expenses.                                                               *)

(* accountForBudget: not archived.                                         *)
Unlocked(a) == accounts[a] = "open"

ExpenseRow(c, a, date, origin) ==
    [category |-> c, account |-> a, currency |-> CurrencyOf[a],
     date |-> date, origin |-> origin, deleted |-> FALSE]

StoreExpense(x, c, a, date, origin) ==
    /\ x \notin DOMAIN expenses
    /\ Unlocked(a)
    /\ date >= OpenedAt[a]
    /\ LockCategory(c)
    /\ expenses' = Put(expenses, x, ExpenseRow(c, a, date, origin))

CreateExpense(x, c, a, date) ==
    /\ StoreExpense(x, c, a, date, None)
    /\ UNCHANGED <<accounts, categories, limits, plans>>

IsActive(x) ==
    /\ x \in DOMAIN expenses
    /\ ~expenses[x].deleted
    /\ Unlocked(expenses[x].account)

(* change, the category only: a category it keeps is not locked.           *)
UpdateExpense(x, c) ==
    /\ IsActive(x)
    /\ c # expenses[x].category
    /\ LockCategory(c)
    /\ expenses' = [expenses EXCEPT ![x].category = c]
    /\ UNCHANGED <<accounts, categories, limits, plans>>

DeleteExpense(x) ==
    /\ IsActive(x)
    /\ expenses' = [expenses EXCEPT ![x].deleted = TRUE]
    /\ UNCHANGED <<accounts, categories, limits, plans>>

ArchiveAccount(a) ==
    /\ Unlocked(a)
    /\ accounts' = [accounts EXCEPT ![a] = "archived"]
    /\ UNCHANGED <<categories, expenses, limits, plans>>

-----------------------------------------------------------------------------
(* Limits.                                                                 *)

(* Mutant of ValidPeriod: the order of the two days is not checked.        *)
AnyPeriod(start, end) == TRUE

ValidPeriod(start, end) == start <= end

(* Mutant of Overlaps: the last day of a period does not belong to it.     *)
OverlapsStrictly(l, c, currency, start, end) ==
    /\ limits[l].category = c
    /\ limits[l].currency = currency
    /\ limits[l].start < end
    /\ limits[l].end > start

(* checkOverlap, for one stored limit.                                     *)
Overlaps(l, c, currency, start, end) ==
    /\ limits[l].category = c
    /\ limits[l].currency = currency
    /\ limits[l].start <= end
    /\ limits[l].end >= start

CreateLimit(l, c, currency, start, end) ==
    /\ l \notin DOMAIN limits
    /\ LockCategory(c)
    /\ ValidPeriod(start, end)
    /\ ~ \E other \in DOMAIN limits : Overlaps(other, c, currency, start, end)
    /\ limits' = Put(limits, l,
            [category |-> c, currency |-> currency, start |-> start, end |-> end])
    /\ UNCHANGED <<accounts, categories, expenses, plans>>

(* Category and currency of a limit are fixed; an archived category does   *)
(* not stop the change.                                                    *)
UpdateLimit(l, start, end) ==
    /\ l \in DOMAIN limits
    /\ limits[l].category \in DOMAIN categories
    /\ ValidPeriod(start, end)
    /\ ~ \E other \in DOMAIN limits \ {l} :
            Overlaps(other, limits[l].category, limits[l].currency, start, end)
    /\ limits' = [limits EXCEPT ![l].start = start, ![l].end = end]
    /\ UNCHANGED <<accounts, categories, expenses, plans>>

RemoveLimit(l) ==
    /\ l \in DOMAIN limits
    /\ limits' = Drop(limits, l)
    /\ UNCHANGED <<accounts, categories, expenses, plans>>

(* findExpenseUsage: the expenses whose sum a limit's rest is short of.    *)
Usage(l) ==
    {x \in DOMAIN expenses :
        /\ ~expenses[x].deleted
        /\ expenses[x].category = limits[l].category
        /\ expenses[x].currency = limits[l].currency
        /\ limits[l].start <= expenses[x].date
        /\ expenses[x].date <= limits[l].end}

-----------------------------------------------------------------------------
(* Plans.                                                                  *)

CreatePlan(p, actor, c, currency) ==
    /\ p \notin DOMAIN plans
    /\ LockCategory(c)
    /\ plans' = Put(plans, p,
            [createdBy |-> actor, category |-> c, currency |-> currency,
             status |-> "active", archived |-> FALSE, expense |-> None])
    /\ UNCHANGED <<accounts, categories, expenses, limits>>

(* requirePlan, and requireMutation: the owner, the author or a manager.   *)
LivePlan(p, actor) ==
    /\ p \in DOMAIN plans
    /\ actor = plans[p].createdBy \/ actor \in Manager["transactions"]
    /\ ~plans[p].archived

(* Mutant of OpenPlan: the status is not checked.                          *)
OpenOrClosed(p, actor) == LivePlan(p, actor)

OpenPlan(p, actor) == LivePlan(p, actor) /\ plans[p].status = "active"

(* The category only; a request that does not name it does not lock it.    *)
UpdatePlan(p, actor, c) ==
    /\ OpenPlan(p, actor)
    /\ LockCategory(c)
    /\ plans' = [plans EXCEPT ![p].category = c]
    /\ UNCHANGED <<accounts, categories, expenses, limits>>

RemovePlan(p, actor) ==
    /\ OpenPlan(p, actor)
    /\ plans[p].expense = None
    /\ plans' = Drop(plans, p)
    /\ UNCHANGED <<accounts, categories, expenses, limits>>

ArchivePlan(p, actor) ==
    /\ LivePlan(p, actor)
    /\ plans' = [plans EXCEPT ![p].archived = TRUE]
    /\ UNCHANGED <<accounts, categories, expenses, limits>>

(* executeClose: the expense first, then the checks that still may fail    *)
(* and roll it back, then the plan.                                        *)
ClosePlan(p, actor, x, a, date) ==
    /\ OpenPlan(p, actor)
    /\ StoreExpense(x, plans[p].category, a, date, p)
    /\ CurrencyOf[a] = plans[p].currency
    /\ plans' = [plans EXCEPT ![p].status = "closed", ![p].expense = x]
    /\ UNCHANGED <<accounts, categories, limits>>

-----------------------------------------------------------------------------
Init ==
    /\ accounts = [a \in Account |-> "open"]
    /\ categories = [c \in {} |-> None]
    /\ expenses = [x \in {} |-> None]
    /\ limits = [l \in {} |-> None]
    /\ plans = [p \in {} |-> None]

(* saveCategory and removeCategory ask for manageCategories; saveLimit and *)
(* removeLimit for manageLimits.                                           *)
CategoryStep ==
    \E actor \in Manager["categories"], c \in Category :
        \/ RemoveCategory(c)
        \/ \E name \in Name :
            \/ CreateCategory(c, name)
            \/ \E archived \in BOOLEAN : UpdateCategory(c, name, archived)

ExpenseStep ==
    \E x \in Expense :
        \/ DeleteExpense(x)
        \/ \E c \in Category :
            \/ UpdateExpense(x, c)
            \/ \E a \in Account, date \in Day : CreateExpense(x, c, a, date)

LimitStep ==
    \E actor \in Manager["limits"], l \in Limit :
        \/ RemoveLimit(l)
        \/ \E start, end \in Day :
            \/ UpdateLimit(l, start, end)
            \/ \E c \in Category, currency \in Currency :
                   CreateLimit(l, c, currency, start, end)

PlanStep ==
    \E p \in Plan, actor \in Actor :
        \/ RemovePlan(p, actor)
        \/ ArchivePlan(p, actor)
        \/ \E c \in Category :
            \/ UpdatePlan(p, actor, c)
            \/ \E currency \in Currency : CreatePlan(p, actor, c, currency)
        \/ \E x \in Expense, a \in Account, date \in Day :
               ClosePlan(p, actor, x, a, date)

AccountStep == \E a \in Account : ArchiveAccount(a)

Next == CategoryStep \/ ExpenseStep \/ LimitStep \/ PlanStep \/ AccountStep

Spec == Init /\ [][Next]_vars

-----------------------------------------------------------------------------
(* The audit: findOrphans, per relation of integrityRelations.             *)

(* expense.category, limit.category, plan.category.                        *)
CategoryOrphans(rows) ==
    {r \in DOMAIN rows : rows[r].category \notin DOMAIN categories}

(* plan.expense                                                            *)
PlanExpenseOrphans ==
    {p \in DOMAIN plans :
        plans[p].expense # None /\ plans[p].expense \notin DOMAIN expenses}

(* expense.plan.origin: the plan is closed with that very expense.         *)
ExpenseOriginOrphans ==
    {x \in DOMAIN expenses :
        LET p == expenses[x].origin
        IN  /\ p # None
            /\ ~(/\ p \in DOMAIN plans
                 /\ plans[p].expense = x
                 /\ plans[p].status = "closed")}

(* plan.expense.origin: a closed plan has an expense that came of it.      *)
PlanOriginOrphans ==
    {p \in DOMAIN plans :
        /\ plans[p].status = "closed"
        /\ ~(/\ plans[p].expense \in DOMAIN expenses
             /\ expenses[plans[p].expense].origin = p)}

-----------------------------------------------------------------------------
(* Type correctness; a stored limit's period is not empty.                 *)
TypeOK ==
    /\ accounts \in [Account -> {"open", "archived"}]
    /\ DOMAIN categories \subseteq Category
    /\ categories \in [DOMAIN categories -> CategoryDocument]
    /\ DOMAIN expenses \subseteq Expense
    /\ expenses \in [DOMAIN expenses -> ExpenseDocument]
    /\ DOMAIN limits \subseteq Limit
    /\ limits \in [DOMAIN limits -> LimitDocument]
    /\ DOMAIN plans \subseteq Plan /\ plans \in [DOMAIN plans -> PlanDocument]

(* The integrity audit finds no orphan among these collections: no expense *)
(* (deleted ones included), limit or plan outlives its category, and plans *)
(* and the expenses that closed them name each other, one for one.         *)
AuditIsClean ==
    /\ CategoryOrphans(expenses) = {}
    /\ CategoryOrphans(limits) = {}
    /\ CategoryOrphans(plans) = {}
    /\ PlanExpenseOrphans = {}
    /\ ExpenseOriginOrphans = {}
    /\ PlanOriginOrphans = {}

(* An expense is charged to one limit at most, however periods are moved   *)
(* and expenses recategorised: checkOverlap keeps the usages disjoint.     *)
ExpenseCountsOnce ==
    \A l, other \in DOMAIN limits :
        l # other => Usage(l) \cap Usage(other) = {}

(* Closing is final and spends once: a closed plan keeps its category and  *)
(* its expense for ever, and no second expense ever comes of it, also when *)
(* the first is deleted or recategorised.                                  *)
ClosedForGood ==
    [][\A p \in DOMAIN plans : plans[p].status = "closed" =>
        /\ p \in DOMAIN plans'
        /\ plans'[p].status = "closed"
        /\ plans'[p].category = plans[p].category
        /\ plans'[p].expense = plans[p].expense
        /\ {x \in DOMAIN expenses' : expenses'[x].origin = p}
               = {plans[p].expense}]_vars

(* What names category c.                                                  *)
ExpensesIn(c) == {x \in DOMAIN expenses : expenses[x].category = c}
LimitsIn(c) == {l \in DOMAIN limits : limits[l].category = c}
PlansIn(c) == {p \in DOMAIN plans : plans[p].category = c}

(* An archived category takes nothing in: while it is archived no expense, *)
(* limit or plan comes to name it, through none of the six operations that *)
(* could, closing a plan made before included.                             *)
NothingJoinsArchived ==
    [][\A c \in DOMAIN categories : categories[c].archived =>
        /\ ExpensesIn(c)' \subseteq ExpensesIn(c)
        /\ LimitsIn(c)' \subseteq LimitsIn(c)
        /\ PlansIn(c)' \subseteq PlansIn(c)]_vars
=============================================================================
