--------------------------- MODULE PlanningProofs ---------------------------
(***************************************************************************)
(* Theorems of Planning, for all sets of members, accounts, currencies,    *)
(* names and ids, and any days.                                            *)
(***************************************************************************)
EXTENDS Planning, TLAPS

-----------------------------------------------------------------------------
(* The inductive invariant: what the audit asks, one relation at a time,   *)
(* and the periods of limits, which say more than their usages do.         *)

CategoriesFound ==
    /\ \A x \in DOMAIN expenses : expenses[x].category \in DOMAIN categories
    /\ \A l \in DOMAIN limits : limits[l].category \in DOMAIN categories
    /\ \A p \in DOMAIN plans : plans[p].category \in DOMAIN categories

OriginsFound ==
    \A x \in DOMAIN expenses :
        expenses[x].origin # None =>
            /\ expenses[x].origin \in DOMAIN plans
            /\ plans[expenses[x].origin].expense = x
            /\ plans[expenses[x].origin].status = "closed"

ClosingExpensesFound ==
    \A p \in DOMAIN plans :
        /\ plans[p].status = "closed" => plans[p].expense # None
        /\ plans[p].expense # None =>
              /\ plans[p].expense \in DOMAIN expenses
              /\ expenses[plans[p].expense].origin = p

PeriodsDisjoint ==
    \A l, m \in DOMAIN limits :
        /\ l # m
        /\ limits[l].category = limits[m].category
        /\ limits[l].currency = limits[m].currency
        => limits[l].end < limits[m].start \/ limits[m].end < limits[l].start

IInv ==
    /\ TypeOK
    /\ CategoriesFound
    /\ OriginsFound
    /\ ClosingExpensesFound
    /\ PeriodsDisjoint

USE DEF CategoryDocument, ExpenseDocument, LimitDocument, PlanDocument

-----------------------------------------------------------------------------
LEMMA TypeFacts ==
    ASSUME TypeOK
    PROVE  /\ \A c \in DOMAIN categories : c \in Category /\ categories[c] \in CategoryDocument
           /\ \A x \in DOMAIN expenses : x \in Expense /\ expenses[x] \in ExpenseDocument
           /\ \A l \in DOMAIN limits : l \in Limit /\ limits[l] \in LimitDocument
           /\ \A p \in DOMAIN plans : p \in Plan /\ plans[p] \in PlanDocument
BY DEF TypeOK

-----------------------------------------------------------------------------
(* Categories.                                                             *)

LEMMA CreateCategoryKeeps ==
    ASSUME IInv, NEW c \in Category, NEW name \in Name, CreateCategory(c, name)
    PROVE  IInv'
<1> DEFINE document == [name |-> name, archived |-> FALSE]
<1>1. /\ categories' = Put(categories, c, document)
      /\ UNCHANGED <<accounts, expenses, limits, plans>>
  BY DEF CreateCategory
<1>2. document \in CategoryDocument
  OBVIOUS
<1>3. DOMAIN categories \subseteq Category /\ categories \in [DOMAIN categories -> CategoryDocument]
  BY DEF IInv, TypeOK
<1> HIDE DEF document
<1>4. /\ DOMAIN categories' = DOMAIN categories \cup {c}
      /\ DOMAIN categories' \subseteq Category
      /\ categories' \in [DOMAIN categories' -> CategoryDocument]
  BY ONLY <1>1, <1>2, <1>3, c \in Category DEF Put
<1>5. TypeOK'
  BY <1>1, <1>4 DEF IInv, TypeOK
<1>6. CategoriesFound'
  BY <1>1, <1>4 DEF IInv, CategoriesFound
<1>7. OriginsFound' /\ ClosingExpensesFound' /\ PeriodsDisjoint'
  BY <1>1 DEF IInv, OriginsFound, ClosingExpensesFound, PeriodsDisjoint
<1>8. QED
  BY <1>5, <1>6, <1>7 DEF IInv

LEMMA UpdateCategoryKeeps ==
    ASSUME IInv, NEW c \in Category, NEW name \in Name, NEW archived \in BOOLEAN,
           UpdateCategory(c, name, archived)
    PROVE  IInv'
<1>1. /\ c \in DOMAIN categories
      /\ categories' = [categories EXCEPT ![c] = [name |-> name, archived |-> archived]]
      /\ UNCHANGED <<accounts, expenses, limits, plans>>
  BY DEF UpdateCategory
<1>2. /\ DOMAIN categories' = DOMAIN categories
      /\ categories' \in [DOMAIN categories -> CategoryDocument]
  BY <1>1 DEF IInv, TypeOK
<1>3. TypeOK'
  BY <1>1, <1>2 DEF IInv, TypeOK
<1>4. CategoriesFound'
  BY <1>1, <1>2 DEF IInv, CategoriesFound
<1>5. OriginsFound' /\ ClosingExpensesFound' /\ PeriodsDisjoint'
  BY <1>1 DEF IInv, OriginsFound, ClosingExpensesFound, PeriodsDisjoint
<1>6. QED
  BY <1>3, <1>4, <1>5 DEF IInv

LEMMA RemoveCategoryKeeps ==
    ASSUME IInv, NEW c \in Category, RemoveCategory(c)
    PROVE  IInv'
<1>1. /\ ~InUse(c)
      /\ categories' = Drop(categories, c)
      /\ UNCHANGED <<accounts, expenses, limits, plans>>
  BY DEF RemoveCategory
<1>2. /\ DOMAIN categories' = DOMAIN categories \ {c}
      /\ DOMAIN categories' \subseteq Category
      /\ categories' \in [DOMAIN categories' -> CategoryDocument]
  BY <1>1 DEF IInv, TypeOK, Drop
<1>3. TypeOK'
  BY <1>1, <1>2 DEF IInv, TypeOK
<1>4. CategoriesFound'
  BY <1>1, <1>2 DEF IInv, CategoriesFound, InUse
<1>5. OriginsFound' /\ ClosingExpensesFound' /\ PeriodsDisjoint'
  BY <1>1 DEF IInv, OriginsFound, ClosingExpensesFound, PeriodsDisjoint
<1>6. QED
  BY <1>3, <1>4, <1>5 DEF IInv

-----------------------------------------------------------------------------
(* Expenses.                                                               *)

(* What storing an expense leaves: the others, and one in the category.    *)
LEMMA StoreExpenseFacts ==
    ASSUME IInv, NEW x \in Expense, NEW c \in Category, NEW a \in Account,
           NEW date \in Day, NEW origin \in Plan \cup {None},
           StoreExpense(x, c, a, date, origin)
    PROVE  /\ x \notin DOMAIN expenses /\ c \in DOMAIN categories
           /\ ~categories[c].archived
           /\ DOMAIN expenses' = DOMAIN expenses \cup {x}
           /\ DOMAIN expenses' \subseteq Expense
           /\ expenses' \in [DOMAIN expenses' -> ExpenseDocument]
           /\ expenses'[x].category = c /\ expenses'[x].origin = origin
           /\ \A y \in DOMAIN expenses : expenses'[y] = expenses[y]
<1> DEFINE document == ExpenseRow(c, a, date, origin)
<1>1. /\ x \notin DOMAIN expenses /\ LockCategory(c)
      /\ expenses' = Put(expenses, x, document)
  BY DEF StoreExpense
<1>2. /\ document \in ExpenseDocument
      /\ document.category = c /\ document.origin = origin
  BY PlanningAssumption DEF ExpenseRow
<1> HIDE DEF document
<1>3. DOMAIN expenses \subseteq Expense /\ expenses \in [DOMAIN expenses -> ExpenseDocument]
  BY DEF IInv, TypeOK
<1>4. /\ DOMAIN expenses' = DOMAIN expenses \cup {x}
      /\ DOMAIN expenses' \subseteq Expense
      /\ expenses' \in [DOMAIN expenses' -> ExpenseDocument]
      /\ expenses'[x] = document
      /\ \A y \in DOMAIN expenses : y # x => expenses'[y] = expenses[y]
  BY ONLY <1>1, <1>2, <1>3, x \in Expense DEF Put
<1>5. QED
  BY <1>1, <1>2, <1>4 DEF LockCategory

LEMMA CreateExpenseKeeps ==
    ASSUME IInv, NEW x \in Expense, NEW c \in Category, NEW a \in Account,
           NEW date \in Day, CreateExpense(x, c, a, date)
    PROVE  IInv'
<1>1. /\ StoreExpense(x, c, a, date, None)
      /\ UNCHANGED <<accounts, categories, limits, plans>>
  BY DEF CreateExpense
<1>2. /\ x \notin DOMAIN expenses /\ c \in DOMAIN categories
      /\ DOMAIN expenses' = DOMAIN expenses \cup {x}
      /\ DOMAIN expenses' \subseteq Expense
      /\ expenses' \in [DOMAIN expenses' -> ExpenseDocument]
      /\ expenses'[x].category = c /\ expenses'[x].origin = None
      /\ \A y \in DOMAIN expenses : expenses'[y] = expenses[y]
  BY <1>1, StoreExpenseFacts
<1>3. TypeOK'
  BY <1>1, <1>2 DEF IInv, TypeOK
<1>4. CategoriesFound' /\ PeriodsDisjoint'
  BY <1>1, <1>2 DEF IInv, CategoriesFound, PeriodsDisjoint
<1>5. OriginsFound' /\ ClosingExpensesFound'
  BY <1>1, <1>2 DEF IInv, OriginsFound, ClosingExpensesFound
<1>6. QED
  BY <1>3, <1>4, <1>5 DEF IInv

(* Editing and deleting an expense write one document and keep its origin. *)
LEMMA ExpenseWriteKeeps ==
    ASSUME IInv, NEW x \in DOMAIN expenses, NEW document \in ExpenseDocument,
           expenses' = [expenses EXCEPT ![x] = document],
           document.origin = expenses[x].origin,
           document.category \in DOMAIN categories,
           UNCHANGED <<accounts, categories, limits, plans>>
    PROVE  IInv'
<1>1. /\ DOMAIN expenses' = DOMAIN expenses
      /\ expenses' \in [DOMAIN expenses -> ExpenseDocument]
      /\ expenses'[x] = document
      /\ \A y \in DOMAIN expenses : y # x => expenses'[y] = expenses[y]
  BY DEF IInv, TypeOK
<1>2. TypeOK'
  BY <1>1 DEF IInv, TypeOK
<1>3. CategoriesFound' /\ PeriodsDisjoint'
  BY <1>1 DEF IInv, CategoriesFound, PeriodsDisjoint
<1>4. \A y \in DOMAIN expenses : expenses'[y].origin = expenses[y].origin
  BY <1>1
<1>5. OriginsFound' /\ ClosingExpensesFound'
  BY <1>1, <1>4 DEF IInv, OriginsFound, ClosingExpensesFound
<1>6. QED
  BY <1>2, <1>3, <1>5 DEF IInv

LEMMA UpdateExpenseKeeps ==
    ASSUME IInv, NEW x \in Expense, NEW c \in Category, UpdateExpense(x, c)
    PROVE  IInv'
<1> DEFINE document == [expenses[x] EXCEPT !.category = c]
<1>1. /\ x \in DOMAIN expenses /\ c \in DOMAIN categories
      /\ expenses' = [expenses EXCEPT ![x] = document]
      /\ UNCHANGED <<accounts, categories, limits, plans>>
  BY DEF UpdateExpense, IsActive, LockCategory
<1>2. /\ document \in ExpenseDocument
      /\ document.origin = expenses[x].origin /\ document.category = c
  BY <1>1, TypeFacts DEF IInv
<1> HIDE DEF document
<1>3. QED
  BY <1>1, <1>2, ExpenseWriteKeeps

LEMMA DeleteExpenseKeeps ==
    ASSUME IInv, NEW x \in Expense, DeleteExpense(x)
    PROVE  IInv'
<1> DEFINE document == [expenses[x] EXCEPT !.deleted = TRUE]
<1>1. /\ x \in DOMAIN expenses
      /\ expenses' = [expenses EXCEPT ![x] = document]
      /\ UNCHANGED <<accounts, categories, limits, plans>>
  BY DEF DeleteExpense, IsActive
<1>2. /\ document \in ExpenseDocument
      /\ document.origin = expenses[x].origin
      /\ document.category = expenses[x].category
  BY <1>1, TypeFacts DEF IInv
<1>3. expenses[x].category \in DOMAIN categories
  BY <1>1 DEF IInv, CategoriesFound
<1> HIDE DEF document
<1>4. QED
  BY <1>1, <1>2, <1>3, ExpenseWriteKeeps

LEMMA ArchiveAccountKeeps ==
    ASSUME IInv, NEW a \in Account, ArchiveAccount(a)
    PROVE  IInv'
BY DEF ArchiveAccount, IInv, TypeOK, CategoriesFound, OriginsFound,
       ClosingExpensesFound, PeriodsDisjoint

-----------------------------------------------------------------------------
(* Limits.                                                                 *)

LEMMA CreateLimitKeeps ==
    ASSUME IInv, NEW l \in Limit, NEW c \in Category, NEW currency \in Currency,
           NEW start \in Day, NEW end \in Day, CreateLimit(l, c, currency, start, end)
    PROVE  IInv'
<1> DEFINE document ==
        [category |-> c, currency |-> currency, start |-> start, end |-> end]
<1>1. /\ l \notin DOMAIN limits /\ c \in DOMAIN categories /\ start <= end
      /\ limits' = Put(limits, l, document)
      /\ UNCHANGED <<accounts, categories, expenses, plans>>
  BY DEF CreateLimit, LockCategory, ValidPeriod
<1>2. document \in LimitDocument
  BY <1>1
<1>3. \A m \in DOMAIN limits :
        /\ limits[m].category = document.category
        /\ limits[m].currency = document.currency
        => limits[m].end < document.start \/ document.end < limits[m].start
  BY TypeFacts, PlanningAssumption DEF IInv, CreateLimit, Overlaps
<1>4. DOMAIN limits \subseteq Limit /\ limits \in [DOMAIN limits -> LimitDocument]
  BY DEF IInv, TypeOK
<1>5. document.category = c
  OBVIOUS
<1> HIDE DEF document
<1>6. /\ DOMAIN limits' = DOMAIN limits \cup {l}
      /\ DOMAIN limits' \subseteq Limit
      /\ limits' \in [DOMAIN limits' -> LimitDocument]
      /\ limits'[l] = document
      /\ \A m \in DOMAIN limits : m # l /\ limits'[m] = limits[m]
  BY ONLY <1>1, <1>2, <1>4, l \in Limit DEF Put
<1>7. TypeOK'
  BY <1>1, <1>6 DEF IInv, TypeOK
<1>8. CategoriesFound'
  BY <1>1, <1>5, <1>6 DEF IInv, CategoriesFound
<1>9. PeriodsDisjoint'
  BY <1>3, <1>6 DEF IInv, PeriodsDisjoint
<1>10. OriginsFound' /\ ClosingExpensesFound'
  BY <1>1 DEF IInv, OriginsFound, ClosingExpensesFound
<1>11. QED
  BY <1>7, <1>8, <1>9, <1>10 DEF IInv

LEMMA UpdateLimitKeeps ==
    ASSUME IInv, NEW l \in Limit, NEW start \in Day, NEW end \in Day,
           UpdateLimit(l, start, end)
    PROVE  IInv'
<1> DEFINE document == [limits[l] EXCEPT !.start = start, !.end = end]
<1>1. /\ l \in DOMAIN limits /\ start <= end
      /\ limits' = [limits EXCEPT ![l] = document]
      /\ UNCHANGED <<accounts, categories, expenses, plans>>
  <2>1. limits \in [DOMAIN limits -> LimitDocument]
    BY DEF IInv, TypeOK
  <2>2. QED
    BY <2>1 DEF UpdateLimit, ValidPeriod
<1>2. limits[l] \in LimitDocument
  BY <1>1, TypeFacts DEF IInv
<1>3. /\ document \in LimitDocument
      /\ document.category = limits[l].category
      /\ document.currency = limits[l].currency
      /\ document.start = start /\ document.end = end
  BY <1>1, <1>2
<1>4. \A m \in DOMAIN limits \ {l} :
        /\ limits[m].category = limits[l].category
        /\ limits[m].currency = limits[l].currency
        => limits[m].end < start \/ end < limits[m].start
  BY TypeFacts, PlanningAssumption DEF IInv, UpdateLimit, Overlaps
<1> HIDE DEF document
<1>5. /\ DOMAIN limits' = DOMAIN limits
      /\ limits' \in [DOMAIN limits -> LimitDocument]
      /\ limits'[l] = document
      /\ \A m \in DOMAIN limits \ {l} : limits'[m] = limits[m]
  BY <1>1, <1>3 DEF IInv, TypeOK
<1>6. TypeOK'
  BY <1>1, <1>5 DEF IInv, TypeOK
<1>7. CategoriesFound'
  BY <1>1, <1>3, <1>5 DEF IInv, CategoriesFound
<1>8. PeriodsDisjoint'
  BY <1>1, <1>3, <1>4, <1>5 DEF IInv, PeriodsDisjoint
<1>9. OriginsFound' /\ ClosingExpensesFound'
  BY <1>1 DEF IInv, OriginsFound, ClosingExpensesFound
<1>10. QED
  BY <1>6, <1>7, <1>8, <1>9 DEF IInv

LEMMA RemoveLimitKeeps ==
    ASSUME IInv, NEW l \in Limit, RemoveLimit(l)
    PROVE  IInv'
<1>1. limits' = Drop(limits, l) /\ UNCHANGED <<accounts, categories, expenses, plans>>
  BY DEF RemoveLimit
<1>2. /\ DOMAIN limits' \subseteq DOMAIN limits
      /\ limits' \in [DOMAIN limits' -> LimitDocument]
      /\ \A m \in DOMAIN limits' : limits'[m] = limits[m]
  BY <1>1 DEF IInv, TypeOK, Drop
<1>3. TypeOK'
  BY <1>1, <1>2 DEF IInv, TypeOK
<1>4. CategoriesFound' /\ PeriodsDisjoint'
  BY <1>1, <1>2 DEF IInv, CategoriesFound, PeriodsDisjoint
<1>5. OriginsFound' /\ ClosingExpensesFound'
  BY <1>1 DEF IInv, OriginsFound, ClosingExpensesFound
<1>6. QED
  BY <1>3, <1>4, <1>5 DEF IInv

-----------------------------------------------------------------------------
(* Plans.                                                                  *)

LEMMA CreatePlanKeeps ==
    ASSUME IInv, NEW p \in Plan, NEW actor \in Actor, NEW c \in Category,
           NEW currency \in Currency, CreatePlan(p, actor, c, currency)
    PROVE  IInv'
<1> DEFINE document ==
        [createdBy |-> actor, category |-> c, currency |-> currency,
         status |-> "active", archived |-> FALSE, expense |-> None]
<1>1. /\ p \notin DOMAIN plans /\ c \in DOMAIN categories
      /\ plans' = Put(plans, p, document)
      /\ UNCHANGED <<accounts, categories, expenses, limits>>
  BY DEF CreatePlan, LockCategory
<1>2. /\ document \in PlanDocument /\ document.category = c
      /\ document.expense = None /\ document.status = "active"
  OBVIOUS
<1>3. DOMAIN plans \subseteq Plan /\ plans \in [DOMAIN plans -> PlanDocument]
  BY DEF IInv, TypeOK
<1> HIDE DEF document
<1>4. /\ DOMAIN plans' = DOMAIN plans \cup {p}
      /\ DOMAIN plans' \subseteq Plan
      /\ plans' \in [DOMAIN plans' -> PlanDocument]
      /\ plans'[p] = document
      /\ \A o \in DOMAIN plans : o # p /\ plans'[o] = plans[o]
  BY ONLY <1>1, <1>2, <1>3, p \in Plan DEF Put
<1>5. TypeOK'
  BY <1>1, <1>4 DEF IInv, TypeOK
<1>6. CategoriesFound' /\ PeriodsDisjoint'
  BY <1>1, <1>2, <1>4 DEF IInv, CategoriesFound, PeriodsDisjoint
<1>7. OriginsFound' /\ ClosingExpensesFound'
  BY <1>1, <1>2, <1>4 DEF IInv, OriginsFound, ClosingExpensesFound
<1>8. QED
  BY <1>5, <1>6, <1>7 DEF IInv

(* Editing and archiving a plan write one document and keep how it closed. *)
LEMMA PlanWriteKeeps ==
    ASSUME IInv, NEW p \in DOMAIN plans, NEW document \in PlanDocument,
           plans' = [plans EXCEPT ![p] = document],
           document.expense = plans[p].expense, document.status = plans[p].status,
           document.category \in DOMAIN categories,
           UNCHANGED <<accounts, categories, expenses, limits>>
    PROVE  IInv'
<1>1. /\ DOMAIN plans' = DOMAIN plans
      /\ plans' \in [DOMAIN plans -> PlanDocument]
      /\ plans'[p] = document
      /\ \A o \in DOMAIN plans : o # p => plans'[o] = plans[o]
  BY DEF IInv, TypeOK
<1>2. TypeOK'
  BY <1>1 DEF IInv, TypeOK
<1>3. CategoriesFound' /\ PeriodsDisjoint'
  BY <1>1 DEF IInv, CategoriesFound, PeriodsDisjoint
<1>4. \A o \in DOMAIN plans :
        plans'[o].expense = plans[o].expense /\ plans'[o].status = plans[o].status
  BY <1>1
<1>5. OriginsFound' /\ ClosingExpensesFound'
  BY <1>1, <1>4 DEF IInv, OriginsFound, ClosingExpensesFound
<1>6. QED
  BY <1>2, <1>3, <1>5 DEF IInv

LEMMA UpdatePlanKeeps ==
    ASSUME IInv, NEW p \in Plan, NEW actor \in Actor, NEW c \in Category,
           UpdatePlan(p, actor, c)
    PROVE  IInv'
<1> DEFINE document == [plans[p] EXCEPT !.category = c]
<1>1. /\ p \in DOMAIN plans /\ c \in DOMAIN categories
      /\ plans' = [plans EXCEPT ![p] = document]
      /\ UNCHANGED <<accounts, categories, expenses, limits>>
  BY DEF UpdatePlan, OpenPlan, LivePlan, LockCategory
<1>2. /\ document \in PlanDocument /\ document.category = c
      /\ document.expense = plans[p].expense /\ document.status = plans[p].status
  BY <1>1, TypeFacts DEF IInv
<1> HIDE DEF document
<1>3. QED
  BY <1>1, <1>2, PlanWriteKeeps

LEMMA ArchivePlanKeeps ==
    ASSUME IInv, NEW p \in Plan, NEW actor \in Actor, ArchivePlan(p, actor)
    PROVE  IInv'
<1> DEFINE document == [plans[p] EXCEPT !.archived = TRUE]
<1>1. /\ p \in DOMAIN plans
      /\ plans' = [plans EXCEPT ![p] = document]
      /\ UNCHANGED <<accounts, categories, expenses, limits>>
  BY DEF ArchivePlan, LivePlan
<1>2. /\ document \in PlanDocument /\ document.category = plans[p].category
      /\ document.expense = plans[p].expense /\ document.status = plans[p].status
  BY <1>1, TypeFacts DEF IInv
<1>3. plans[p].category \in DOMAIN categories
  BY <1>1 DEF IInv, CategoriesFound
<1> HIDE DEF document
<1>4. QED
  BY <1>1, <1>2, <1>3, PlanWriteKeeps

LEMMA RemovePlanKeeps ==
    ASSUME IInv, NEW p \in Plan, NEW actor \in Actor, RemovePlan(p, actor)
    PROVE  IInv'
<1>1. /\ p \in DOMAIN plans /\ plans[p].status = "active"
      /\ plans' = Drop(plans, p)
      /\ UNCHANGED <<accounts, categories, expenses, limits>>
  BY DEF RemovePlan, OpenPlan, LivePlan
<1>2. /\ DOMAIN plans' = DOMAIN plans \ {p}
      /\ plans' \in [DOMAIN plans' -> PlanDocument]
      /\ \A o \in DOMAIN plans' : plans'[o] = plans[o]
  BY <1>1 DEF IInv, TypeOK, Drop
<1>3. TypeOK'
  BY <1>1, <1>2 DEF IInv, TypeOK
<1>4. CategoriesFound' /\ PeriodsDisjoint'
  BY <1>1, <1>2 DEF IInv, CategoriesFound, PeriodsDisjoint
<1>5. \A x \in DOMAIN expenses : expenses[x].origin # p
  BY <1>1, PlanningAssumption DEF IInv, OriginsFound
<1>6. OriginsFound' /\ ClosingExpensesFound'
  BY <1>1, <1>2, <1>5 DEF IInv, OriginsFound, ClosingExpensesFound
<1>7. QED
  BY <1>3, <1>4, <1>6 DEF IInv

LEMMA ClosePlanKeeps ==
    ASSUME IInv, NEW p \in Plan, NEW actor \in Actor, NEW x \in Expense,
           NEW a \in Account, NEW date \in Day, ClosePlan(p, actor, x, a, date)
    PROVE  IInv'
<1> DEFINE document == [plans[p] EXCEPT !.status = "closed", !.expense = x]
<1>1. /\ p \in DOMAIN plans /\ plans[p].status = "active"
      /\ StoreExpense(x, plans[p].category, a, date, p)
      /\ plans' = [plans EXCEPT ![p] = document]
      /\ UNCHANGED <<accounts, categories, limits>>
  <2>1. plans \in [DOMAIN plans -> PlanDocument]
    BY DEF IInv, TypeOK
  <2>2. QED
    BY <2>1 DEF ClosePlan, OpenPlan, LivePlan
<1>2. plans[p] \in PlanDocument
  BY <1>1, TypeFacts DEF IInv
<1>3. /\ document \in PlanDocument /\ document.category = plans[p].category
      /\ document.expense = x /\ document.status = "closed"
  BY <1>2
<1>4. /\ x \notin DOMAIN expenses
      /\ DOMAIN expenses' = DOMAIN expenses \cup {x}
      /\ DOMAIN expenses' \subseteq Expense
      /\ expenses' \in [DOMAIN expenses' -> ExpenseDocument]
      /\ expenses'[x].category = plans[p].category /\ expenses'[x].origin = p
      /\ \A y \in DOMAIN expenses : expenses'[y] = expenses[y]
  BY <1>1, <1>2, StoreExpenseFacts
<1> HIDE DEF document
<1>5. /\ DOMAIN plans' = DOMAIN plans
      /\ plans' \in [DOMAIN plans -> PlanDocument]
      /\ plans'[p] = document
      /\ \A o \in DOMAIN plans : o # p => plans'[o] = plans[o]
  BY <1>1, <1>3 DEF IInv, TypeOK
<1>6. TypeOK'
  BY <1>1, <1>4, <1>5 DEF IInv, TypeOK
<1>7. CategoriesFound' /\ PeriodsDisjoint'
  BY <1>1, <1>3, <1>4, <1>5 DEF IInv, CategoriesFound, PeriodsDisjoint
<1>8. \A y \in DOMAIN expenses : expenses[y].origin # p
  BY <1>1, PlanningAssumption DEF IInv, OriginsFound
<1>9. OriginsFound'
  <2> SUFFICES ASSUME NEW y \in DOMAIN expenses', expenses'[y].origin # None
               PROVE  /\ expenses'[y].origin \in DOMAIN plans'
                      /\ plans'[expenses'[y].origin].expense = y
                      /\ plans'[expenses'[y].origin].status = "closed"
    BY DEF OriginsFound
  <2>1. CASE y = x
    BY <1>1, <1>3, <1>4, <1>5, <2>1
  <2>2. CASE y \in DOMAIN expenses
    <3>1. /\ expenses[y].origin \in DOMAIN plans /\ expenses[y].origin # p
          /\ plans[expenses[y].origin].expense = y
          /\ plans[expenses[y].origin].status = "closed"
      BY <1>4, <1>8, <2>2 DEF IInv, OriginsFound
    <3>2. QED
      BY <1>4, <1>5, <2>2, <3>1
  <2>3. QED
    BY <1>4, <2>1, <2>2
<1>10. x # None
  BY PlanningAssumption
<1>11. ClosingExpensesFound'
  BY <1>3, <1>4, <1>5, <1>10 DEF IInv, ClosingExpensesFound
<1>12. QED
  BY <1>6, <1>7, <1>9, <1>11 DEF IInv

-----------------------------------------------------------------------------

LEMMA InitKeeps == Init => IInv
BY DEF Init, IInv, TypeOK, CategoriesFound, OriginsFound,
       ClosingExpensesFound, PeriodsDisjoint

LEMMA NextKeeps ==
    ASSUME IInv, [Next]_vars
    PROVE  IInv'
<1>1. CASE CategoryStep
  BY <1>1, CreateCategoryKeeps, UpdateCategoryKeeps, RemoveCategoryKeeps
     DEF CategoryStep
<1>2. CASE ExpenseStep
  BY <1>2, CreateExpenseKeeps, UpdateExpenseKeeps, DeleteExpenseKeeps
     DEF ExpenseStep
<1>3. CASE LimitStep
  BY <1>3, CreateLimitKeeps, UpdateLimitKeeps, RemoveLimitKeeps DEF LimitStep
<1>4. CASE PlanStep
  BY <1>4, CreatePlanKeeps, UpdatePlanKeeps, RemovePlanKeeps, ArchivePlanKeeps,
     ClosePlanKeeps DEF PlanStep
<1>5. CASE AccountStep
  BY <1>5, ArchiveAccountKeeps DEF AccountStep
<1>6. CASE UNCHANGED vars
  BY <1>6 DEF vars, IInv, TypeOK, CategoriesFound, OriginsFound,
       ClosingExpensesFound, PeriodsDisjoint
<1>7. QED
  BY <1>1, <1>2, <1>3, <1>4, <1>5, <1>6 DEF Next

(* The inductive invariant holds throughout.                               *)
THEOREM PlanningInvariant == Spec => []IInv
<1>1. IInv /\ [Next]_vars => IInv'
  BY NextKeeps
<1>2. QED
  BY <1>1, InitKeeps, PTL DEF Spec

(* Every document keeps its shape, and no limit's period is empty.         *)
THEOREM PlanningTypeCorrect == Spec => []TypeOK
<1>1. IInv => TypeOK
  BY DEF IInv
<1>2. QED
  BY <1>1, PlanningInvariant, PTL

(* The integrity audit never finds an orphan among categories, expenses,   *)
(* limits and plans.                                                       *)
THEOREM NoOrphans == Spec => []AuditIsClean
<1>1. IInv => AuditIsClean
  <2> SUFFICES ASSUME IInv PROVE AuditIsClean
    OBVIOUS
  <2>1. /\ CategoryOrphans(expenses) = {} /\ CategoryOrphans(limits) = {}
        /\ CategoryOrphans(plans) = {}
    BY DEF IInv, CategoriesFound, CategoryOrphans
  <2>2. PlanExpenseOrphans = {} /\ PlanOriginOrphans = {}
    BY DEF IInv, ClosingExpensesFound, PlanExpenseOrphans, PlanOriginOrphans
  <2>3. ExpenseOriginOrphans = {}
    BY DEF IInv, OriginsFound, ExpenseOriginOrphans
  <2>4. QED
    BY <2>1, <2>2, <2>3 DEF AuditIsClean
<1>2. QED
  BY <1>1, PlanningInvariant, PTL

(* No expense is ever charged to two limits: the periods of two limits of  *)
(* one category and currency have no day in common.                        *)
THEOREM ChargedOnce == Spec => []ExpenseCountsOnce
<1>1. IInv => ExpenseCountsOnce
  <2> SUFFICES ASSUME IInv, NEW l \in DOMAIN limits, NEW m \in DOMAIN limits,
                      l # m, NEW x \in Usage(l) \cap Usage(m)
               PROVE  FALSE
    BY DEF ExpenseCountsOnce
  <2>1. /\ x \in DOMAIN expenses
        /\ limits[l].category = limits[m].category
        /\ limits[l].currency = limits[m].currency
        /\ limits[l].start <= expenses[x].date /\ expenses[x].date <= limits[l].end
        /\ limits[m].start <= expenses[x].date /\ expenses[x].date <= limits[m].end
    BY DEF Usage
  <2>2. limits[l].end < limits[m].start \/ limits[m].end < limits[l].start
    BY <2>1 DEF IInv, PeriodsDisjoint
  <2>3. /\ limits[l].start \in Int /\ limits[l].end \in Int
        /\ limits[m].start \in Int /\ limits[m].end \in Int
    BY TypeFacts, PlanningAssumption DEF IInv
  <2>4. expenses[x].date \in Int
    BY <2>1, TypeFacts, PlanningAssumption DEF IInv
  <2>5. QED
    BY <2>1, <2>2, <2>3, <2>4
<1>2. QED
  BY <1>1, PlanningInvariant, PTL

-----------------------------------------------------------------------------
(* Action properties.                                                      *)

(* A closed plan keeps its category and its expense, and no other expense  *)
(* ever comes of it.                                                       *)
THEOREM ClosedStaysClosed == Spec => ClosedForGood
<1> DEFINE Final(p) ==
        /\ p \in DOMAIN plans'
        /\ plans'[p].status = "closed"
        /\ plans'[p].category = plans[p].category
        /\ plans'[p].expense = plans[p].expense
<1>1. ASSUME IInv, [Next]_vars, NEW p \in DOMAIN plans, plans[p].status = "closed"
      PROVE  Final(p)
  <2>1. CASE UNCHANGED plans
    BY <1>1, <2>1
  <2>2. plans \in [DOMAIN plans -> PlanDocument]
    BY <1>1 DEF IInv, TypeOK
  <2>3. ASSUME NEW o \in Plan, NEW actor \in Actor, NEW c \in Category,
               UpdatePlan(o, actor, c)
        PROVE  Final(p)
    BY <1>1, <2>2, <2>3 DEF UpdatePlan, OpenPlan, LivePlan
  <2>4. ASSUME NEW o \in Plan, NEW actor \in Actor, ArchivePlan(o, actor)
        PROVE  Final(p)
    <3>1. CASE o = p
      BY <1>1, <2>2, <2>4, <3>1 DEF ArchivePlan, LivePlan
    <3>2. CASE o # p
      BY <1>1, <2>2, <2>4, <3>2 DEF ArchivePlan, LivePlan
    <3>3. QED
      BY <3>1, <3>2
  <2>5. ASSUME NEW o \in Plan, NEW actor \in Actor, RemovePlan(o, actor)
        PROVE  Final(p)
    BY <1>1, <2>5 DEF RemovePlan, OpenPlan, Drop
  <2>6. ASSUME NEW o \in Plan, NEW actor \in Actor, NEW x \in Expense,
               NEW a \in Account, NEW date \in Day, ClosePlan(o, actor, x, a, date)
        PROVE  Final(p)
    BY <1>1, <2>2, <2>6 DEF ClosePlan, OpenPlan, LivePlan
  <2>7. ASSUME NEW o \in Plan, NEW actor \in Actor, NEW c \in Category,
               NEW currency \in Currency, CreatePlan(o, actor, c, currency)
        PROVE  Final(p)
    BY <1>1, <2>2, <2>7 DEF CreatePlan, Put
  <2>8. CASE PlanStep
    BY <2>3, <2>4, <2>5, <2>6, <2>7, <2>8 DEF PlanStep
  <2>9. CASE CategoryStep \/ ExpenseStep \/ LimitStep \/ AccountStep
    <3>1. UNCHANGED plans
      BY <2>9 DEF CategoryStep, ExpenseStep, LimitStep, AccountStep, CreateCategory,
         UpdateCategory, RemoveCategory, CreateExpense, UpdateExpense, DeleteExpense,
         CreateLimit, UpdateLimit, RemoveLimit, ArchiveAccount
    <3>2. QED
      BY <2>1, <3>1
  <2>10. CASE UNCHANGED vars
    BY <2>1, <2>10 DEF vars
  <2>11. QED
    BY <1>1, <2>8, <2>9, <2>10 DEF Next
<1>2. ASSUME IInv', NEW p \in DOMAIN plans', plans'[p].status = "closed"
      PROVE  {x \in DOMAIN expenses' : expenses'[x].origin = p} = {plans'[p].expense}
  <2>1. p # None
    BY <1>2, PlanningAssumption DEF IInv, TypeOK
  <2>2. plans'[p].expense \in DOMAIN expenses' /\ expenses'[plans'[p].expense].origin = p
    BY <1>2 DEF IInv, ClosingExpensesFound
  <2>3. \A x \in DOMAIN expenses' :
            expenses'[x].origin = p => plans'[p].expense = x
    BY <1>2, <2>1 DEF IInv, OriginsFound
  <2>4. QED
    BY <2>2, <2>3
<1>3. ASSUME IInv, [Next]_vars
      PROVE  \A p \in DOMAIN plans : plans[p].status = "closed" =>
                /\ p \in DOMAIN plans'
                /\ plans'[p].status = "closed"
                /\ plans'[p].category = plans[p].category
                /\ plans'[p].expense = plans[p].expense
                /\ {x \in DOMAIN expenses' : expenses'[x].origin = p}
                       = {plans[p].expense}
  <2> SUFFICES ASSUME NEW p \in DOMAIN plans, plans[p].status = "closed"
               PROVE  /\ Final(p)
                      /\ {x \in DOMAIN expenses' : expenses'[x].origin = p}
                             = {plans[p].expense}
    OBVIOUS
  <2>1. Final(p)
    BY <1>1, <1>3
  <2>2. IInv'
    BY <1>3, NextKeeps
  <2>3. QED
    BY <1>2, <2>1, <2>2
<1> HIDE DEF Final
<1>4. QED
  BY <1>3, PlanningInvariant, PTL DEF Spec, ClosedForGood

(* No expense, limit or plan comes to name an archived category.           *)
THEOREM ArchivedTakesNothing == Spec => NothingJoinsArchived
<1> DEFINE Shut(c) ==
        /\ \A x \in DOMAIN expenses' : expenses'[x].category = c =>
               x \in DOMAIN expenses /\ expenses[x].category = c
        /\ \A l \in DOMAIN limits' : limits'[l].category = c =>
               l \in DOMAIN limits /\ limits[l].category = c
        /\ \A p \in DOMAIN plans' : plans'[p].category = c =>
               p \in DOMAIN plans /\ plans[p].category = c
<1>1. ASSUME IInv, [Next]_vars, NEW c \in DOMAIN categories, categories[c].archived
      PROVE  Shut(c)
  <2>1. /\ expenses \in [DOMAIN expenses -> ExpenseDocument]
        /\ limits \in [DOMAIN limits -> LimitDocument]
        /\ plans \in [DOMAIN plans -> PlanDocument]
    BY <1>1 DEF IInv, TypeOK
  <2>2. CASE CategoryStep
    BY <2>2 DEF CategoryStep, CreateCategory, UpdateCategory, RemoveCategory
  <2>3. CASE AccountStep \/ UNCHANGED vars
    BY <2>3 DEF AccountStep, ArchiveAccount, vars
  <2>4. ASSUME NEW x \in Expense, NEW d \in Category, NEW a \in Account,
               NEW date \in Day, CreateExpense(x, d, a, date)
        PROVE  Shut(c)
    <3>1. StoreExpense(x, d, a, date, None) /\ UNCHANGED <<limits, plans>>
      BY <2>4 DEF CreateExpense
    <3>2. /\ ~categories[d].archived
          /\ DOMAIN expenses' = DOMAIN expenses \cup {x}
          /\ expenses'[x].category = d
          /\ \A y \in DOMAIN expenses : expenses'[y] = expenses[y]
      BY <1>1, <3>1, StoreExpenseFacts
    <3>3. QED
      BY <1>1, <3>1, <3>2
  <2>5. ASSUME NEW x \in Expense, NEW d \in Category, UpdateExpense(x, d)
        PROVE  Shut(c)
    BY <1>1, <2>1, <2>5 DEF UpdateExpense, LockCategory
  <2>6. ASSUME NEW x \in Expense, DeleteExpense(x)
        PROVE  Shut(c)
    BY <1>1, <2>1, <2>6 DEF DeleteExpense
  <2>7. ASSUME NEW l \in Limit, NEW d \in Category, NEW currency \in Currency,
               NEW start \in Day, NEW end \in Day, CreateLimit(l, d, currency, start, end)
        PROVE  Shut(c)
    BY <1>1, <2>1, <2>7 DEF CreateLimit, LockCategory, Put
  <2>8. ASSUME NEW l \in Limit, NEW start \in Day, NEW end \in Day,
               UpdateLimit(l, start, end)
        PROVE  Shut(c)
    BY <1>1, <2>1, <2>8 DEF UpdateLimit
  <2>9. ASSUME NEW l \in Limit, RemoveLimit(l)
        PROVE  Shut(c)
    BY <1>1, <2>1, <2>9 DEF RemoveLimit, Drop
  <2>10. ASSUME NEW p \in Plan, NEW actor \in Actor, NEW d \in Category,
                NEW currency \in Currency, CreatePlan(p, actor, d, currency)
         PROVE  Shut(c)
    BY <1>1, <2>1, <2>10 DEF CreatePlan, LockCategory, Put
  <2>11. ASSUME NEW p \in Plan, NEW actor \in Actor, NEW d \in Category,
                UpdatePlan(p, actor, d)
         PROVE  Shut(c)
    BY <1>1, <2>1, <2>11 DEF UpdatePlan, LockCategory
  <2>12. ASSUME NEW p \in Plan, NEW actor \in Actor, ArchivePlan(p, actor)
         PROVE  Shut(c)
    BY <1>1, <2>1, <2>12 DEF ArchivePlan
  <2>13. ASSUME NEW p \in Plan, NEW actor \in Actor, RemovePlan(p, actor)
         PROVE  Shut(c)
    BY <1>1, <2>1, <2>13 DEF RemovePlan, Drop
  <2>14. ASSUME NEW p \in Plan, NEW actor \in Actor, NEW x \in Expense,
                NEW a \in Account, NEW date \in Day, ClosePlan(p, actor, x, a, date)
         PROVE  Shut(c)
    <3>1. /\ StoreExpense(x, plans[p].category, a, date, p)
          /\ p \in DOMAIN plans /\ UNCHANGED limits
          /\ DOMAIN plans' = DOMAIN plans
          /\ \A o \in DOMAIN plans : plans'[o].category = plans[o].category
      BY <2>1, <2>14 DEF ClosePlan, OpenPlan, LivePlan
    <3>2. plans[p].category \in Category
      BY <2>1, <3>1
    <3>3. /\ ~categories[plans[p].category].archived
          /\ DOMAIN expenses' = DOMAIN expenses \cup {x}
          /\ expenses'[x].category = plans[p].category
          /\ \A y \in DOMAIN expenses : expenses'[y] = expenses[y]
      BY <1>1, <3>1, <3>2, StoreExpenseFacts
    <3>4. QED
      BY <1>1, <3>1, <3>3
  <2>15. CASE ExpenseStep \/ LimitStep \/ PlanStep
    <3> HIDE DEF Shut
    <3>1. CASE ExpenseStep
      BY <2>4, <2>5, <2>6, <3>1 DEF ExpenseStep
    <3>2. CASE LimitStep
      BY <2>7, <2>8, <2>9, <3>2 DEF LimitStep
    <3>3. CASE PlanStep
      BY <2>10, <2>11, <2>12, <2>13, <2>14, <3>3 DEF PlanStep
    <3>4. QED
      BY <2>15, <3>1, <3>2, <3>3
  <2>16. QED
    BY <1>1, <2>2, <2>3, <2>15 DEF Next
<1>2. ASSUME IInv, [Next]_vars
      PROVE  \A c \in DOMAIN categories : categories[c].archived =>
                /\ ExpensesIn(c)' \subseteq ExpensesIn(c)
                /\ LimitsIn(c)' \subseteq LimitsIn(c)
                /\ PlansIn(c)' \subseteq PlansIn(c)
  BY <1>1, <1>2 DEF ExpensesIn, LimitsIn, PlansIn
<1>3. QED
  BY <1>2, PlanningInvariant, PTL DEF Spec, NothingJoinsArchived

=============================================================================
