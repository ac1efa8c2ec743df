---------------------------- MODULE DebtsProofs -----------------------------
(***************************************************************************)
(* Theorems of Debts, for all sets of members, accounts, currencies and    *)
(* ids, any days and any bound on amounts.                                 *)
(***************************************************************************)
EXTENDS Debts, FiniteSetTheorems, TLAPS

-----------------------------------------------------------------------------
(* The inductive invariant: the three checks of the audit per document,    *)
(* and that no repayment outlives its debt, without which a debt that is   *)
(* created anew could be born with repayments.                             *)

BalancesAgree ==
    \A d \in DOMAIN debts :
        /\ debts[d].remaining = debts[d].principal - Paid(history, d)
        /\ debts[d].status = StatusFor(debts[d].remaining)

DebtsFound == \A r \in DOMAIN history : history[r].debt \in DOMAIN debts

RepaymentsAgree ==
    \A r \in DOMAIN history :
        IF history[r].isIncome
        THEN /\ history[r].income \in DOMAIN incomes
             /\ LinkMatches(r, history[r].income, history[r].debt)
        ELSE history[r].income = None

OneRepaymentEach ==
    \A r, s \in DOMAIN history :
        history[r].income = history[s].income /\ history[r].income # None => r = s

IncomesAgree ==
    \A i \in DOMAIN incomes :
        incomes[i].origin # None =>
            \E r \in DOMAIN history : history[r].income = i

IInv ==
    /\ TypeOK
    /\ BalancesAgree
    /\ DebtsFound
    /\ RepaymentsAgree
    /\ OneRepaymentEach
    /\ IncomesAgree

USE DEF DebtDocument, RepaymentDocument, IncomeDocument

LEMMA TypeFacts ==
    ASSUME TypeOK
    PROVE  /\ \A d \in DOMAIN debts : d \in Debt /\ debts[d] \in DebtDocument
           /\ \A r \in DOMAIN history : r \in Repayment /\ history[r] \in RepaymentDocument
           /\ \A i \in DOMAIN incomes : i \in Income /\ incomes[i] \in IncomeDocument
BY DEF TypeOK

LEMMA AmountFacts ==
    /\ Amount \subseteq Nat /\ \A n \in Amount : n >= 1 /\ n <= MaxAmount
    /\ MaxAmount \in Nat
BY DebtsAssumption DEF Amount

-----------------------------------------------------------------------------
(* Sums of repayments.                                                     *)

LEMMA PaidUnitsAreFinite ==
    ASSUME NEW h, DOMAIN h \subseteq Repayment, NEW d
    PROVE  IsFiniteSet(PaidUnits(h, d)) /\ Paid(h, d) \in Nat
<1>1. IsFiniteSet(Amount)
  BY FS_Interval, DebtsAssumption DEF Amount
<1>2. IsFiniteSet(Repayment \X Amount)
  BY <1>1, FS_Product, DebtsAssumption
<1>3. PaidUnits(h, d) \in SUBSET (Repayment \X Amount)
  BY DEF PaidUnits
<1>4. QED
  BY <1>2, <1>3, FS_Subset, FS_CardinalityType DEF Paid

(* A repayment of n that was not counted adds n units.                     *)
LEMMA UnitsAdd ==
    ASSUME NEW P, NEW r, NEW n \in Amount, IsFiniteSet(P),
           \A u \in P : u[1] # r
    PROVE  Cardinality(P \cup ({r} \X (1 .. n))) = Cardinality(P) + n
<1> DEFINE U == {r} \X (1 .. n)
<1>1. IsFiniteSet(1 .. n) /\ Cardinality(1 .. n) = n
  BY FS_Interval, AmountFacts
<1>2. IsFiniteSet({r}) /\ Cardinality({r}) = 1
  BY FS_Singleton
<1>3. IsFiniteSet(U) /\ Cardinality(U) = 1 * n
  BY <1>1, <1>2, FS_Product
<1>4. P \cap U = {}
  OBVIOUS
<1>5. Cardinality(P \cup U) = Cardinality(P) + Cardinality(U) - Cardinality(P \cap U)
  BY <1>3, FS_Union
<1>6. Cardinality(P) \in Nat /\ Cardinality(P \cap U) = 0 /\ n \in Nat
  BY <1>4, FS_CardinalityType, FS_EmptySet, AmountFacts
<1> HIDE DEF U
<1>7. Cardinality(P \cup U) = Cardinality(P) + n
  BY <1>3, <1>5, <1>6
<1>8. QED
  BY <1>7 DEF U

LEMMA PaidMore ==
    ASSUME NEW h, DOMAIN h \subseteq Repayment, NEW r, r \notin DOMAIN h,
           NEW document \in RepaymentDocument, ~document.cancelled
    PROVE  /\ Paid(Put(h, r, document), document.debt)
                = Paid(h, document.debt) + document.amount
           /\ \A e : e # document.debt => Paid(Put(h, r, document), e) = Paid(h, e)
<1> DEFINE n == document.amount
           d == document.debt
<1>1. n \in Amount /\ \A k : (k \in Amount /\ k <= n) <=> k \in 1 .. n
  BY AmountFacts DEF Amount
<1>2. /\ DOMAIN Put(h, r, document) = DOMAIN h \cup {r}
      /\ Put(h, r, document)[r] = document
      /\ \A s \in DOMAIN h : Put(h, r, document)[s] = h[s]
  BY DEF Put
<1>3. PaidUnits(Put(h, r, document), d) = PaidUnits(h, d) \cup ({r} \X (1 .. n))
  <2> DEFINE g == Put(h, r, document)
  <2>1. ASSUME NEW u \in PaidUnits(g, d)
        PROVE  u \in PaidUnits(h, d) \cup ({r} \X (1 .. n))
    BY <1>1, <1>2, <2>1 DEF PaidUnits
  <2>2. ASSUME NEW u \in PaidUnits(h, d) \cup ({r} \X (1 .. n))
        PROVE  u \in PaidUnits(g, d)
    BY <1>1, <1>2, <2>2 DEF PaidUnits
  <2>3. QED
    BY <2>1, <2>2
<1>4. \A u \in PaidUnits(h, d) : u[1] # r
  BY DEF PaidUnits
<1>5. \A e : e # d => PaidUnits(Put(h, r, document), e) = PaidUnits(h, e)
  <2> SUFFICES ASSUME NEW e, e # d
               PROVE  PaidUnits(Put(h, r, document), e) = PaidUnits(h, e)
    OBVIOUS
  <2>1. \A u : u \in PaidUnits(Put(h, r, document), e) <=> u \in PaidUnits(h, e)
    BY <1>2 DEF PaidUnits
  <2>2. QED
    BY <2>1
<1>6. IsFiniteSet(PaidUnits(h, d))
  BY PaidUnitsAreFinite
<1> HIDE DEF n, d
<1>7. Cardinality(PaidUnits(h, d) \cup ({r} \X (1 .. n))) = Cardinality(PaidUnits(h, d)) + n
  BY <1>1, <1>4, <1>6, UnitsAdd
<1>8. QED
  BY <1>3, <1>5, <1>7 DEF Paid, n, d

LEMMA PaidLess ==
    ASSUME NEW h, DOMAIN h \subseteq Repayment, h \in [DOMAIN h -> RepaymentDocument],
           NEW r \in DOMAIN h, ~h[r].cancelled
    PROVE  LET g == [h EXCEPT ![r].cancelled = TRUE]
           IN  /\ Paid(g, h[r].debt) + h[r].amount = Paid(h, h[r].debt)
               /\ \A e : e # h[r].debt => Paid(g, e) = Paid(h, e)
<1> DEFINE g == [h EXCEPT ![r].cancelled = TRUE]
           n == h[r].amount
           d == h[r].debt
<1>1. n \in Amount /\ \A k : (k \in Amount /\ k <= n) <=> k \in 1 .. n
  BY AmountFacts DEF Amount
<1>2. /\ DOMAIN g = DOMAIN h
      /\ g[r].cancelled /\ g[r].debt = d
      /\ \A s \in DOMAIN h : s # r => g[s] = h[s]
  OBVIOUS
<1> HIDE DEF g
<1>3. PaidUnits(h, d) = PaidUnits(g, d) \cup ({r} \X (1 .. n))
  <2>1. ASSUME NEW u \in PaidUnits(h, d)
        PROVE  u \in PaidUnits(g, d) \cup ({r} \X (1 .. n))
    BY <1>1, <1>2, <2>1 DEF PaidUnits
  <2>2. ASSUME NEW u \in PaidUnits(g, d) \cup ({r} \X (1 .. n))
        PROVE  u \in PaidUnits(h, d)
    BY <1>1, <1>2, <2>2 DEF PaidUnits
  <2>3. QED
    BY <2>1, <2>2
<1>4. \A u \in PaidUnits(g, d) : u[1] # r
  BY <1>2 DEF PaidUnits
<1>5. \A e : e # d => PaidUnits(g, e) = PaidUnits(h, e)
  <2> SUFFICES ASSUME NEW e, e # d
               PROVE  PaidUnits(g, e) = PaidUnits(h, e)
    OBVIOUS
  <2>1. \A u : u \in PaidUnits(g, e) <=> u \in PaidUnits(h, e)
    BY <1>2 DEF PaidUnits
  <2>2. QED
    BY <2>1
<1>6. IsFiniteSet(PaidUnits(g, d))
  BY <1>2, PaidUnitsAreFinite
<1> HIDE DEF n, d
<1>7. Cardinality(PaidUnits(g, d) \cup ({r} \X (1 .. n))) = Cardinality(PaidUnits(g, d)) + n
  BY <1>1, <1>4, <1>6, UnitsAdd
<1>8. Paid(g, d) + n = Paid(h, d) /\ \A e : e # d => Paid(g, e) = Paid(h, e)
  BY <1>3, <1>5, <1>7 DEF Paid
<1>9. QED
  BY <1>8 DEF g, n, d

LEMMA PaidNothing ==
    ASSUME NEW h, NEW d, \A r \in DOMAIN h : h[r].debt # d
    PROVE  Paid(h, d) = 0
<1>1. PaidUnits(h, d) = {}
  BY DEF PaidUnits
<1>2. QED
  BY <1>1, FS_EmptySet DEF Paid

-----------------------------------------------------------------------------
(* Incomes.                                                                *)

LEMMA StoreIncomeFacts ==
    ASSUME TypeOK, NEW i \in Income, NEW actor \in Actor, NEW a \in Account,
           NEW amount \in Amount, NEW date \in Day, NEW origin \in Debt \cup {None},
           StoreIncome(i, actor, a, amount, date, origin)
    PROVE  /\ i \notin DOMAIN incomes
           /\ DOMAIN incomes' = DOMAIN incomes \cup {i}
           /\ DOMAIN incomes' \subseteq Income
           /\ incomes' \in [DOMAIN incomes' -> IncomeDocument]
           /\ incomes'[i] = IncomeRow(actor, a, amount, date, origin)
           /\ \A j \in DOMAIN incomes : incomes'[j] = incomes[j]
<1> DEFINE document == IncomeRow(actor, a, amount, date, origin)
<1>1. document \in IncomeDocument
  BY DebtsAssumption DEF IncomeRow
<1> HIDE DEF document
<1>2. i \notin DOMAIN incomes /\ incomes' = Put(incomes, i, document)
  BY DEF StoreIncome, document
<1>3. DOMAIN incomes \subseteq Income /\ incomes \in [DOMAIN incomes -> IncomeDocument]
  BY DEF TypeOK
<1>4. /\ DOMAIN incomes' = DOMAIN incomes \cup {i}
      /\ DOMAIN incomes' \subseteq Income
      /\ incomes' \in [DOMAIN incomes' -> IncomeDocument]
      /\ incomes'[i] = document
      /\ \A j \in DOMAIN incomes : j # i /\ incomes'[j] = incomes[j]
  BY ONLY <1>1, <1>2, <1>3, i \in Income DEF Put
<1>5. QED
  BY <1>2, <1>4 DEF document

LEMMA CreateIncomeKeeps ==
    ASSUME IInv, NEW i \in Income, NEW actor \in Actor, NEW a \in Account,
           NEW amount \in Amount, NEW date \in Day,
           CreateIncome(i, actor, a, amount, date)
    PROVE  IInv'
<1>1. /\ StoreIncome(i, actor, a, amount, date, None)
      /\ UNCHANGED <<accounts, debts, history>>
  BY DEF CreateIncome
<1>2. /\ i \notin DOMAIN incomes
      /\ DOMAIN incomes' = DOMAIN incomes \cup {i}
      /\ DOMAIN incomes' \subseteq Income
      /\ incomes' \in [DOMAIN incomes' -> IncomeDocument]
      /\ incomes'[i].origin = None
      /\ \A j \in DOMAIN incomes : incomes'[j] = incomes[j]
  <2>1. None \in Debt \cup {None} /\ TypeOK
    BY DEF IInv
  <2>2. /\ i \notin DOMAIN incomes
        /\ DOMAIN incomes' = DOMAIN incomes \cup {i}
        /\ DOMAIN incomes' \subseteq Income
        /\ incomes' \in [DOMAIN incomes' -> IncomeDocument]
        /\ incomes'[i] = IncomeRow(actor, a, amount, date, None)
        /\ \A j \in DOMAIN incomes : incomes'[j] = incomes[j]
    BY <1>1, <2>1, StoreIncomeFacts
  <2>3. QED
    BY <2>2 DEF IncomeRow
<1>3. TypeOK'
  BY <1>1, <1>2 DEF IInv, TypeOK
<1>4. BalancesAgree' /\ DebtsFound' /\ OneRepaymentEach'
  BY <1>1 DEF IInv, BalancesAgree, DebtsFound, OneRepaymentEach
<1>5. RepaymentsAgree' /\ IncomesAgree'
  BY <1>1, <1>2 DEF IInv, RepaymentsAgree, IncomesAgree, LinkMatches
<1>6. QED
  BY <1>3, <1>4, <1>5 DEF IInv

(* A change of an income that no repayment made is out of sight of them.   *)
LEMMA IncomeWriteKeeps ==
    ASSUME IInv, NEW i \in DOMAIN incomes, NEW document \in IncomeDocument,
           incomes[i].origin = None, document.origin = None,
           incomes' = [incomes EXCEPT ![i] = document],
           UNCHANGED <<accounts, debts, history>>
    PROVE  IInv'
<1>1. /\ DOMAIN incomes' = DOMAIN incomes
      /\ incomes' \in [DOMAIN incomes -> IncomeDocument]
      /\ incomes'[i] = document
      /\ \A j \in DOMAIN incomes : j # i => incomes'[j] = incomes[j]
  BY DEF IInv, TypeOK
<1>2. TypeOK'
  BY <1>1 DEF IInv, TypeOK
<1>3. BalancesAgree' /\ DebtsFound' /\ OneRepaymentEach'
  BY DEF IInv, BalancesAgree, DebtsFound, OneRepaymentEach
<1>4. \A r \in DOMAIN history : history[r].isIncome => history[r].income # i
  BY TypeFacts, DebtsAssumption DEF IInv, RepaymentsAgree, LinkMatches
<1>5. RepaymentsAgree'
  BY <1>1, <1>4 DEF IInv, RepaymentsAgree, LinkMatches
<1>6. IncomesAgree'
  BY <1>1 DEF IInv, IncomesAgree
<1>7. QED
  BY <1>2, <1>3, <1>5, <1>6 DEF IInv

LEMMA UpdateIncomeKeeps ==
    ASSUME IInv, NEW i \in Income, NEW actor \in Actor, NEW amount \in Amount,
           UpdateIncome(i, actor, amount)
    PROVE  IInv'
<1> DEFINE document == [incomes[i] EXCEPT !.amount = amount]
<1>1. /\ i \in DOMAIN incomes /\ incomes[i].origin = None
      /\ incomes' = [incomes EXCEPT ![i] = document]
      /\ UNCHANGED <<accounts, debts, history>>
  BY DEF UpdateIncome, Changeable
<1>2. document \in IncomeDocument /\ document.origin = None
  BY <1>1, TypeFacts DEF IInv
<1> HIDE DEF document
<1>3. QED
  BY <1>1, <1>2, IncomeWriteKeeps

LEMMA DeleteIncomeKeeps ==
    ASSUME IInv, NEW i \in Income, NEW actor \in Actor, DeleteIncome(i, actor)
    PROVE  IInv'
<1> DEFINE document == [incomes[i] EXCEPT !.deleted = TRUE]
<1>1. /\ i \in DOMAIN incomes /\ incomes[i].origin = None
      /\ incomes' = [incomes EXCEPT ![i] = document]
      /\ UNCHANGED <<accounts, debts, history>>
  BY DEF DeleteIncome, Changeable
<1>2. document \in IncomeDocument /\ document.origin = None
  BY <1>1, TypeFacts DEF IInv
<1> HIDE DEF document
<1>3. QED
  BY <1>1, <1>2, IncomeWriteKeeps

LEMMA ArchiveAccountKeeps ==
    ASSUME IInv, NEW a \in Account, ArchiveAccount(a)
    PROVE  IInv'
BY DEF ArchiveAccount, IInv, TypeOK, BalancesAgree, DebtsFound, RepaymentsAgree,
       OneRepaymentEach, IncomesAgree, LinkMatches

-----------------------------------------------------------------------------
(* Debts.                                                                  *)

LEMMA CreateDebtKeeps ==
    ASSUME IInv, NEW d \in Debt, NEW actor \in Actor, NEW principal \in Amount,
           NEW currency \in Currency, CreateDebt(d, actor, principal, currency)
    PROVE  IInv'
<1> DEFINE document ==
        [createdBy |-> actor, currency |-> currency, principal |-> principal,
         remaining |-> principal, status |-> "active", archived |-> FALSE]
<1>1. /\ d \notin DOMAIN debts /\ debts' = Put(debts, d, document)
      /\ UNCHANGED <<accounts, history, incomes>>
  BY DEF CreateDebt
<1>2. /\ document \in DebtDocument
      /\ document.remaining = document.principal - 0
      /\ document.status = StatusFor(document.remaining)
  BY AmountFacts, DebtsAssumption DEF StatusFor, Amount
<1> HIDE DEF document
<1>3. DOMAIN debts \subseteq Debt /\ debts \in [DOMAIN debts -> DebtDocument]
  BY DEF IInv, TypeOK
<1>4. /\ DOMAIN debts' = DOMAIN debts \cup {d}
      /\ DOMAIN debts' \subseteq Debt
      /\ debts' \in [DOMAIN debts' -> DebtDocument]
      /\ debts'[d] = document
      /\ \A e \in DOMAIN debts : e # d /\ debts'[e] = debts[e]
  BY ONLY <1>1, <1>2, <1>3, d \in Debt DEF Put
<1>5. TypeOK'
  BY <1>1, <1>4 DEF IInv, TypeOK
<1>6. Paid(history, d) = 0
  BY <1>1, PaidNothing DEF IInv, DebtsFound
<1>7. BalancesAgree'
  BY <1>1, <1>2, <1>4, <1>6 DEF IInv, BalancesAgree
<1>8. DebtsFound' /\ OneRepaymentEach' /\ IncomesAgree'
  BY <1>1, <1>4 DEF IInv, DebtsFound, OneRepaymentEach, IncomesAgree
<1>9. RepaymentsAgree'
  BY <1>1, <1>4 DEF IInv, DebtsFound, RepaymentsAgree, LinkMatches
<1>10. QED
  BY <1>5, <1>7, <1>8, <1>9 DEF IInv

(* A write of a debt alone, which agrees with its repayments.              *)
LEMMA DebtWriteKeeps ==
    ASSUME IInv, NEW d \in DOMAIN debts, NEW document \in DebtDocument,
           debts' = [debts EXCEPT ![d] = document],
           document.currency = debts[d].currency,
           document.remaining = document.principal - Paid(history, d),
           document.status = StatusFor(document.remaining),
           UNCHANGED <<accounts, history, incomes>>
    PROVE  IInv'
<1>1. /\ DOMAIN debts' = DOMAIN debts
      /\ debts' \in [DOMAIN debts -> DebtDocument]
      /\ debts'[d] = document
      /\ \A e \in DOMAIN debts : e # d => debts'[e] = debts[e]
  BY DEF IInv, TypeOK
<1>2. TypeOK'
  BY <1>1 DEF IInv, TypeOK
<1>3. BalancesAgree'
  BY <1>1 DEF IInv, BalancesAgree
<1>4. DebtsFound' /\ OneRepaymentEach' /\ IncomesAgree'
  BY <1>1 DEF IInv, DebtsFound, OneRepaymentEach, IncomesAgree
<1>5. \A e \in DOMAIN debts : debts'[e].currency = debts[e].currency
  BY <1>1
<1>6. RepaymentsAgree'
  BY <1>1, <1>5 DEF IInv, DebtsFound, RepaymentsAgree, LinkMatches
<1>7. QED
  BY <1>2, <1>3, <1>4, <1>6 DEF IInv

LEMMA UpdateDebtKeeps ==
    ASSUME IInv, NEW d \in Debt, NEW actor \in Actor, NEW principal \in Amount,
           UpdateDebt(d, actor, principal)
    PROVE  IInv'
<1> DEFINE document ==
        [debts[d] EXCEPT !.principal = principal, !.remaining = principal]
<1>1. /\ d \in DOMAIN debts /\ HistoryOf(d) = {}
      /\ debts' = [debts EXCEPT ![d] = document]
      /\ UNCHANGED <<accounts, history, incomes>>
  <2>1. debts \in [DOMAIN debts -> DebtDocument]
    BY DEF IInv, TypeOK
  <2>2. QED
    BY <2>1 DEF UpdateDebt, LiveDebt, Mutable
<1>2. Paid(history, d) = 0
  BY <1>1, PaidNothing DEF HistoryOf
<1>3. debts[d] \in DebtDocument
  BY <1>1, TypeFacts DEF IInv
<1>4. debts[d].status = "active"
  BY <1>1, <1>2, <1>3, AmountFacts DEF IInv, BalancesAgree, StatusFor
<1>5. /\ document.principal = principal /\ document.remaining = principal
      /\ document.currency = debts[d].currency
      /\ document.status = "active"
  BY <1>3, <1>4
<1>6. principal \in Nat /\ principal # 0 /\ principal \in 0 .. MaxAmount
  BY AmountFacts DEF Amount
<1>7. document \in DebtDocument
  BY <1>3, <1>6
<1> HIDE DEF document
<1>8. /\ document.remaining = document.principal - Paid(history, d)
      /\ document.status = StatusFor(document.remaining)
  BY <1>2, <1>5, <1>6 DEF StatusFor
<1>9. QED
  BY <1>1, <1>5, <1>7, <1>8, DebtWriteKeeps

LEMMA ArchiveDebtKeeps ==
    ASSUME IInv, NEW d \in Debt, NEW actor \in Actor, ArchiveDebt(d, actor)
    PROVE  IInv'
<1> DEFINE document == [debts[d] EXCEPT !.archived = TRUE]
<1>1. /\ d \in DOMAIN debts
      /\ debts' = [debts EXCEPT ![d] = document]
      /\ UNCHANGED <<accounts, history, incomes>>
  BY DEF ArchiveDebt, LiveDebt, Mutable
<1>2. /\ document \in DebtDocument
      /\ document.currency = debts[d].currency
      /\ document.principal = debts[d].principal
      /\ document.remaining = debts[d].remaining
      /\ document.status = debts[d].status
  BY <1>1, TypeFacts DEF IInv
<1> HIDE DEF document
<1>3. /\ document.remaining = document.principal - Paid(history, d)
      /\ document.status = StatusFor(document.remaining)
  BY <1>1, <1>2 DEF IInv, BalancesAgree
<1>4. QED
  BY <1>1, <1>2, <1>3, DebtWriteKeeps

LEMMA RemoveDebtKeeps ==
    ASSUME IInv, NEW d \in Debt, NEW actor \in Actor, RemoveDebt(d, actor)
    PROVE  IInv'
<1>1. /\ HistoryOf(d) = {}
      /\ debts' = [x \in DOMAIN debts \ {d} |-> debts[x]]
      /\ UNCHANGED <<accounts, history, incomes>>
  BY DEF RemoveDebt
<1>2. /\ DOMAIN debts' = DOMAIN debts \ {d}
      /\ debts' \in [DOMAIN debts' -> DebtDocument]
      /\ \A e \in DOMAIN debts' : debts'[e] = debts[e]
  BY <1>1 DEF IInv, TypeOK
<1>3. TypeOK'
  BY <1>1, <1>2 DEF IInv, TypeOK
<1>4. BalancesAgree'
  BY <1>1, <1>2 DEF IInv, BalancesAgree
<1>5. DebtsFound' /\ OneRepaymentEach' /\ IncomesAgree'
  BY <1>1, <1>2 DEF IInv, DebtsFound, OneRepaymentEach, IncomesAgree, HistoryOf
<1>6. RepaymentsAgree'
  BY <1>1, <1>2 DEF IInv, DebtsFound, RepaymentsAgree, LinkMatches, HistoryOf
<1>7. QED
  BY <1>3, <1>4, <1>5, <1>6 DEF IInv

-----------------------------------------------------------------------------
(* Repayments.                                                             *)

LEMMA RecordFacts ==
    ASSUME IInv, NEW d \in Debt, NEW r \in Repayment, NEW actor \in Actor,
           NEW amount \in Amount, NEW date \in Day, NEW isIncome \in BOOLEAN,
           NEW income \in Income \cup {None}, Repayable(d, actor, amount),
           RecordRepayment(d, r, actor, amount, date, isIncome, income)
    PROVE  /\ d \in DOMAIN debts /\ r \notin DOMAIN history
           /\ DOMAIN history' = DOMAIN history \cup {r}
           /\ DOMAIN history' \subseteq Repayment
           /\ history' \in [DOMAIN history' -> RepaymentDocument]
           /\ history'[r] = [debt |-> d, amount |-> amount, date |-> date,
                             createdBy |-> actor, isIncome |-> isIncome,
                             income |-> income, cancelled |-> FALSE]
           /\ \A s \in DOMAIN history : history'[s] = history[s]
           /\ DOMAIN debts' = DOMAIN debts
           /\ debts' \in [DOMAIN debts -> DebtDocument]
           /\ \A e \in DOMAIN debts : debts'[e].currency = debts[e].currency
           /\ BalancesAgree'
<1> DEFINE document ==
               [debt |-> d, amount |-> amount, date |-> date, createdBy |-> actor,
                isIncome |-> isIncome, income |-> income, cancelled |-> FALSE]
           remaining == debts[d].remaining - amount
<1>1. /\ d \in DOMAIN debts /\ r \notin DOMAIN history
      /\ amount <= debts[d].remaining
      /\ history' = Put(history, r, document)
      /\ debts' = [debts EXCEPT ![d].remaining = remaining,
                                ![d].status = StatusFor(remaining)]
  BY DEF Repayable, LiveDebt, Mutable, RecordRepayment
<1>2. /\ document \in RepaymentDocument /\ ~document.cancelled
      /\ document.debt = d /\ document.amount = amount
  OBVIOUS
<1>3. /\ DOMAIN history \subseteq Repayment
      /\ history \in [DOMAIN history -> RepaymentDocument]
      /\ debts \in [DOMAIN debts -> DebtDocument]
  BY DEF IInv, TypeOK
<1>4. remaining \in 0 .. MaxAmount /\ StatusFor(remaining) \in {"active", "closed"}
  <2>1. debts[d].remaining \in 0 .. MaxAmount
    BY <1>1, <1>3
  <2>2. QED
    BY <1>1, <2>1, AmountFacts DEF StatusFor
<1>5. remaining = debts[d].principal - (Paid(history, d) + amount)
  <2>1. debts[d].remaining = debts[d].principal - Paid(history, d)
    BY <1>1 DEF IInv, BalancesAgree
  <2>2. debts[d].principal \in Nat /\ amount \in Nat
    BY <1>1, <1>3, AmountFacts
  <2>3. Paid(history, d) \in Nat
    BY <1>3, PaidUnitsAreFinite
  <2>4. QED
    BY <2>1, <2>2, <2>3
<1> HIDE DEF document, remaining
<1>6. /\ DOMAIN history' = DOMAIN history \cup {r}
      /\ DOMAIN history' \subseteq Repayment
      /\ history' \in [DOMAIN history' -> RepaymentDocument]
      /\ history'[r] = document
      /\ \A s \in DOMAIN history : history'[s] = history[s]
  BY ONLY <1>1, <1>2, <1>3, r \in Repayment DEF Put
<1>7. /\ DOMAIN debts' = DOMAIN debts
      /\ debts' \in [DOMAIN debts -> DebtDocument]
      /\ debts'[d].remaining = remaining /\ debts'[d].status = StatusFor(remaining)
      /\ debts'[d].principal = debts[d].principal
      /\ debts'[d].currency = debts[d].currency
      /\ \A e \in DOMAIN debts : e # d => debts'[e] = debts[e]
  BY <1>1, <1>3, <1>4
<1>8. /\ Paid(history', d) = Paid(history, d) + amount
      /\ \A e : e # d => Paid(history', e) = Paid(history, e)
  BY <1>1, <1>2, <1>3, PaidMore
<1>9. BalancesAgree'
  BY <1>5, <1>7, <1>8 DEF IInv, BalancesAgree
<1>10. QED
  BY <1>1, <1>6, <1>7, <1>9 DEF document

LEMMA RepayKeeps ==
    ASSUME IInv, NEW d \in Debt, NEW r \in Repayment, NEW actor \in Actor,
           NEW amount \in Amount, NEW date \in Day, Repay(d, r, actor, amount, date)
    PROVE  IInv'
<1>1. /\ Repayable(d, actor, amount)
      /\ RecordRepayment(d, r, actor, amount, date, FALSE, None)
      /\ UNCHANGED <<accounts, incomes>>
  BY DEF Repay
<1>2. /\ d \in DOMAIN debts /\ r \notin DOMAIN history
      /\ DOMAIN history' = DOMAIN history \cup {r}
      /\ DOMAIN history' \subseteq Repayment
      /\ history' \in [DOMAIN history' -> RepaymentDocument]
      /\ history'[r].debt = d /\ ~history'[r].isIncome /\ history'[r].income = None
      /\ \A s \in DOMAIN history : history'[s] = history[s]
      /\ DOMAIN debts' = DOMAIN debts
      /\ debts' \in [DOMAIN debts -> DebtDocument]
      /\ \A e \in DOMAIN debts : debts'[e].currency = debts[e].currency
      /\ BalancesAgree'
  <2>1. FALSE \in BOOLEAN /\ None \in Income \cup {None}
    OBVIOUS
  <2>2. /\ d \in DOMAIN debts /\ r \notin DOMAIN history
        /\ DOMAIN history' = DOMAIN history \cup {r}
        /\ DOMAIN history' \subseteq Repayment
        /\ history' \in [DOMAIN history' -> RepaymentDocument]
        /\ history'[r] = [debt |-> d, amount |-> amount, date |-> date,
                          createdBy |-> actor, isIncome |-> FALSE,
                          income |-> None, cancelled |-> FALSE]
        /\ \A s \in DOMAIN history : history'[s] = history[s]
        /\ DOMAIN debts' = DOMAIN debts
        /\ debts' \in [DOMAIN debts -> DebtDocument]
        /\ \A e \in DOMAIN debts : debts'[e].currency = debts[e].currency
        /\ BalancesAgree'
    BY <1>1, <2>1, RecordFacts
  <2>3. QED
    BY <2>2
<1>3. TypeOK'
  BY <1>1, <1>2 DEF IInv, TypeOK
<1>4. DebtsFound' /\ OneRepaymentEach'
  BY <1>2 DEF IInv, DebtsFound, OneRepaymentEach
<1>5. RepaymentsAgree'
  BY <1>1, <1>2 DEF IInv, DebtsFound, RepaymentsAgree, LinkMatches
<1>6. IncomesAgree'
  BY <1>1, <1>2 DEF IInv, IncomesAgree
<1>7. QED
  BY <1>2, <1>3, <1>4, <1>5, <1>6 DEF IInv

LEMMA RepayAsIncomeKeeps ==
    ASSUME IInv, NEW d \in Debt, NEW r \in Repayment, NEW i \in Income,
           NEW actor \in Actor, NEW a \in Account, NEW amount \in Amount,
           NEW date \in Day, RepayAsIncome(d, r, i, actor, a, amount, date)
    PROVE  IInv'
<1>1. /\ Repayable(d, actor, amount)
      /\ StoreIncome(i, actor, a, amount, date, d)
      /\ CurrencyOf[a] = debts[d].currency
      /\ RecordRepayment(d, r, actor, amount, date, TRUE, i)
      /\ UNCHANGED accounts
  BY DEF RepayAsIncome
<1>2. /\ d \in DOMAIN debts /\ r \notin DOMAIN history
      /\ DOMAIN history' = DOMAIN history \cup {r}
      /\ DOMAIN history' \subseteq Repayment
      /\ history' \in [DOMAIN history' -> RepaymentDocument]
      /\ history'[r] = [debt |-> d, amount |-> amount, date |-> date,
                        createdBy |-> actor, isIncome |-> TRUE,
                        income |-> i, cancelled |-> FALSE]
      /\ \A s \in DOMAIN history : history'[s] = history[s]
      /\ DOMAIN debts' = DOMAIN debts
      /\ debts' \in [DOMAIN debts -> DebtDocument]
      /\ \A e \in DOMAIN debts : debts'[e].currency = debts[e].currency
      /\ BalancesAgree'
  <2>1. TRUE \in BOOLEAN /\ i \in Income \cup {None}
    OBVIOUS
  <2>2. QED
    BY <1>1, <2>1, RecordFacts
<1>3. /\ i \notin DOMAIN incomes
      /\ DOMAIN incomes' = DOMAIN incomes \cup {i}
      /\ DOMAIN incomes' \subseteq Income
      /\ incomes' \in [DOMAIN incomes' -> IncomeDocument]
      /\ incomes'[i] = IncomeRow(actor, a, amount, date, d)
      /\ \A j \in DOMAIN incomes : incomes'[j] = incomes[j]
  <2>1. TypeOK /\ d \in Debt \cup {None}
    BY DEF IInv
  <2>2. QED
    BY <1>1, <2>1, StoreIncomeFacts
<1>4. TypeOK'
  BY <1>1, <1>2, <1>3 DEF IInv, TypeOK
<1>5. DebtsFound'
  BY <1>2 DEF IInv, DebtsFound
<1>6. \A s \in DOMAIN history : history[s].income # i
  BY <1>3, DebtsAssumption DEF IInv, RepaymentsAgree
<1>7. OneRepaymentEach'
  BY <1>2, <1>6 DEF IInv, OneRepaymentEach
<1>8. RepaymentsAgree'
  <2>1. \A s \in DOMAIN history : history[s].isIncome =>
            history[s].income \in DOMAIN incomes' /\ LinkMatches(s, history[s].income, history[s].debt)'
    BY <1>2, <1>3 DEF IInv, DebtsFound, RepaymentsAgree, LinkMatches
  <2>2. LinkMatches(r, i, d)'
    BY <1>1, <1>2, <1>3 DEF LinkMatches, IncomeRow
  <2>3. \A s \in DOMAIN history : ~history[s].isIncome => history[s].income = None
    BY DEF IInv, RepaymentsAgree
  <2>4. QED
    BY <1>2, <1>3, <2>1, <2>2, <2>3 DEF RepaymentsAgree
<1>9. IncomesAgree'
  BY <1>2, <1>3 DEF IInv, IncomesAgree
<1>10. QED
  BY <1>2, <1>4, <1>5, <1>7, <1>8, <1>9 DEF IInv

LEMMA CancelRepaymentKeeps ==
    ASSUME IInv, NEW d \in Debt, NEW r \in Repayment, NEW actor \in Actor,
           CancelRepayment(d, r, actor)
    PROVE  IInv'
<1> DEFINE remaining == debts[d].remaining + history[r].amount
<1>1. /\ d \in DOMAIN debts /\ r \in DOMAIN history
      /\ history[r].debt = d /\ ~history[r].cancelled
      /\ CancelIncome(d, r) /\ remaining <= debts[d].principal
      /\ history' = [history EXCEPT ![r].cancelled = TRUE]
      /\ debts' = [debts EXCEPT ![d].remaining = remaining, ![d].status = "active"]
      /\ UNCHANGED accounts
  BY DEF CancelRepayment, Cancellable, LiveDebt, Mutable, HistoryOf
<1>2. /\ DOMAIN history \subseteq Repayment
      /\ history \in [DOMAIN history -> RepaymentDocument]
      /\ debts \in [DOMAIN debts -> DebtDocument]
      /\ DOMAIN incomes \subseteq Income
      /\ incomes \in [DOMAIN incomes -> IncomeDocument]
  BY DEF IInv, TypeOK
<1>3. remaining \in 0 .. MaxAmount /\ remaining # 0
  <2>1. /\ debts[d].remaining \in Nat /\ history[r].amount \in Nat
        /\ history[r].amount >= 1
        /\ debts[d].principal \in Nat /\ debts[d].principal <= MaxAmount
    BY <1>1, <1>2, AmountFacts
  <2>2. QED
    BY <1>1, <2>1, AmountFacts
<1>4. remaining = debts[d].principal - (Paid(history, d) - history[r].amount)
  <2>1. debts[d].remaining = debts[d].principal - Paid(history, d)
    BY <1>1 DEF IInv, BalancesAgree
  <2>2. debts[d].principal \in Nat /\ history[r].amount \in Nat
    BY <1>1, <1>2, AmountFacts
  <2>3. Paid(history, d) \in Nat
    BY <1>2, PaidUnitsAreFinite
  <2>4. QED
    BY <2>1, <2>2, <2>3
<1> HIDE DEF remaining
<1> DEFINE repaid == [history[r] EXCEPT !.cancelled = TRUE]
           owed == [debts[d] EXCEPT !.remaining = remaining, !.status = "active"]
<1>15. /\ repaid \in RepaymentDocument /\ repaid.cancelled = TRUE
      /\ repaid.debt = history[r].debt /\ repaid.income = history[r].income
      /\ repaid.isIncome = history[r].isIncome
      /\ repaid.amount = history[r].amount /\ repaid.date = history[r].date
      /\ repaid.createdBy = history[r].createdBy
  <2>1. history[r] \in RepaymentDocument
    BY <1>1, <1>2
  <2>2. QED
    BY <2>1
<1>16. /\ owed \in DebtDocument
      /\ owed.remaining = remaining /\ owed.status = "active"
      /\ owed.principal = debts[d].principal /\ owed.currency = debts[d].currency
  <2>1. debts[d] \in DebtDocument
    BY <1>1, <1>2
  <2>2. QED
    BY <1>3, <2>1
<1>17. /\ history' = [history EXCEPT ![r] = repaid]
      /\ debts' = [debts EXCEPT ![d] = owed]
  BY <1>1, <1>2
<1> HIDE DEF repaid, owed
<1>5. /\ DOMAIN history' = DOMAIN history
      /\ history' \in [DOMAIN history -> RepaymentDocument]
      /\ history'[r] = repaid
      /\ \A s \in DOMAIN history : s # r => history'[s] = history[s]
  <2>1. r \in DOMAIN history /\ history' = [history EXCEPT ![r] = repaid]
    BY <1>1, <1>17
  <2>2. history \in [DOMAIN history -> RepaymentDocument] /\ repaid \in RepaymentDocument
    BY <1>2, <1>15
  <2>3. QED
    BY ONLY <2>1, <2>2
<1>6. \A s \in DOMAIN history :
        /\ history'[s].debt = history[s].debt
        /\ history'[s].income = history[s].income
        /\ history'[s].isIncome = history[s].isIncome
        /\ history'[s].amount = history[s].amount
        /\ history'[s].date = history[s].date
        /\ history'[s].createdBy = history[s].createdBy
  BY <1>5, <1>15
<1>7. /\ DOMAIN debts' = DOMAIN debts
      /\ debts' \in [DOMAIN debts -> DebtDocument]
      /\ debts'[d].remaining = remaining /\ debts'[d].status = "active"
      /\ debts'[d].principal = debts[d].principal
      /\ debts'[d].currency = debts[d].currency
      /\ \A e \in DOMAIN debts : e # d => debts'[e] = debts[e]
  BY <1>1, <1>2, <1>16, <1>17
<1>8. /\ Paid(history', d) = Paid(history, d) - history[r].amount
      /\ \A e : e # d => Paid(history', e) = Paid(history, e)
  <2>1. /\ Paid(history', d) + history[r].amount = Paid(history, d)
        /\ \A e : e # d => Paid(history', e) = Paid(history, e)
    BY <1>1, <1>2, PaidLess
  <2>2. Paid(history', d) \in Nat /\ history[r].amount \in Nat
    BY <1>1, <1>2, <1>5, PaidUnitsAreFinite, AmountFacts
  <2>3. QED
    BY <2>1, <2>2
<1>9. BalancesAgree'
  BY <1>3, <1>4, <1>7, <1>8 DEF IInv, BalancesAgree, StatusFor
<1>10. DebtsFound' /\ OneRepaymentEach'
  BY <1>5, <1>6, <1>7 DEF IInv, DebtsFound, OneRepaymentEach
<1>11. \A e \in DOMAIN debts : debts'[e].currency = debts[e].currency
  BY <1>7
<1>12. CASE ~history[r].isIncome
  <2>1. UNCHANGED incomes
    BY <1>1, <1>12 DEF CancelIncome
  <2>2. TypeOK'
    BY <1>1, <1>5, <1>7, <2>1 DEF IInv, TypeOK
  <2>3. RepaymentsAgree'
    BY <1>5, <1>6, <1>11, <1>12, <2>1 DEF IInv, DebtsFound, RepaymentsAgree, LinkMatches
  <2>4. IncomesAgree'
    BY <1>5, <1>6, <2>1 DEF IInv, IncomesAgree
  <2>5. QED
    BY <1>9, <1>10, <2>2, <2>3, <2>4 DEF IInv
<1>13. CASE history[r].isIncome
  <2> DEFINE i == history[r].income
             taken == [incomes[i] EXCEPT !.deleted = TRUE]
  <2>1. /\ i \in DOMAIN incomes
        /\ incomes' = [incomes EXCEPT ![i].deleted = TRUE]
    BY <1>1, <1>13 DEF CancelIncome, IncomeAgrees
  <2>11. /\ taken \in IncomeDocument /\ taken.deleted = TRUE
        /\ taken.origin = incomes[i].origin /\ taken.amount = incomes[i].amount
        /\ taken.currency = incomes[i].currency /\ taken.date = incomes[i].date
        /\ taken.createdBy = incomes[i].createdBy
    <3>1. incomes[i] \in IncomeDocument
      BY <1>2, <2>1
    <3>2. QED
      BY <3>1
  <2>12. incomes' = [incomes EXCEPT ![i] = taken]
    BY <1>2, <2>1
  <2>13. history[r].income = i
    OBVIOUS
  <2>14. LinkMatches(r, i, d)
    BY <1>1, <1>13 DEF IInv, RepaymentsAgree
  <2> HIDE DEF i, taken
  <2>2. /\ DOMAIN incomes' = DOMAIN incomes
        /\ incomes' \in [DOMAIN incomes -> IncomeDocument]
        /\ incomes'[i] = taken
        /\ \A j \in DOMAIN incomes : j # i => incomes'[j] = incomes[j]
    BY <1>2, <2>1, <2>11, <2>12
  <2>3. TypeOK'
    BY <1>1, <1>5, <1>7, <2>2 DEF IInv, TypeOK
  <2>4. \A j \in DOMAIN incomes : incomes'[j].origin = incomes[j].origin
    BY <2>2, <2>11
  <2>5. IncomesAgree'
    BY <1>5, <1>6, <2>2, <2>4 DEF IInv, IncomesAgree
  <2>6. i # None
    BY <1>2, <2>1, DebtsAssumption
  <2>7. \A s \in DOMAIN history : s # r => history[s].income # i
    BY <1>1, <2>6, <2>13 DEF IInv, OneRepaymentEach
  <2>8. /\ history'[r].income \in DOMAIN incomes'
        /\ LinkMatches(r, history[r].income, history[r].debt)'
    <3>1. /\ history'[r].income = i /\ history'[r].debt = d
          /\ history'[r].cancelled = TRUE
          /\ history'[r].amount = history[r].amount
          /\ history'[r].date = history[r].date
          /\ history'[r].createdBy = history[r].createdBy
      BY <1>1, <1>5, <1>6, <1>15, <2>13
    <3>2. /\ i \in DOMAIN incomes'
          /\ incomes'[i].origin = d
          /\ incomes'[i].amount = history[r].amount
          /\ incomes'[i].currency = debts[d].currency
          /\ incomes'[i].date = history[r].date
          /\ incomes'[i].createdBy = history[r].createdBy
          /\ incomes'[i].deleted = TRUE
      BY <2>1, <2>2, <2>11, <2>14 DEF LinkMatches
    <3>3. debts'[d].currency = debts[d].currency
      BY <1>7
    <3>4. QED
      BY <3>1, <3>2, <3>3 DEF LinkMatches
  <2>9. RepaymentsAgree'
    <3>1. ASSUME NEW s \in DOMAIN history, s # r, history'[s].isIncome
          PROVE  /\ history'[s].income \in DOMAIN incomes'
                 /\ LinkMatches(s, history[s].income, history[s].debt)'
      <4>1. /\ history'[s] = history[s]
            /\ history[s].income # i
            /\ history[s].isIncome
        BY <1>5, <2>7, <3>1
      <4>2. /\ history[s].income \in DOMAIN incomes
            /\ LinkMatches(s, history[s].income, history[s].debt)
            /\ history[s].debt \in DOMAIN debts
        BY <4>1 DEF IInv, RepaymentsAgree, DebtsFound
      <4>3. /\ incomes'[history[s].income] = incomes[history[s].income]
            /\ debts'[history[s].debt].currency = debts[history[s].debt].currency
        BY <1>11, <2>2, <4>1, <4>2
      <4>4. QED
        BY <2>2, <4>1, <4>2, <4>3 DEF LinkMatches
    <3>2. ASSUME NEW s \in DOMAIN history, ~history'[s].isIncome
          PROVE  history'[s].income = None
      BY <1>6, <3>2 DEF IInv, RepaymentsAgree
    <3>3. history'[r].isIncome
      BY <1>1, <1>6, <1>13
    <3>4. QED
      BY <1>5, <2>8, <3>1, <3>2, <3>3 DEF RepaymentsAgree
  <2>10. QED
    BY <1>9, <1>10, <2>3, <2>5, <2>9 DEF IInv
<1>14. QED
  BY <1>12, <1>13

-----------------------------------------------------------------------------
(* The invariant.                                                          *)

LEMMA InitKeeps == Init => IInv
<1> SUFFICES ASSUME Init PROVE IInv
  OBVIOUS
<1>1. DOMAIN debts = {} /\ DOMAIN history = {} /\ DOMAIN incomes = {}
  BY DEF Init
<1>2. TypeOK
  BY <1>1 DEF Init, TypeOK
<1>3. QED
  BY <1>1, <1>2 DEF IInv, BalancesAgree, DebtsFound, RepaymentsAgree,
                    OneRepaymentEach, IncomesAgree

LEMMA NextKeeps == IInv /\ [Next]_vars => IInv'
<1> SUFFICES ASSUME IInv, [Next]_vars PROVE IInv'
  OBVIOUS
<1>1. CASE IncomeStep
  BY <1>1, CreateIncomeKeeps, UpdateIncomeKeeps, DeleteIncomeKeeps DEF IncomeStep
<1>2. CASE DebtStep
  BY <1>2, CreateDebtKeeps, UpdateDebtKeeps, ArchiveDebtKeeps, RemoveDebtKeeps DEF DebtStep
<1>3. CASE RepaymentStep
  BY <1>3, RepayKeeps, RepayAsIncomeKeeps, CancelRepaymentKeeps DEF RepaymentStep
<1>4. CASE AccountStep
  BY <1>4, ArchiveAccountKeeps DEF AccountStep
<1>5. CASE UNCHANGED vars
  BY <1>5 DEF vars, IInv, TypeOK, BalancesAgree, DebtsFound, RepaymentsAgree,
              OneRepaymentEach, IncomesAgree, LinkMatches
<1>6. QED
  BY <1>1, <1>2, <1>3, <1>4, <1>5 DEF Next

(* The inductive invariant holds throughout.                               *)
THEOREM DebtsInvariant == Spec => []IInv
<1>1. QED
  BY InitKeeps, NextKeeps, PTL DEF Spec

(* Every debt, repayment and income keeps its shape.                       *)
THEOREM DebtsTypeCorrect == Spec => []TypeOK
<1>1. IInv => TypeOK
  BY DEF IInv
<1>2. QED
  BY <1>1, DebtsInvariant, PTL

(* The debt audit never finds a violation: remaining amounts, statuses and *)
(* links agree after any sequence of operations.                           *)
THEOREM DebtAuditClean == Spec => []AuditIsClean
<1>1. ASSUME IInv PROVE AuditIsClean
  <2>1. BalanceViolations = {}
    <3> SUFFICES ASSUME NEW d \in BalanceViolations PROVE FALSE
      OBVIOUS
    <3>1. /\ d \in DOMAIN debts
          /\ debts[d].remaining = debts[d].principal - Paid(history, d)
          /\ debts[d].status = StatusFor(debts[d].remaining)
      BY <1>1 DEF IInv, BalancesAgree, BalanceViolations
    <3>2. debts[d].remaining \in 0 .. MaxAmount
      BY <1>1, <3>1, TypeFacts DEF IInv
    <3>3. ~(debts[d].remaining < 0)
      BY <3>2, AmountFacts
    <3>4. QED
      BY <3>1, <3>3 DEF BalanceViolations
  <2>2. RepaymentViolations = {}
    <3> SUFFICES ASSUME NEW r \in RepaymentViolations PROVE FALSE
      OBVIOUS
    <3>1. /\ r \in DOMAIN history
          /\ history[r].isIncome =>
                \/ ~Linked(r, history[r].income, history[r].debt)
                \/ RepaymentsOf(history[r].income) # {r}
          /\ ~history[r].isIncome => history[r].income # None
      BY DEF RepaymentViolations
    <3>2. CASE history[r].isIncome
      <4>1. Linked(r, history[r].income, history[r].debt)
        BY <1>1, <3>1, <3>2 DEF IInv, RepaymentsAgree, DebtsFound, Linked
      <4>2. history[r].income # None
        <5>1. history[r].income \in DOMAIN incomes
          BY <4>1 DEF Linked
        <5>2. history[r].income \in Income
          BY <1>1, <5>1 DEF IInv, TypeOK
        <5>3. QED
          BY <5>2, DebtsAssumption
      <4>3. RepaymentsOf(history[r].income) = {r}
        BY <1>1, <3>1, <4>2 DEF IInv, OneRepaymentEach, RepaymentsOf
      <4>4. QED
        BY <3>1, <3>2, <4>1, <4>3
    <3>3. CASE ~history[r].isIncome
      BY <1>1, <3>1, <3>3 DEF IInv, RepaymentsAgree
    <3>4. QED
      BY <3>2, <3>3
  <2>3. IncomeViolations = {}
    <3> SUFFICES ASSUME NEW i \in DOMAIN incomes, incomes[i].origin # None
                 PROVE  \E r \in DOMAIN history :
                            /\ RepaymentsOf(i) = {r}
                            /\ history[r].isIncome
                            /\ Linked(r, i, history[r].debt)
      BY DEF IncomeViolations
    <3>1. PICK r \in DOMAIN history : history[r].income = i
      BY <1>1 DEF IInv, IncomesAgree
    <3>2. i # None
      BY <1>1, TypeFacts, DebtsAssumption DEF IInv
    <3>3. history[r].isIncome
      BY <1>1, <3>1, <3>2 DEF IInv, RepaymentsAgree
    <3>4. RepaymentsOf(i) = {r}
      BY <1>1, <3>1, <3>2 DEF IInv, OneRepaymentEach, RepaymentsOf
    <3>5. Linked(r, i, history[r].debt)
      BY <1>1, <3>1, <3>3 DEF IInv, RepaymentsAgree, DebtsFound, Linked
    <3>6. QED
      BY <3>3, <3>4, <3>5
  <2>4. QED
    BY <2>1, <2>2, <2>3 DEF AuditIsClean
<1>2. QED
  BY <1>1, DebtsInvariant, PTL

-----------------------------------------------------------------------------
(* What an archived debt keeps.                                            *)

Frozen(d) ==
    /\ d \in DOMAIN debts' /\ debts'[d] = debts[d]
    /\ {r \in DOMAIN history' : history'[r].debt = d} = HistoryOf(d)
    /\ \A r \in HistoryOf(d) : history'[r] = history[r]
    /\ \A i \in DOMAIN incomes : incomes[i].origin = d =>
           i \in DOMAIN incomes' /\ incomes'[i] = incomes[i]

(* A repayment recorded for another debt leaves a debt alone.              *)
LEMMA RecordElsewhere ==
    ASSUME IInv, NEW d \in DOMAIN debts, NEW e, e # d, NEW r,
           DOMAIN history' = DOMAIN history \cup {r}, history'[r].debt = e,
           \A s \in DOMAIN history : history'[s] = history[s]
    PROVE  /\ {s \in DOMAIN history' : history'[s].debt = d} = HistoryOf(d)
           /\ \A s \in HistoryOf(d) : history'[s] = history[s]
BY DEF HistoryOf

LEMMA Freezes ==
    ASSUME IInv, Next, NEW d \in DOMAIN debts, debts[d].archived
    PROVE  Frozen(d)
<1>1. /\ d \in Debt /\ d # None
      /\ debts \in [DOMAIN debts -> DebtDocument]
      /\ history \in [DOMAIN history -> RepaymentDocument]
      /\ incomes \in [DOMAIN incomes -> IncomeDocument]
  BY DebtsAssumption DEF IInv, TypeOK
<1>2. CASE IncomeStep
  <2>1. ASSUME NEW i \in Income, NEW actor \in Actor, NEW amount \in Amount,
               NEW a \in Account, NEW date \in Day, CreateIncome(i, actor, a, amount, date)
        PROVE  Frozen(d)
    BY <1>1, <2>1 DEF CreateIncome, StoreIncome, Put, Frozen, HistoryOf
  <2>2. ASSUME NEW i \in Income, NEW actor \in Actor, NEW amount \in Amount,
               UpdateIncome(i, actor, amount)
        PROVE  Frozen(d)
    BY <1>1, <2>2 DEF UpdateIncome, Changeable, Frozen, HistoryOf
  <2>3. ASSUME NEW i \in Income, NEW actor \in Actor, DeleteIncome(i, actor)
        PROVE  Frozen(d)
    BY <1>1, <2>3 DEF DeleteIncome, Changeable, Frozen, HistoryOf
  <2>4. QED
    BY <1>2, <2>1, <2>2, <2>3 DEF IncomeStep
<1>3. CASE DebtStep
  <2>1. ASSUME NEW e \in Debt, NEW actor \in Actor, ArchiveDebt(e, actor)
        PROVE  Frozen(d)
    BY <1>1, <2>1 DEF ArchiveDebt, LiveDebt, Mutable, Frozen, HistoryOf
  <2>2. ASSUME NEW e \in Debt, NEW actor \in Actor, RemoveDebt(e, actor)
        PROVE  Frozen(d)
    BY <1>1, <2>2 DEF RemoveDebt, LiveDebt, Mutable, Frozen, HistoryOf
  <2>3. ASSUME NEW e \in Debt, NEW actor \in Actor, NEW principal \in Amount,
               UpdateDebt(e, actor, principal)
        PROVE  Frozen(d)
    BY <1>1, <2>3 DEF UpdateDebt, LiveDebt, Mutable, Frozen, HistoryOf
  <2>4. ASSUME NEW e \in Debt, NEW actor \in Actor, NEW principal \in Amount,
               NEW currency \in Currency, CreateDebt(e, actor, principal, currency)
        PROVE  Frozen(d)
    BY <1>1, <2>4 DEF CreateDebt, Put, Frozen, HistoryOf
  <2>5. QED
    BY <1>3, <2>1, <2>2, <2>3, <2>4 DEF DebtStep
<1>4. CASE RepaymentStep
  <2>1. ASSUME NEW e \in Debt, NEW r \in Repayment, NEW actor \in Actor,
               CancelRepayment(e, r, actor)
        PROVE  Frozen(d)
    <3>1. /\ e # d /\ r \in DOMAIN history /\ history[r].debt = e
          /\ history' = [history EXCEPT ![r].cancelled = TRUE]
          /\ DOMAIN debts' = DOMAIN debts /\ debts'[d] = debts[d]
          /\ CancelIncome(e, r)
      BY <1>1, <2>1 DEF CancelRepayment, Cancellable, LiveDebt, Mutable, HistoryOf
    <3>2. /\ DOMAIN history' = DOMAIN history
          /\ history'[r].debt = e
          /\ \A s \in DOMAIN history : s # r => history'[s] = history[s]
      BY <1>1, <3>1
    <3>3. \A i \in DOMAIN incomes : incomes[i].origin = d =>
               i \in DOMAIN incomes' /\ incomes'[i] = incomes[i]
      BY <3>1 DEF CancelIncome, IncomeAgrees
    <3>4. QED
      BY <3>1, <3>2, <3>3 DEF Frozen, HistoryOf
  <2>2. ASSUME NEW e \in Debt, NEW r \in Repayment, NEW actor \in Actor,
               NEW amount \in Amount, NEW date \in Day, Repay(e, r, actor, amount, date)
        PROVE  Frozen(d)
    <3>1. /\ Repayable(e, actor, amount) /\ e # d /\ UNCHANGED incomes
          /\ RecordRepayment(e, r, actor, amount, date, FALSE, None)
      BY <2>2 DEF Repay, Repayable, LiveDebt
    <3>2. /\ DOMAIN history' = DOMAIN history \cup {r}
          /\ history'[r].debt = e
          /\ \A s \in DOMAIN history : history'[s] = history[s]
      BY <3>1 DEF RecordRepayment, Put
    <3>3. DOMAIN debts' = DOMAIN debts /\ debts'[d] = debts[d]
      BY <1>1, <3>1 DEF RecordRepayment
    <3>4. QED
      BY <3>1, <3>2, <3>3, RecordElsewhere DEF Frozen
  <2>3. ASSUME NEW e \in Debt, NEW r \in Repayment, NEW actor \in Actor,
               NEW amount \in Amount, NEW date \in Day, NEW i \in Income,
               NEW a \in Account, RepayAsIncome(e, r, i, actor, a, amount, date)
        PROVE  Frozen(d)
    <3>1. /\ Repayable(e, actor, amount) /\ e # d
          /\ RecordRepayment(e, r, actor, amount, date, TRUE, i)
      BY <2>3 DEF RepayAsIncome, Repayable, LiveDebt
    <3>2. /\ DOMAIN history' = DOMAIN history \cup {r}
          /\ history'[r].debt = e
          /\ \A s \in DOMAIN history : history'[s] = history[s]
      BY <3>1 DEF RecordRepayment, Put
    <3>3. DOMAIN debts' = DOMAIN debts /\ debts'[d] = debts[d]
      BY <1>1, <3>1 DEF RecordRepayment
    <3>4. \A j \in DOMAIN incomes : j \in DOMAIN incomes' /\ incomes'[j] = incomes[j]
      BY <1>1, <2>3 DEF RepayAsIncome, StoreIncome, Put
    <3>5. QED
      BY <3>1, <3>2, <3>3, <3>4, RecordElsewhere DEF Frozen
  <2>4. QED
    BY <1>4, <2>1, <2>2, <2>3 DEF RepaymentStep
<1>5. CASE AccountStep
  BY <1>1, <1>5 DEF AccountStep, ArchiveAccount, Frozen, HistoryOf
<1>6. QED
  BY <1>2, <1>3, <1>4, <1>5 DEF Next

(* An archived debt, its repayments and their incomes never change again.  *)
THEOREM ArchivedDebtFrozen == Spec => ArchivedIsFrozen
<1>1. IInv /\ [Next]_vars =>
        [\A d \in DOMAIN debts : debts[d].archived =>
            /\ d \in DOMAIN debts' /\ debts'[d] = debts[d]
            /\ {r \in DOMAIN history' : history'[r].debt = d} = HistoryOf(d)
            /\ \A r \in HistoryOf(d) : history'[r] = history[r]
            /\ \A i \in DOMAIN incomes : incomes[i].origin = d =>
                   i \in DOMAIN incomes' /\ incomes'[i] = incomes[i]]_vars
  BY Freezes DEF Frozen
<1>2. QED
  BY <1>1, DebtsInvariant, PTL DEF Spec, ArchivedIsFrozen

-----------------------------------------------------------------------------
(* The refinement of DebtBook.  Under the invariant the amount the book    *)
(* computes from the repayments is the amount the document stores, so an   *)
(* entry of the book can be read off the document.                         *)

Entry(d) ==
    IF d \notin DOMAIN debts
    THEN Abstract!NotLent
    ELSE Abstract!Entry(debts[d].principal, debts[d].remaining, Life(d))

EntriesAgree == \A d \in Debt : Book[d] = Entry(d)

LEMMA BookEntries == IInv => EntriesAgree
<1> SUFFICES ASSUME IInv, NEW d \in Debt PROVE Book[d] = Entry(d)
  BY DEF EntriesAgree
<1>1. CASE d \notin DOMAIN debts
  BY <1>1 DEF Book, Entry, Abstract!NotLent
<1>2. CASE d \in DOMAIN debts
  <2>1. debts[d].principal - Paid(history, d) = debts[d].remaining
    BY <1>2 DEF IInv, BalancesAgree
  <2>2. QED
    BY <1>2, <2>1 DEF Book, Entry, Abstract!Entry
<1>3. QED
  BY <1>1, <1>2

LEMMA BookStep ==
    ASSUME EntriesAgree, EntriesAgree', NEW d \in Debt,
           \A e \in Debt : e # d => Entry(e)' = Entry(e)
    PROVE  Book' = [Book EXCEPT ![d] = Entry(d)']
<1>1. \A e \in Debt : Book[e] = Entry(e) /\ Book'[e] = Entry(e)'
  BY DEF EntriesAgree
<1>2. Book = [e \in Debt |-> Book[e]] /\ Book' = [e \in Debt |-> Book'[e]]
  BY DEF Book
<1> HIDE DEF Book
<1>3. QED
  BY <1>1, <1>2

LEMMA SameEntry ==
    ASSUME NEW e, e \in DOMAIN debts' <=> e \in DOMAIN debts,
           e \in DOMAIN debts => debts'[e] = debts[e],
           (HistoryOf(e)') = {} <=> HistoryOf(e) = {}
    PROVE  Entry(e)' = Entry(e)
BY DEF Entry, Life

(* The debts and their repayments move the book; incomes and accounts do   *)
(* not.                                                                    *)
LEMMA BookUntouched ==
    ASSUME UNCHANGED <<debts, history>>
    PROVE  UNCHANGED Book
BY DEF Book, Life, HistoryOf, Paid, PaidUnits

LEMMA CreateDebtLends ==
    ASSUME IInv, EntriesAgree, EntriesAgree', NEW d \in Debt, NEW actor \in Actor,
           NEW principal \in Amount, NEW currency \in Currency,
           CreateDebt(d, actor, principal, currency)
    PROVE  Abstract!Lend(d, principal)
<1>1. /\ d \notin DOMAIN debts
      /\ d \in DOMAIN debts'
      /\ debts'[d] = [createdBy |-> actor, currency |-> currency,
                      principal |-> principal, remaining |-> principal,
                      status |-> "active", archived |-> FALSE]
      /\ \A e \in Debt : e # d =>
            (e \in DOMAIN debts' <=> e \in DOMAIN debts)
                /\ (e \in DOMAIN debts => debts'[e] = debts[e])
      /\ UNCHANGED history
  BY DEF CreateDebt, Put
<1>2. HistoryOf(d) = {}
  BY <1>1 DEF IInv, DebtsFound, HistoryOf
<1>3. \A e \in Debt : HistoryOf(e)' = HistoryOf(e)
  BY <1>1 DEF HistoryOf
<1>4. Entry(d) = Abstract!NotLent
  BY <1>1 DEF Entry
<1>5. Entry(d)' = Abstract!Entry(principal, principal, "untouched")
  BY <1>1, <1>2, <1>3 DEF Entry, Life
<1>6. \A e \in Debt : e # d => Entry(e)' = Entry(e)
  BY <1>1, <1>3, SameEntry
<1>7. Book' = [Book EXCEPT ![d] = Abstract!Entry(principal, principal, "untouched")]
  BY <1>5, <1>6, BookStep
<1>8. Book[d].life = "none"
  BY <1>4 DEF EntriesAgree, Abstract!NotLent
<1> HIDE DEF Book
<1>9. QED
  BY <1>7, <1>8 DEF Abstract!Lend

LEMMA UpdateDebtRestates ==
    ASSUME IInv, EntriesAgree, EntriesAgree', NEW d \in Debt, NEW actor \in Actor,
           NEW principal \in Amount, UpdateDebt(d, actor, principal)
    PROVE  Abstract!Restate(d, principal)
<1>1. debts \in [DOMAIN debts -> DebtDocument]
  BY DEF IInv, TypeOK
<1>2. /\ d \in DOMAIN debts /\ ~debts[d].archived /\ HistoryOf(d) = {}
      /\ DOMAIN debts' = DOMAIN debts
      /\ debts'[d].principal = principal /\ debts'[d].remaining = principal
      /\ ~debts'[d].archived
      /\ \A e \in DOMAIN debts : e # d => debts'[e] = debts[e]
      /\ UNCHANGED history
  BY <1>1 DEF UpdateDebt, LiveDebt, Mutable
<1>3. \A e \in Debt : HistoryOf(e)' = HistoryOf(e)
  BY <1>2 DEF HistoryOf
<1>4. Entry(d).life = "untouched"
  BY <1>2 DEF Entry, Life, Abstract!Entry
<1>5. Entry(d)' = Abstract!Entry(principal, principal, "untouched")
  BY <1>2, <1>3 DEF Entry, Life
<1>6. \A e \in Debt : e # d => Entry(e)' = Entry(e)
  BY <1>2, <1>3, SameEntry
<1>7. Book' = [Book EXCEPT ![d] = Abstract!Entry(principal, principal, "untouched")]
  BY <1>5, <1>6, BookStep
<1>8. Book[d].life = "untouched"
  BY <1>4 DEF EntriesAgree
<1> HIDE DEF Book
<1>9. QED
  BY <1>7, <1>8 DEF Abstract!Restate

LEMMA RemoveDebtStrikesOut ==
    ASSUME IInv, EntriesAgree, EntriesAgree', NEW d \in Debt, NEW actor \in Actor,
           RemoveDebt(d, actor)
    PROVE  Abstract!StrikeOut(d)
<1>1. /\ d \in DOMAIN debts /\ ~debts[d].archived /\ HistoryOf(d) = {}
      /\ DOMAIN debts' = DOMAIN debts \ {d}
      /\ \A e \in DOMAIN debts : e # d => debts'[e] = debts[e]
      /\ UNCHANGED history
  BY DEF RemoveDebt, LiveDebt, Mutable
<1>2. \A e \in Debt : HistoryOf(e)' = HistoryOf(e)
  BY <1>1 DEF HistoryOf
<1>3. Entry(d).life = "untouched"
  BY <1>1 DEF Entry, Life, Abstract!Entry
<1>4. Entry(d)' = Abstract!NotLent
  BY <1>1 DEF Entry
<1>5. \A e \in Debt : e # d => Entry(e)' = Entry(e)
  BY <1>1, <1>2, SameEntry
<1>6. Book' = [Book EXCEPT ![d] = Abstract!NotLent]
  BY <1>4, <1>5, BookStep
<1>7. Book[d].life = "untouched"
  BY <1>3 DEF EntriesAgree
<1> HIDE DEF Book
<1>8. QED
  BY <1>6, <1>7 DEF Abstract!StrikeOut

LEMMA ArchiveDebtFinishes ==
    ASSUME IInv, EntriesAgree, EntriesAgree', NEW d \in Debt, NEW actor \in Actor,
           ArchiveDebt(d, actor)
    PROVE  Abstract!Finish(d)
<1>1. debts \in [DOMAIN debts -> DebtDocument]
  BY DEF IInv, TypeOK
<1>2. /\ d \in DOMAIN debts /\ ~debts[d].archived
      /\ DOMAIN debts' = DOMAIN debts
      /\ debts'[d].principal = debts[d].principal
      /\ debts'[d].remaining = debts[d].remaining
      /\ debts'[d].archived
      /\ \A e \in DOMAIN debts : e # d => debts'[e] = debts[e]
      /\ UNCHANGED history
  BY <1>1 DEF ArchiveDebt, LiveDebt, Mutable
<1>3. \A e \in Debt : HistoryOf(e)' = HistoryOf(e)
  BY <1>2 DEF HistoryOf
<1>4. Life(d) \in {"untouched", "touched"}
  BY <1>2 DEF Life
<1>5. Book[d] = Abstract!Entry(debts[d].principal, debts[d].remaining, Life(d))
  BY <1>2 DEF EntriesAgree, Entry
<1>6. Entry(d)' = Abstract!Entry(debts[d].principal, debts[d].remaining, "final")
  BY <1>2 DEF Entry, Life
<1>7. \A e \in Debt : e # d => Entry(e)' = Entry(e)
  BY <1>2, <1>3, SameEntry
<1>8. Book' = [Book EXCEPT ![d] =
                  Abstract!Entry(debts[d].principal, debts[d].remaining, "final")]
  BY <1>6, <1>7, BookStep
<1>9. DOMAIN Book = Debt
  BY DEF Book
<1> HIDE DEF Book
<1>10. [Book EXCEPT ![d].life = "final"] =
          [Book EXCEPT ![d] =
              Abstract!Entry(debts[d].principal, debts[d].remaining, "final")]
  <2>1. [Book[d] EXCEPT !.life = "final"] =
            Abstract!Entry(debts[d].principal, debts[d].remaining, "final")
    BY <1>5 DEF Abstract!Entry
  <2>2. QED
    BY <1>9, <2>1
<1>11. QED
  BY <1>4, <1>5, <1>8, <1>10 DEF Abstract!Finish, Abstract!Entry

LEMMA RecordPays ==
    ASSUME IInv, EntriesAgree, EntriesAgree', NEW d \in Debt, NEW r, NEW actor,
           NEW amount \in Amount, NEW date, NEW isIncome, NEW income,
           Repayable(d, actor, amount),
           RecordRepayment(d, r, actor, amount, date, isIncome, income)
    PROVE  Abstract!Pay(d, amount)
<1>1. debts \in [DOMAIN debts -> DebtDocument]
  BY DEF IInv, TypeOK
<1>2. /\ d \in DOMAIN debts /\ ~debts[d].archived
      /\ amount <= debts[d].remaining
      /\ DOMAIN debts' = DOMAIN debts
      /\ debts'[d].principal = debts[d].principal
      /\ debts'[d].remaining = debts[d].remaining - amount
      /\ ~debts'[d].archived
      /\ \A e \in DOMAIN debts : e # d => debts'[e] = debts[e]
  BY <1>1 DEF Repayable, LiveDebt, Mutable, RecordRepayment
<1>3. /\ r \notin DOMAIN history
      /\ DOMAIN history' = DOMAIN history \cup {r}
      /\ history'[r].debt = d
      /\ \A s \in DOMAIN history : history'[s] = history[s]
  BY DEF RecordRepayment, Put
<1>4. \A e \in Debt : e # d => HistoryOf(e)' = HistoryOf(e)
  BY <1>3 DEF HistoryOf
<1>5. r \in HistoryOf(d)'
  BY <1>3 DEF HistoryOf
<1>6. Life(d) \in {"untouched", "touched"} /\ Life(d)' = "touched"
  BY <1>2, <1>5 DEF Life
<1>7. Book[d] = Abstract!Entry(debts[d].principal, debts[d].remaining, Life(d))
  BY <1>2 DEF EntriesAgree, Entry
<1>8. Entry(d)' = Abstract!Entry(debts[d].principal, debts[d].remaining - amount, "touched")
  BY <1>2, <1>6 DEF Entry
<1>9. \A e \in Debt : e # d => Entry(e)' = Entry(e)
  BY <1>2, <1>4, SameEntry
<1>10. Book' = [Book EXCEPT ![d] =
          Abstract!Entry(debts[d].principal, debts[d].remaining - amount, "touched")]
  BY <1>8, <1>9, BookStep
<1>11. DOMAIN Book = Debt
  BY DEF Book
<1> HIDE DEF Book
<1>12. /\ Book[d].principal = debts[d].principal
       /\ Book[d].owed = debts[d].remaining
       /\ Book[d].life \in {"untouched", "touched"}
  BY <1>6, <1>7 DEF Abstract!Entry
<1>13. QED
  BY <1>2, <1>10, <1>12 DEF Abstract!Pay

LEMMA CancelTakesBack ==
    ASSUME IInv, EntriesAgree, EntriesAgree', NEW d \in Debt, NEW r \in Repayment,
           NEW actor \in Actor, CancelRepayment(d, r, actor)
    PROVE  Abstract!TakeBack(d, history[r].amount)
<1> DEFINE n == history[r].amount
<1>1. /\ debts \in [DOMAIN debts -> DebtDocument]
      /\ history \in [DOMAIN history -> RepaymentDocument]
  BY DEF IInv, TypeOK
<1>2. /\ d \in DOMAIN debts /\ ~debts[d].archived
      /\ debts[d].remaining + n <= debts[d].principal
      /\ DOMAIN debts' = DOMAIN debts
      /\ debts'[d].principal = debts[d].principal
      /\ debts'[d].remaining = debts[d].remaining + n
      /\ ~debts'[d].archived
      /\ \A e \in DOMAIN debts : e # d => debts'[e] = debts[e]
  BY <1>1 DEF CancelRepayment, Cancellable, LiveDebt, Mutable
<1>3. /\ r \in HistoryOf(d)
      /\ history' = [history EXCEPT ![r].cancelled = TRUE]
  BY DEF CancelRepayment, Cancellable
<1>4. /\ DOMAIN history' = DOMAIN history
      /\ \A s \in DOMAIN history : history'[s].debt = history[s].debt
  BY <1>1, <1>3
<1>5. \A e \in Debt : HistoryOf(e)' = HistoryOf(e)
  BY <1>4 DEF HistoryOf
<1> HIDE DEF n
<1>6. Life(d) = "touched" /\ Life(d)' = "touched"
  BY <1>2, <1>3, <1>5 DEF Life
<1>7. Book[d] = Abstract!Entry(debts[d].principal, debts[d].remaining, "touched")
  BY <1>2, <1>6 DEF EntriesAgree, Entry
<1>8. Entry(d)' = Abstract!Entry(debts[d].principal, debts[d].remaining + n, "touched")
  BY <1>2, <1>6 DEF Entry
<1>9. \A e \in Debt : e # d => Entry(e)' = Entry(e)
  BY <1>2, <1>5, SameEntry
<1>10. Book' = [Book EXCEPT ![d] =
          Abstract!Entry(debts[d].principal, debts[d].remaining + n, "touched")]
  BY <1>8, <1>9, BookStep
<1>11. DOMAIN Book = Debt
  BY DEF Book
<1> HIDE DEF Book
<1>12. [Book EXCEPT ![d].owed = @ + n] =
          [Book EXCEPT ![d] =
              Abstract!Entry(debts[d].principal, debts[d].remaining + n, "touched")]
  <2>1. [Book[d] EXCEPT !.owed = @ + n] =
            Abstract!Entry(debts[d].principal, debts[d].remaining + n, "touched")
    BY <1>7 DEF Abstract!Entry
  <2>2. QED
    BY <1>11, <2>1
<1>13. Abstract!TakeBack(d, n)
  BY <1>2, <1>7, <1>10, <1>12 DEF Abstract!TakeBack, Abstract!Entry
<1>14. QED
  BY <1>13 DEF n

LEMMA StepsImplement ==
    ASSUME IInv, EntriesAgree, EntriesAgree', [Next]_vars
    PROVE  [Abstract!Next]_Book
<1>1. ASSUME NEW d \in Debt, NEW amount \in Amount,
             \/ Abstract!Lend(d, amount) \/ Abstract!Restate(d, amount)
             \/ Abstract!Pay(d, amount) \/ Abstract!TakeBack(d, amount)
      PROVE  Abstract!Next
  BY <1>1 DEF Abstract!Next, Amount
<1>2. ASSUME NEW d \in Debt, Abstract!StrikeOut(d) \/ Abstract!Finish(d)
      PROVE  Abstract!Next
  BY <1>2 DEF Abstract!Next
<1>3. CASE IncomeStep \/ AccountStep \/ UNCHANGED vars
  <2>1. UNCHANGED <<debts, history>>
    BY <1>3 DEF IncomeStep, CreateIncome, UpdateIncome, DeleteIncome,
                AccountStep, ArchiveAccount, vars
  <2>2. QED
    BY <2>1, BookUntouched
<1>4. CASE DebtStep
  BY <1>1, <1>2, <1>4, CreateDebtLends, UpdateDebtRestates, RemoveDebtStrikesOut,
     ArchiveDebtFinishes DEF DebtStep
<1>5. CASE RepaymentStep
  <2>1. ASSUME NEW d \in Debt, NEW r \in Repayment, NEW actor \in Actor,
               CancelRepayment(d, r, actor)
        PROVE  Abstract!Next
    <3>1. r \in DOMAIN history
      BY <2>1 DEF CancelRepayment, Cancellable, HistoryOf
    <3>2. history[r].amount \in Amount
      BY <3>1, TypeFacts DEF IInv
    <3>3. QED
      BY <1>1, <2>1, <3>2, CancelTakesBack
  <2>2. ASSUME NEW d \in Debt, NEW r \in Repayment, NEW actor \in Actor,
               NEW amount \in Amount, NEW date \in Day, Repay(d, r, actor, amount, date)
        PROVE  Abstract!Next
    BY <1>1, <2>2, RecordPays DEF Repay
  <2>3. ASSUME NEW d \in Debt, NEW r \in Repayment, NEW actor \in Actor,
               NEW amount \in Amount, NEW date \in Day, NEW i \in Income,
               NEW a \in Account, RepayAsIncome(d, r, i, actor, a, amount, date)
        PROVE  Abstract!Next
    BY <1>1, <2>3, RecordPays DEF RepayAsIncome
  <2>4. QED
    BY <1>5, <2>1, <2>2, <2>3 DEF RepaymentStep
<1>6. QED
  BY <1>3, <1>4, <1>5 DEF Next

(* Every behaviour of the services is one of the debt book.                *)
THEOREM DebtsImplementBook == Spec => ImplementsDebtBook
<1>1. Init => Abstract!Init
  BY DEF Init, Book, Abstract!Init, Abstract!NotLent
<1>2. IInv /\ EntriesAgree /\ EntriesAgree' /\ [Next]_vars => [Abstract!Next]_Book
  BY StepsImplement
<1>3. QED
  BY <1>1, <1>2, BookEntries, DebtsInvariant, PTL
     DEF Spec, ImplementsDebtBook, Abstract!Spec

=============================================================================
