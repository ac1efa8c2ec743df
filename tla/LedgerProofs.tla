---------------------------- MODULE LedgerProofs ----------------------------
(***************************************************************************)
(* Theorems of Ledger, for every calendar, every set of accounts,          *)
(* currencies and amounts, and every finite set of rows: the types, the    *)
(* references of the stored rows and the exactness of the stored snapshots *)
(* (the inductive invariant IInv); an archived account stays frozen; a     *)
(* transfer takes only money that is there and makes none inside a         *)
(* currency; and the services implement the account book.  The last three  *)
(* rest on BalanceMoves: writing a row moves the balances recomputed from  *)
(* the rows by what the row now brings, less what it brought before.       *)
(***************************************************************************)
EXTENDS Ledger, FiniteSetTheorems, TLAPS

-----------------------------------------------------------------------------
(* Lemmas on balances.                                                     *)

(* The units a row collection counts for an account form a finite set, so  *)
(* a balance is an integer.                                                *)
LEMMA BalanceType ==
    ASSUME NEW acc, NEW rs, NEW a, NEW day,
           DOMAIN rs \subseteq Row,
           acc[a].initialAmount \in Int
    PROVE  Balance(acc, rs, a, day) \in Int
<1> DEFINE all == Row \X Amount
<1>1. IsFiniteSet(Amount)
  BY FS_Interval, LedgerAssumption DEF Amount
<1>2. IsFiniteSet(all)
  BY <1>1, FS_Product, LedgerAssumption
<1>3. CreditUnits(rs, a, day) \subseteq all /\ DebitUnits(rs, a, day) \subseteq all
  BY DEF CreditUnits, DebitUnits, Counted
<1>4. /\ Cardinality(CreditUnits(rs, a, day)) \in Nat
      /\ Cardinality(DebitUnits(rs, a, day)) \in Nat
  BY <1>2, <1>3, FS_Subset, FS_CardinalityType
<1>5. QED
  BY <1>4 DEF Balance

(* A write of row r changes no balance of an account it does not involve,  *)
(* nor any balance of a day before its date.                               *)
Writes(r, rs, rs2) ==
    /\ DOMAIN rs2 = DOMAIN rs \cup {r}
    /\ \A x \in DOMAIN rs \ {r} : rs2[x] = rs[x]

Spares(r, rs, a, day) ==
    r \in DOMAIN rs => rs[r].date > day \/ ~Involves(rs[r], a)

LEMMA BalanceUnaffected ==
    ASSUME NEW acc, NEW rs, NEW rs2, NEW r, NEW a, NEW day \in Int,
           Writes(r, rs, rs2),
           \A x \in DOMAIN rs : rs[x].date \in Int,
           \A x \in DOMAIN rs2 : rs2[x].date \in Int,
           Spares(r, rs, a, day), Spares(r, rs2, a, day)
    PROVE  Balance(acc, rs2, a, day) = Balance(acc, rs, a, day)
<1>1. Counted(rs, a, day) = Counted(rs2, a, day)
  <2>1. r \notin Counted(rs, a, day) /\ r \notin Counted(rs2, a, day)
    BY DEF Spares, Counted
  <2>2. \A x : x # r => (x \in Counted(rs, a, day) <=> x \in Counted(rs2, a, day))
    BY DEF Writes, Counted
  <2>3. QED
    BY <2>1, <2>2
<1>2. \A x \in Counted(rs, a, day) : rs2[x] = rs[x]
  BY DEF Writes, Spares, Counted
<1>3. /\ CreditUnits(rs2, a, day) = CreditUnits(rs, a, day)
      /\ DebitUnits(rs2, a, day) = DebitUnits(rs, a, day)
  BY <1>1, <1>2 DEF CreditUnits, DebitUnits
<1>4. QED
  BY <1>3 DEF Balance

(* A balance depends on the account's own document only.                   *)
LEMMA BalanceOfDocument ==
    ASSUME NEW acc, NEW acc2, NEW rs, NEW a, NEW day, acc2[a] = acc[a]
    PROVE  Balance(acc2, rs, a, day) = Balance(acc, rs, a, day)
BY DEF Balance

(* An account no row involves has its opening balance.                     *)
LEMMA BalanceWithoutRows ==
    ASSUME NEW acc, NEW rs, NEW a, NEW day,
           \A r \in DOMAIN rs : ~Involves(rs[r], a),
           acc[a].initialAmount \in Int, ~(day < acc[a].openedAt)
    PROVE  Balance(acc, rs, a, day) = acc[a].initialAmount
<1>1. Counted(rs, a, day) = {}
  BY DEF Counted
<1>2. CreditUnits(rs, a, day) = {} /\ DebitUnits(rs, a, day) = {}
  BY <1>1 DEF CreditUnits, DebitUnits
<1>3. Cardinality(CreditUnits(rs, a, day)) = 0 /\ Cardinality(DebitUnits(rs, a, day)) = 0
  BY <1>2, FS_EmptySet
<1>4. QED
  BY <1>3 DEF Balance

-----------------------------------------------------------------------------
(* Lemmas on rebuilding.                                                   *)

SnapshotsType(sn) ==
    /\ sn = [a \in Account |-> sn[a]]
    /\ \A a \in Account : IsCollection(sn[a], MonthEnds, Int)

(* sn2 differs from sn at most in the snapshots of the accounts in legs,   *)
(* from the month of date on, and has a snapshot of that month for each.   *)
Touches(sn2, sn, legs, date) ==
    /\ SnapshotsType(sn2)
    /\ \A b \in Account \ legs : sn2[b] = sn[b]
    /\ \A b \in legs :
        /\ DOMAIN sn2[b] = DOMAIN sn[b] \cup {MonthEnd[date]}
        /\ \A e \in DOMAIN sn2[b] : e < MonthEnd[date] => sn2[b][e] = sn[b][e]

(* From the month of date on the snapshots of b are the balances in rs.    *)
Fresh(sn, acc, rs, b, date) ==
    \A e \in DOMAIN sn[b] :
        e >= MonthEnd[date] => sn[b][e] = Balance(acc, rs, b, e)

(* A month end is an integer day and closes its own month.                 *)
LEMMA MonthEndFacts ==
    /\ MonthEnds \subseteq Day /\ MonthEnds \subseteq Int
    /\ \A e \in MonthEnds : MonthEnd[e] = e
    /\ \A d \in Day : MonthEnd[d] \in MonthEnds
    /\ \A d \in Day, e \in MonthEnds : d <= e => MonthEnd[d] <= e
<1>1. MonthEnds \subseteq Day /\ \A e \in MonthEnds : MonthEnd[e] = e
  BY LedgerAssumption DEF MonthEnds
<1>2. \A d \in Day, e \in MonthEnds : d <= e => MonthEnd[d] <= e
  BY <1>1, LedgerAssumption
<1>3. QED
  BY <1>1, <1>2, LedgerAssumption DEF MonthEnds

(* What rebuildForBudget does to the stored snapshots.                     *)
LEMMA RebuildFacts ==
    ASSUME NEW acc, NEW rs, NEW sn, NEW a \in Account, NEW from \in Day,
           DOMAIN rs \subseteq Row, acc[a].initialAmount \in Int,
           SnapshotsType(sn)
    PROVE  /\ Touches(Rebuild(acc, rs, sn, a, from), sn, {a}, from)
           /\ Fresh(Rebuild(acc, rs, sn, a, from), acc, rs, a, from)
<1> DEFINE sn2 == Rebuild(acc, rs, sn, a, from)
           dates == DOMAIN sn[a] \cup {MonthEnd[from]}
<1>1. sn2 = [sn EXCEPT ![a] = [e \in dates |->
                IF e >= MonthEnd[from] THEN Balance(acc, rs, a, e) ELSE sn[a][e]]]
  BY DEF Rebuild
<1>2. dates \subseteq MonthEnds /\ dates \subseteq Int /\ MonthEnd[from] \in Int
  BY MonthEndFacts, LedgerAssumption DEF SnapshotsType, IsCollection
<1>3. \A e \in dates : Balance(acc, rs, a, e) \in Int
  BY BalanceType
<1>4. sn2[a] = [e \in dates |->
                IF e >= MonthEnd[from] THEN Balance(acc, rs, a, e) ELSE sn[a][e]]
  BY <1>1 DEF SnapshotsType
<1>5. \A b \in Account \ {a} : sn2[b] = sn[b]
  BY <1>1 DEF SnapshotsType
<1> HIDE DEF sn2
<1>6. DOMAIN sn2[a] = dates
  BY <1>4
<1>7. \A e \in dates : sn2[a][e] =
            IF e >= MonthEnd[from] THEN Balance(acc, rs, a, e) ELSE sn[a][e]
  BY <1>4
<1>8. IsCollection(sn2[a], MonthEnds, Int)
  <2>1. \A e \in dates : sn2[a][e] \in Int
    <3>1. \A e \in DOMAIN sn[a] : sn[a][e] \in Int
      BY DEF SnapshotsType, IsCollection
    <3>2. \A e \in dates : ~(e >= MonthEnd[from]) => e \in DOMAIN sn[a]
      BY <1>2
    <3>3. QED
      BY <1>3, <1>7, <3>1, <3>2
  <2>2. sn2[a] \in [dates -> Int]
    BY <1>4, <1>7, <2>1
  <2>3. QED
    BY <1>2, <1>6, <2>2 DEF IsCollection
<1>9. SnapshotsType(sn2)
  <2>1. sn2 = [b \in Account |-> sn2[b]]
    BY <1>1 DEF sn2, SnapshotsType
  <2>2. QED
    BY <1>5, <1>8, <2>1 DEF SnapshotsType
<1>10. Touches(sn2, sn, {a}, from)
  BY <1>2, <1>5, <1>6, <1>7, <1>9 DEF Touches
<1>11. Fresh(sn2, acc, rs, a, from)
  BY <1>6, <1>7 DEF Fresh
<1>12. QED
  BY <1>10, <1>11 DEF sn2

(* Rebuilding one account after another touches both, and the second       *)
(* rebuild leaves the first account's fresh snapshots alone.               *)
LEMMA TouchesCompose ==
    ASSUME NEW sn, NEW sn2, NEW sn3, NEW S \in SUBSET Account,
           NEW T \in SUBSET Account, NEW date \in Day,
           SnapshotsType(sn), Touches(sn2, sn, S, date), Touches(sn3, sn2, T, date)
    PROVE  Touches(sn3, sn, S \cup T, date)
<1> DEFINE m == MonthEnd[date]
<1>1. m \in Int /\ \A b \in Account : DOMAIN sn[b] \subseteq Int
  BY MonthEndFacts, LedgerAssumption DEF SnapshotsType, IsCollection
<1>2. \A b \in Account \ (S \cup T) : sn3[b] = sn[b]
  BY DEF Touches
<1>3. ASSUME NEW b \in S \cup T
      PROVE  /\ DOMAIN sn3[b] = DOMAIN sn[b] \cup {m}
             /\ \A e \in DOMAIN sn3[b] : e < m => sn3[b][e] = sn[b][e]
  <2>1. CASE b \in S /\ b \in T
    BY <1>1, <2>1 DEF Touches
  <2>2. CASE b \in S /\ b \notin T
    BY <1>1, <2>2 DEF Touches
  <2>3. CASE b \notin S /\ b \in T
    BY <1>1, <2>3 DEF Touches
  <2>4. QED
    BY <1>3, <2>1, <2>2, <2>3
<1>4. QED
  BY <1>2, <1>3 DEF Touches

(* apply of a transfer: both accounts are touched, and both are fresh.     *)
LEMMA RebuildBothFacts ==
    ASSUME NEW rs, NEW sn, NEW s \in Account, NEW t \in Account,
           NEW date \in Day, DOMAIN rs \subseteq Row,
           accounts[s].initialAmount \in Int, accounts[t].initialAmount \in Int,
           SnapshotsType(sn)
    PROVE  /\ Touches(RebuildBoth(rs, sn, s, t, date), sn, {s, t}, date)
           /\ Fresh(RebuildBoth(rs, sn, s, t, date), accounts, rs, s, date)
           /\ Fresh(RebuildBoth(rs, sn, s, t, date), accounts, rs, t, date)
<1> DEFINE one == Rebuild(accounts, rs, sn, s, date)
           two == Rebuild(accounts, rs, one, t, date)
<1>1. Touches(one, sn, {s}, date) /\ Fresh(one, accounts, rs, s, date)
  BY RebuildFacts
<1>2. SnapshotsType(one)
  BY <1>1 DEF Touches
<1>3. Touches(two, one, {t}, date) /\ Fresh(two, accounts, rs, t, date)
  BY <1>2, RebuildFacts
<1> HIDE DEF one, two
<1>4. Touches(two, sn, {s, t}, date)
  <2>1. {s} \cup {t} = {s, t}
    OBVIOUS
  <2>2. {s} \in SUBSET Account /\ {t} \in SUBSET Account
    OBVIOUS
  <2>3. Touches(two, sn, {s} \cup {t}, date)
    BY <1>1, <1>3, <2>2, TouchesCompose
  <2>4. QED
    BY <2>1, <2>3
<1>5. Fresh(two, accounts, rs, s, date)
  <2>1. CASE s = t
    BY <1>3, <2>1
  <2>2. CASE s # t
    <3>1. two[s] = one[s]
      BY <1>3, <2>2 DEF Touches
    <3>2. QED
      BY <1>1, <3>1 DEF Fresh
  <2>3. QED
    BY <2>1, <2>2
<1>6. QED
  BY <1>3, <1>4, <1>5 DEF one, two, RebuildBoth

(* Preparing the snapshots before the write and applying it after.         *)
LEMMA RepriceFacts ==
    ASSUME NEW rs, NEW a \in Account, NEW date \in Day, SnapshotsType(snapshots),
           DOMAIN rows \subseteq Row, DOMAIN rs \subseteq Row,
           accounts[a].initialAmount \in Int
    PROVE  /\ Touches(Reprice(rs, a, date), snapshots, {a}, date)
           /\ Fresh(Reprice(rs, a, date), accounts, rs, a, date)
<1> DEFINE prepared == Rebuild(accounts, rows, snapshots, a, date)
           applied == Rebuild(accounts, rs, prepared, a, date)
<1>1. Touches(prepared, snapshots, {a}, date)
  BY RebuildFacts
<1>2. SnapshotsType(prepared)
  BY <1>1 DEF Touches
<1>3. Touches(applied, prepared, {a}, date) /\ Fresh(applied, accounts, rs, a, date)
  BY <1>2, RebuildFacts
<1> HIDE DEF prepared, applied
<1>4. Touches(applied, snapshots, {a} \cup {a}, date)
  <2>1. {a} \in SUBSET Account
    OBVIOUS
  <2>2. QED
    BY <1>1, <1>3, <2>1, TouchesCompose
<1>5. {a} \cup {a} = {a}
  OBVIOUS
<1>6. QED
  BY <1>3, <1>4, <1>5 DEF prepared, applied, Reprice

-----------------------------------------------------------------------------
(* The inductive invariant: exact snapshots need the references, which     *)
(* say that no row reaches an account that is not stored or a day before   *)
(* the account's opening.                                                  *)

IInv == TypeOK /\ ReferencesHold /\ SnapshotsMatchLedger

LEMMA TypeFacts ==
    ASSUME TypeOK
    PROVE  /\ SnapshotsType(snapshots)
           /\ DOMAIN accounts \subseteq Account /\ DOMAIN rows \subseteq Row
           /\ \A a \in DOMAIN accounts :
                /\ accounts[a] \in AccountDocument
                /\ accounts[a].initialAmount \in 0 .. MaxAmount
                /\ accounts[a].initialAmount \in Int
                /\ accounts[a].openedAt \in Day
           /\ \A r \in DOMAIN rows :
                /\ rows[r] \in RowDocument
                /\ rows[r].account \in Account /\ rows[r].destination \in Account
                /\ rows[r].date \in Day
<1>1. \A a \in DOMAIN accounts : accounts[a] \in AccountDocument
  BY DEF TypeOK, IsCollection
<1>2. \A r \in DOMAIN rows : rows[r] \in RowDocument
  BY DEF TypeOK, IsCollection
<1>3. QED
  BY <1>1, <1>2, LedgerAssumption
     DEF TypeOK, IsCollection, SnapshotsType, AccountDocument, RowDocument

(* Storing a row, new or in place of the stored one.                       *)
LEMMA RowStored ==
    ASSUME TypeOK, NEW r \in Row, NEW row \in RowDocument,
           \/ rows' = Put(rows, r, row)
           \/ r \in DOMAIN rows /\ rows' = [rows EXCEPT ![r] = row]
    PROVE  /\ IsCollection(rows', Row, RowDocument)
           /\ Writes(r, rows, rows') /\ rows'[r] = row
<1>1. IsCollection(rows, Row, RowDocument)
  BY DEF TypeOK
<1>2. CASE rows' = Put(rows, r, row)
  BY <1>1, <1>2 DEF Put, IsCollection, Writes
<1>3. CASE r \in DOMAIN rows /\ rows' = [rows EXCEPT ![r] = row]
  <2>1. rows \in [DOMAIN rows -> RowDocument]
    BY <1>1 DEF IsCollection
  <2>2. /\ DOMAIN rows' = DOMAIN rows /\ rows'[r] = row
        /\ \A x \in DOMAIN rows \ {r} : rows'[x] = rows[x]
        /\ rows' \in [DOMAIN rows -> RowDocument]
    BY <1>3, <2>1
  <2>3. QED
    BY <1>1, <1>3, <2>2 DEF IsCollection, Writes
<1>4. QED
  BY <1>2, <1>3

(* What the row operations have in common: one row is written, moving      *)
(* money on the accounts in legs, all open, and their snapshots are        *)
(* repriced from the row's date on.                                        *)
RowStep(r, legs) ==
    /\ legs \subseteq DOMAIN accounts
    /\ \A a \in legs : accounts[a].state = "open"
    /\ IsCollection(rows', Row, RowDocument)
    /\ Writes(r, rows, rows')
    /\ \A a \in Account : Involves(rows'[r], a) <=> a \in legs
    /\ \A a \in legs : accounts[a].openedAt <= rows'[r].date
    /\ r \in DOMAIN rows =>
            /\ rows[r].date = rows'[r].date
            /\ \A a \in Account : Involves(rows[r], a) <=> a \in legs
    /\ Touches(snapshots', snapshots, legs, rows'[r].date)
    /\ \A a \in legs : Fresh(snapshots', accounts, rows', a, rows'[r].date)
    /\ UNCHANGED accounts

LEMMA RowStepKeeps ==
    ASSUME IInv, NEW r \in Row, NEW legs \in SUBSET Account, RowStep(r, legs)
    PROVE  IInv'
<1> USE DEF RowStep
<1> DEFINE date == rows'[r].date
           m == MonthEnd[date]
<1>1. \A x \in DOMAIN rows' : rows'[x] \in RowDocument
  BY DEF IsCollection
<1>2. r \in DOMAIN rows' /\ date \in Day /\ date \in Int /\ m \in MonthEnds /\ m \in Int
  BY <1>1, MonthEndFacts, LedgerAssumption DEF Writes, RowDocument
<1>3. TypeOK'
  BY DEF IInv, TypeOK, Touches, SnapshotsType
<1>4. \A a \in Account : DOMAIN snapshots[a] \subseteq DOMAIN snapshots'[a]
  BY DEF Touches
<1>5. ReferencesHold'
  <2> SUFFICES ASSUME NEW x \in DOMAIN rows', NEW a \in Account, Involves(rows'[x], a)
               PROVE  /\ a \in DOMAIN accounts
                      /\ accounts[a].openedAt <= rows'[x].date
                      /\ MonthEnd[rows'[x].date] \in DOMAIN snapshots'[a]
    BY DEF ReferencesHold
  <2>1. CASE x = r
    BY <2>1 DEF Touches
  <2>2. CASE x # r
    BY <1>4, <2>2 DEF IInv, ReferencesHold, Writes
  <2>3. QED
    BY <2>1, <2>2
<1>6. SnapshotsMatchLedger'
  <2> SUFFICES ASSUME NEW a \in DOMAIN accounts, NEW e \in DOMAIN snapshots'[a]
               PROVE  snapshots'[a][e] = Balance(accounts, rows', a, e)
    BY DEF SnapshotsMatchLedger
  <2>1. a \in Account /\ e \in MonthEnds /\ e \in Int
    BY TypeFacts, MonthEndFacts DEF IInv, Touches, SnapshotsType, IsCollection
  <2>2. \A x \in DOMAIN rows : rows[x].date \in Int
    BY TypeFacts, LedgerAssumption DEF IInv
  <2>3. \A x \in DOMAIN rows' : rows'[x].date \in Int
    BY <1>1, LedgerAssumption DEF RowDocument
  <2>4. ASSUME date > e \/ a \notin legs
        PROVE  Balance(accounts, rows', a, e) = Balance(accounts, rows, a, e)
    <3>1. Spares(r, rows, a, e) /\ Spares(r, rows', a, e)
      BY <2>1, <2>4 DEF Spares
    <3>2. QED
      BY <2>1, <2>2, <2>3, <3>1, BalanceUnaffected
  <2>5. CASE a \notin legs
    BY <2>1, <2>4, <2>5 DEF IInv, SnapshotsMatchLedger, Touches
  <2>6. CASE a \in legs /\ e >= m
    BY <2>6 DEF Fresh
  <2>7. CASE a \in legs /\ e < m
    <3>1. date > e
      BY <1>2, <2>1, <2>7, MonthEndFacts, LedgerAssumption
    <3>2. e \in DOMAIN snapshots[a] /\ snapshots'[a][e] = snapshots[a][e]
      BY <1>2, <2>1, <2>7 DEF Touches
    <3>3. QED
      BY <2>4, <3>1, <3>2 DEF IInv, SnapshotsMatchLedger
  <2>8. QED
    BY <1>2, <2>1, <2>5, <2>6, <2>7
<1>7. QED
  BY <1>3, <1>5, <1>6 DEF IInv

-----------------------------------------------------------------------------
(* Every operation on accounts keeps the invariant.                        *)

LEMMA CreateAccountKeeps ==
    ASSUME IInv, NEW a \in Account, NEW c \in Currency,
           NEW amount \in 0 .. MaxAmount, NEW d \in Day,
           CreateAccount(a, c, amount, d)
    PROVE  IInv'
<1> DEFINE document == [state |-> "open", currency |-> c,
                        initialAmount |-> amount, openedAt |-> d]
           first == [e \in {MonthEnd[d]} |-> amount]
<1>1. /\ a \notin DOMAIN accounts /\ accounts' = Put(accounts, a, document)
      /\ snapshots' = [snapshots EXCEPT ![a] = first] /\ rows' = rows
  BY DEF CreateAccount
<1>2. document \in AccountDocument /\ amount \in Int
  BY LedgerAssumption DEF AccountDocument
<1>3. /\ IsCollection(accounts', Account, AccountDocument)
      /\ DOMAIN accounts' = DOMAIN accounts \cup {a}
      /\ accounts'[a] = document
      /\ \A b \in DOMAIN accounts : accounts'[b] = accounts[b]
  <2> HIDE DEF document
  <2>1. IsCollection(accounts, Account, AccountDocument)
    BY DEF IInv, TypeOK
  <2>2. /\ IsCollection(Put(accounts, a, document), Account, AccountDocument)
        /\ DOMAIN Put(accounts, a, document) = DOMAIN accounts \cup {a}
        /\ Put(accounts, a, document)[a] = document
        /\ \A b \in DOMAIN accounts \ {a} : Put(accounts, a, document)[b] = accounts[b]
    <3>1. document \in AccountDocument
      BY <1>2
    <3>2. QED
      BY <2>1, <3>1 DEF Put, IsCollection
  <2>3. QED
    BY <1>1, <2>2
<1>4. /\ snapshots'[a] = first
      /\ \A b \in Account \ {a} : snapshots'[b] = snapshots[b]
      /\ snapshots' = [b \in Account |-> snapshots'[b]]
  BY <1>1 DEF IInv, TypeOK
<1>5. DOMAIN first = {MonthEnd[d]} /\ first[MonthEnd[d]] = amount
  OBVIOUS
<1>6. IsCollection(snapshots'[a], MonthEnds, Int)
  <2>1. MonthEnd[d] \in MonthEnds
    BY MonthEndFacts
  <2>2. QED
    BY <1>2, <1>4, <2>1 DEF IsCollection
<1> HIDE DEF first
<1>7. TypeOK'
  BY <1>1, <1>3, <1>4, <1>6 DEF IInv, TypeOK
<1>8. \A r \in DOMAIN rows : ~Involves(rows[r], a)
  BY <1>1 DEF IInv, ReferencesHold
<1>9. ReferencesHold'
  BY <1>1, <1>3, <1>4, <1>8 DEF IInv, ReferencesHold
<1>10. SnapshotsMatchLedger'
  <2> SUFFICES ASSUME NEW b \in DOMAIN accounts', NEW e \in DOMAIN snapshots'[b]
               PROVE  snapshots'[b][e] = Balance(accounts', rows', b, e)
    BY DEF SnapshotsMatchLedger
  <2>1. CASE b = a
    <3>1. e = MonthEnd[d]
      BY <1>4, <1>5, <2>1
    <3>2. accounts'[a].initialAmount = amount /\ accounts'[a].openedAt = d
      BY <1>3
    <3>3. ~(e < accounts'[a].openedAt)
      <4>1. d <= MonthEnd[d] /\ d \in Int /\ MonthEnd[d] \in Int
        BY LedgerAssumption
      <4>2. QED
        BY <3>1, <3>2, <4>1
    <3>4. Balance(accounts', rows', a, e) = amount
      BY <1>1, <1>2, <1>8, <3>2, <3>3, BalanceWithoutRows
    <3>5. QED
      BY <1>4, <1>5, <2>1, <3>1, <3>4
  <2>2. CASE b # a
    <3>1. b \in DOMAIN accounts /\ b \in Account /\ accounts'[b] = accounts[b]
      BY <1>3, <2>2, TypeFacts DEF IInv
    <3>2. QED
      BY <1>1, <1>4, <2>2, <3>1, BalanceOfDocument DEF IInv, SnapshotsMatchLedger
  <2>3. QED
    BY <2>1, <2>2
<1>11. QED
  BY <1>7, <1>9, <1>10 DEF IInv

LEMMA ArchiveAccountKeeps ==
    ASSUME IInv, NEW a \in Account, ArchiveAccount(a)
    PROVE  IInv'
<1>1. /\ a \in DOMAIN accounts /\ UNCHANGED <<rows, snapshots>>
      /\ accounts' = [accounts EXCEPT ![a].state = "archived"]
  BY DEF ArchiveAccount, Unlocked
<1>2. /\ accounts \in [DOMAIN accounts -> AccountDocument]
      /\ \A b \in DOMAIN accounts : accounts[b] \in AccountDocument
  BY DEF IInv, TypeOK, IsCollection
<1>3. /\ DOMAIN accounts' = DOMAIN accounts
      /\ accounts'[a] = [accounts[a] EXCEPT !.state = "archived"]
      /\ \A b \in DOMAIN accounts \ {a} : accounts'[b] = accounts[b]
  BY <1>1, <1>2
<1>4. accounts'[a] \in AccountDocument
  BY <1>1, <1>2, <1>3 DEF AccountDocument
<1>5. \A b \in DOMAIN accounts :
            /\ accounts'[b].initialAmount = accounts[b].initialAmount
            /\ accounts'[b].openedAt = accounts[b].openedAt
  BY <1>1, <1>2, <1>3 DEF AccountDocument
<1>6. accounts' \in [DOMAIN accounts' -> AccountDocument]
  BY <1>1, <1>2, <1>3, <1>4
<1>7. TypeOK'
  BY <1>1, <1>3, <1>6 DEF IInv, TypeOK, IsCollection
<1>8. ReferencesHold'
  BY <1>1, <1>3, <1>5 DEF IInv, ReferencesHold
<1>9. SnapshotsMatchLedger'
  BY <1>1, <1>3, <1>5 DEF IInv, SnapshotsMatchLedger, Balance
<1>10. QED
  BY <1>7, <1>8, <1>9 DEF IInv

LEMMA RemoveAccountKeeps ==
    ASSUME IInv, NEW a \in Account, RemoveAccount(a)
    PROVE  IInv'
<1> DEFINE none == [e \in {} |-> 0]
<1>1. /\ accounts' = [x \in DOMAIN accounts \ {a} |-> accounts[x]]
      /\ snapshots' = [snapshots EXCEPT ![a] = none] /\ rows' = rows
      /\ \A r \in DOMAIN rows : ~Involves(rows[r], a)
  BY DEF RemoveAccount, HasHistory
<1>2. /\ DOMAIN accounts' = DOMAIN accounts \ {a}
      /\ \A b \in DOMAIN accounts' : accounts'[b] = accounts[b]
  BY <1>1
<1>3. IsCollection(accounts', Account, AccountDocument)
  BY <1>1 DEF IInv, TypeOK, IsCollection
<1>4. /\ snapshots'[a] = none
      /\ \A b \in Account \ {a} : snapshots'[b] = snapshots[b]
      /\ snapshots' = [b \in Account |-> snapshots'[b]]
  BY <1>1 DEF IInv, TypeOK
<1>5. IsCollection(none, MonthEnds, Int)
  BY DEF IsCollection
<1> HIDE DEF none
<1>6. TypeOK'
  BY <1>1, <1>3, <1>4, <1>5 DEF IInv, TypeOK
<1>7. ReferencesHold'
  BY <1>1, <1>2, <1>4 DEF IInv, ReferencesHold
<1>8. SnapshotsMatchLedger'
  <2> SUFFICES ASSUME NEW b \in DOMAIN accounts', NEW e \in DOMAIN snapshots'[b]
               PROVE  snapshots'[b][e] = Balance(accounts', rows', b, e)
    BY DEF SnapshotsMatchLedger
  <2>1. b \in DOMAIN accounts /\ b \in Account \ {a} /\ accounts'[b] = accounts[b]
    BY <1>2, TypeFacts DEF IInv
  <2>2. QED
    BY <1>1, <1>4, <2>1, BalanceOfDocument DEF IInv, SnapshotsMatchLedger
<1>9. QED
  BY <1>6, <1>7, <1>8 DEF IInv

-----------------------------------------------------------------------------
(* Every operation on rows is a row step.                                  *)

LEMMA CreateMovementIsRowStep ==
    ASSUME IInv, NEW r \in Row, NEW type \in {"income", "expense"},
           NEW a \in Account, NEW amount \in Amount, NEW date \in Day,
           CreateMovement(r, type, a, amount, date)
    PROVE  \E legs \in SUBSET Account : RowStep(r, legs)
<1> DEFINE row == [state |-> "active", type |-> type, account |-> a,
                   amount |-> amount, destination |-> a, received |-> amount,
                   date |-> date]
<1>1. /\ r \notin DOMAIN rows /\ a \in DOMAIN accounts
      /\ accounts[a].state = "open" /\ accounts[a].openedAt <= date
      /\ rows' = Put(rows, r, row) /\ snapshots' = Reprice(rows', a, date)
      /\ UNCHANGED accounts
  BY TypeFacts, LedgerAssumption DEF CreateMovement, AccountForCreate, Unlocked, IInv
<1>2. row \in RowDocument
  BY DEF RowDocument
<1>3. /\ row.account = a /\ row.date = date
      /\ \A b \in Account : Involves(row, b) <=> b \in {a}
  BY DEF Involves
<1> HIDE DEF row
<1>4. IsCollection(rows', Row, RowDocument) /\ Writes(r, rows, rows') /\ rows'[r] = row
  BY <1>1, <1>2, RowStored DEF IInv
<1>5. /\ Touches(snapshots', snapshots, {a}, date)
      /\ Fresh(snapshots', accounts, rows', a, date)
  <2>1. DOMAIN rows' \subseteq Row
    BY <1>4 DEF IsCollection
  <2>2. QED
    BY <1>1, <2>1, TypeFacts, RepriceFacts DEF IInv
<1>6. {a} \in SUBSET Account /\ {a} \subseteq DOMAIN accounts
  BY <1>1
<1>7. RowStep(r, {a})
  BY <1>1, <1>3, <1>4, <1>5, <1>6 DEF RowStep
<1>8. QED
  BY <1>6, <1>7

(* What UpdateTransaction and DeleteTransaction share: a movement is       *)
(* replaced by one of the same account and date.                           *)
LEMMA MovementRewriteIsRowStep ==
    ASSUME IInv, NEW r \in Row, NEW row \in RowDocument,
           IsMovement(r), Unlocked(rows[r].account),
           row.type = rows[r].type, row.account = rows[r].account,
           row.date = rows[r].date,
           rows' = [rows EXCEPT ![r] = row],
           snapshots' = Rebuild(accounts, rows', snapshots, rows[r].account, rows[r].date),
           UNCHANGED accounts
    PROVE  \E legs \in SUBSET Account : RowStep(r, legs)
<1> DEFINE a == rows[r].account
           date == rows[r].date
<1>1. /\ r \in DOMAIN rows /\ a \in DOMAIN accounts /\ a \in Account /\ date \in Day
      /\ accounts[a].state = "open"
  BY TypeFacts DEF IsMovement, IsActive, Unlocked, IInv
<1>2. IsCollection(rows', Row, RowDocument) /\ Writes(r, rows, rows') /\ rows'[r] = row
  BY <1>1, RowStored DEF IInv
<1>3. /\ \A b \in Account : Involves(rows[r], b) <=> b \in {a}
      /\ \A b \in Account : Involves(row, b) <=> b \in {a}
  BY DEF Involves, IsMovement
<1>4. accounts[a].openedAt <= date
  BY <1>1, <1>3 DEF IInv, ReferencesHold
<1>5. /\ Touches(snapshots', snapshots, {a}, date)
      /\ Fresh(snapshots', accounts, rows', a, date)
  <2>1. DOMAIN rows' \subseteq Row
    BY <1>2 DEF IsCollection
  <2>2. QED
    BY <1>1, <2>1, TypeFacts, RebuildFacts DEF IInv
<1>6. {a} \in SUBSET Account /\ {a} \subseteq DOMAIN accounts
  BY <1>1
<1>7. RowStep(r, {a})
  BY <1>1, <1>2, <1>3, <1>4, <1>5, <1>6 DEF RowStep
<1>8. QED
  BY <1>6, <1>7

LEMMA UpdateTransactionIsRowStep ==
    ASSUME IInv, NEW r \in Row, NEW amount \in Amount, UpdateTransaction(r, amount)
    PROVE  \E legs \in SUBSET Account : RowStep(r, legs)
<1> DEFINE row == [rows[r] EXCEPT !.amount = amount, !.received = amount]
<1>1. r \in DOMAIN rows /\ rows[r] \in RowDocument /\ IsMovement(r) /\ Unlocked(rows[r].account)
  BY TypeFacts DEF UpdateTransaction, IsMovement, IsActive, IInv
<1>2. rows' = [rows EXCEPT ![r] = row]
  BY DEF UpdateTransaction
<1>3. /\ row \in RowDocument /\ row.type = rows[r].type
      /\ row.account = rows[r].account /\ row.date = rows[r].date
  BY <1>1 DEF RowDocument
<1> HIDE DEF row
<1>4. QED
  BY <1>1, <1>2, <1>3, MovementRewriteIsRowStep DEF UpdateTransaction

LEMMA DeleteTransactionIsRowStep ==
    ASSUME IInv, NEW r \in Row, DeleteTransaction(r)
    PROVE  \E legs \in SUBSET Account : RowStep(r, legs)
<1> DEFINE row == [rows[r] EXCEPT !.state = "deleted"]
<1>1. r \in DOMAIN rows /\ rows[r] \in RowDocument /\ IsMovement(r) /\ Unlocked(rows[r].account)
  BY TypeFacts DEF DeleteTransaction, IsMovement, IsActive, IInv
<1>2. rows' = [rows EXCEPT ![r] = row]
  BY DEF DeleteTransaction
<1>3. /\ row \in RowDocument /\ row.type = rows[r].type
      /\ row.account = rows[r].account /\ row.date = rows[r].date
  BY <1>1 DEF RowDocument
<1> HIDE DEF row
<1>4. QED
  BY <1>1, <1>2, <1>3, MovementRewriteIsRowStep DEF DeleteTransaction

LEMMA CreateTransferIsRowStep ==
    ASSUME IInv, NEW r \in Row, NEW s \in Account, NEW t \in Account,
           NEW amount \in Amount, NEW received \in Amount, NEW date \in Day,
           CreateTransfer(r, s, t, amount, received, date)
    PROVE  \E legs \in SUBSET Account : RowStep(r, legs)
<1> DEFINE row == [state |-> "active", type |-> "transfer", account |-> s,
                   amount |-> amount, destination |-> t,
                   received |-> received, date |-> date]
           prepared == RebuildBoth(rows, snapshots, s, t, date)
<1>1. /\ r \notin DOMAIN rows /\ s \in DOMAIN accounts /\ t \in DOMAIN accounts
      /\ accounts[s].state = "open" /\ accounts[t].state = "open"
      /\ accounts[s].openedAt <= date /\ accounts[t].openedAt <= date
      /\ rows' = Put(rows, r, row) /\ UNCHANGED accounts
      /\ snapshots' = RebuildBoth(rows', prepared, s, t, date)
  BY TypeFacts, LedgerAssumption DEF CreateTransfer, AccountForCreate, Unlocked, IInv
<1>2. row \in RowDocument
  BY DEF RowDocument
<1>3. /\ row.date = date
      /\ \A b \in Account : Involves(row, b) <=> b \in {s, t}
  BY DEF Involves
<1> HIDE DEF row
<1>4. IsCollection(rows', Row, RowDocument) /\ Writes(r, rows, rows') /\ rows'[r] = row
  BY <1>1, <1>2, RowStored DEF IInv
<1>5. /\ Touches(snapshots', snapshots, {s, t}, date)
      /\ Fresh(snapshots', accounts, rows', s, date)
      /\ Fresh(snapshots', accounts, rows', t, date)
  <2>1. /\ DOMAIN rows' \subseteq Row /\ DOMAIN rows \subseteq Row
        /\ SnapshotsType(snapshots)
        /\ accounts[s].initialAmount \in Int /\ accounts[t].initialAmount \in Int
    BY <1>1, <1>4, TypeFacts DEF IsCollection, IInv
  <2>2. Touches(prepared, snapshots, {s, t}, date)
    BY <2>1, RebuildBothFacts
  <2>3. SnapshotsType(prepared)
    BY <2>2 DEF Touches
  <2> HIDE DEF prepared
  <2>4. /\ Touches(snapshots', prepared, {s, t}, date)
        /\ Fresh(snapshots', accounts, rows', s, date)
        /\ Fresh(snapshots', accounts, rows', t, date)
    BY <1>1, <2>1, <2>3, RebuildBothFacts
  <2>5. {s, t} \in SUBSET Account /\ {s, t} \cup {s, t} = {s, t}
    OBVIOUS
  <2>6. Touches(snapshots', snapshots, {s, t} \cup {s, t}, date)
    BY <2>1, <2>2, <2>4, <2>5, TouchesCompose
  <2>7. QED
    BY <2>4, <2>5, <2>6
<1>6. {s, t} \in SUBSET Account /\ {s, t} \subseteq DOMAIN accounts
  BY <1>1
<1>7. RowStep(r, {s, t})
  BY <1>1, <1>3, <1>4, <1>5, <1>6 DEF RowStep
<1>8. QED
  BY <1>6, <1>7

(* What UpdateTransfer and DeleteTransfer share.                           *)
LEMMA TransferRewriteIsRowStep ==
    ASSUME IInv, NEW r \in Row, NEW row \in RowDocument, IsTransfer(r),
           row.type = rows[r].type, row.account = rows[r].account,
           row.destination = rows[r].destination, row.date = rows[r].date,
           rows' = [rows EXCEPT ![r] = row],
           snapshots' = RebuildBoth(rows', snapshots, rows[r].account,
                                    rows[r].destination, rows[r].date),
           UNCHANGED accounts
    PROVE  \E legs \in SUBSET Account : RowStep(r, legs)
<1> DEFINE s == rows[r].account
           t == rows[r].destination
           date == rows[r].date
<1>1. /\ r \in DOMAIN rows /\ s \in DOMAIN accounts /\ t \in DOMAIN accounts
      /\ s \in Account /\ t \in Account /\ date \in Day
      /\ accounts[s].state = "open" /\ accounts[t].state = "open"
  BY TypeFacts DEF IsTransfer, IsActive, Unlocked, IInv
<1>2. IsCollection(rows', Row, RowDocument) /\ Writes(r, rows, rows') /\ rows'[r] = row
  BY <1>1, RowStored DEF IInv
<1>3. /\ \A b \in Account : Involves(rows[r], b) <=> b \in {s, t}
      /\ \A b \in Account : Involves(row, b) <=> b \in {s, t}
  BY DEF Involves, IsTransfer
<1>4. accounts[s].openedAt <= date /\ accounts[t].openedAt <= date
  BY <1>1, <1>3 DEF IInv, ReferencesHold
<1>5. /\ Touches(snapshots', snapshots, {s, t}, date)
      /\ Fresh(snapshots', accounts, rows', s, date)
      /\ Fresh(snapshots', accounts, rows', t, date)
  <2>1. DOMAIN rows' \subseteq Row
    BY <1>2 DEF IsCollection
  <2>2. QED
    BY <1>1, <2>1, TypeFacts, RebuildBothFacts DEF IInv
<1>6. {s, t} \in SUBSET Account /\ {s, t} \subseteq DOMAIN accounts
  BY <1>1
<1>7. RowStep(r, {s, t})
  BY <1>1, <1>2, <1>3, <1>4, <1>5, <1>6 DEF RowStep
<1>8. QED
  BY <1>6, <1>7

LEMMA UpdateTransferIsRowStep ==
    ASSUME IInv, NEW r \in Row, NEW amount \in Amount, NEW received \in Amount,
           UpdateTransfer(r, amount, received)
    PROVE  \E legs \in SUBSET Account : RowStep(r, legs)
<1> DEFINE row == [rows[r] EXCEPT !.amount = amount, !.received = received]
<1>1. r \in DOMAIN rows /\ rows[r] \in RowDocument /\ IsTransfer(r)
  BY TypeFacts DEF UpdateTransfer, IsTransfer, IsActive, IInv
<1>2. rows' = [rows EXCEPT ![r] = row]
  BY DEF UpdateTransfer
<1>3. /\ row \in RowDocument /\ row.type = rows[r].type
      /\ row.account = rows[r].account /\ row.date = rows[r].date
      /\ row.destination = rows[r].destination
  BY <1>1 DEF RowDocument
<1> HIDE DEF row
<1>4. QED
  BY <1>1, <1>2, <1>3, TransferRewriteIsRowStep DEF UpdateTransfer

LEMMA DeleteTransferIsRowStep ==
    ASSUME IInv, NEW r \in Row, DeleteTransfer(r)
    PROVE  \E legs \in SUBSET Account : RowStep(r, legs)
<1> DEFINE row == [rows[r] EXCEPT !.state = "deleted"]
<1>1. r \in DOMAIN rows /\ rows[r] \in RowDocument /\ IsTransfer(r)
  BY TypeFacts DEF DeleteTransfer, IsTransfer, IsActive, IInv
<1>2. rows' = [rows EXCEPT ![r] = row]
  BY DEF DeleteTransfer
<1>3. /\ row \in RowDocument /\ row.type = rows[r].type
      /\ row.account = rows[r].account /\ row.date = rows[r].date
      /\ row.destination = rows[r].destination
  BY <1>1 DEF RowDocument
<1> HIDE DEF row
<1>4. QED
  BY <1>1, <1>2, <1>3, TransferRewriteIsRowStep DEF DeleteTransfer

LEMMA MovementIsRowStep ==
    ASSUME IInv, MovementStep
    PROVE  \E r \in Row, legs \in SUBSET Account : RowStep(r, legs)
<1>1. PICK r \in Row :
        \/ \E a \in Account, amount \in Amount, d \in Day :
                \/ CreateIncome(r, a, amount, d)
                \/ CreateExpense(r, a, amount, d)
        \/ \E amount \in Amount : UpdateTransaction(r, amount)
        \/ DeleteTransaction(r)
  BY DEF MovementStep
<1>2. ASSUME NEW a \in Account, NEW amount \in Amount, NEW d \in Day,
             CreateIncome(r, a, amount, d) \/ CreateExpense(r, a, amount, d)
      PROVE  \E legs \in SUBSET Account : RowStep(r, legs)
  BY <1>2, CreateMovementIsRowStep DEF CreateIncome, CreateExpense
<1>3. QED
  BY <1>1, <1>2, UpdateTransactionIsRowStep, DeleteTransactionIsRowStep

LEMMA TransferIsRowStep ==
    ASSUME IInv, TransferStep
    PROVE  \E r \in Row, legs \in SUBSET Account : RowStep(r, legs)
BY CreateTransferIsRowStep, UpdateTransferIsRowStep, DeleteTransferIsRowStep
   DEF TransferStep

-----------------------------------------------------------------------------
(* The theorems.                                                           *)

LEMMA InitKeeps == Init => IInv
BY DEF Init, IInv, TypeOK, ReferencesHold, SnapshotsMatchLedger, IsCollection

LEMMA StutterKeeps ==
    ASSUME IInv, UNCHANGED vars
    PROVE  IInv'
BY DEF IInv, vars, TypeOK, ReferencesHold, SnapshotsMatchLedger, Balance

LEMMA NextKeeps ==
    ASSUME IInv, [Next]_vars
    PROVE  IInv'
<1>1. CASE AccountStep
  BY <1>1, CreateAccountKeeps, ArchiveAccountKeeps, RemoveAccountKeeps DEF AccountStep
<1>2. CASE MovementStep
  BY <1>2, MovementIsRowStep, RowStepKeeps
<1>3. CASE TransferStep
  BY <1>3, TransferIsRowStep, RowStepKeeps
<1>4. CASE UNCHANGED vars
  BY <1>4, StutterKeeps
<1>5. QED
  BY <1>1, <1>2, <1>3, <1>4 DEF Next

(* The inductive invariant holds throughout every behaviour of the ledger. *)
THEOREM LedgerInvariant == Spec => []IInv
<1>1. IInv /\ [Next]_vars => IInv'
  BY NextKeeps
<1>2. QED
  BY <1>1, InitKeeps, PTL DEF Spec

(* Every collection keeps its shape.                                       *)
THEOREM TypeCorrect == Spec => []TypeOK
<1>1. IInv => TypeOK
  BY DEF IInv
<1>2. QED
  BY <1>1, LedgerInvariant, PTL

(* No stored row loses the accounts or the snapshots it refers to.         *)
THEOREM ReferencesCorrect == Spec => []ReferencesHold
<1>1. IInv => ReferencesHold
  BY DEF IInv
<1>2. QED
  BY <1>1, LedgerInvariant, PTL

(* No cached balance is ever stale.                                        *)
THEOREM SnapshotsCorrect == Spec => []SnapshotsMatchLedger
<1>1. IInv => SnapshotsMatchLedger
  BY DEF IInv
<1>2. QED
  BY <1>1, LedgerInvariant, PTL

(* The step form of ArchivedIsFrozen: a row step moves money on open       *)
(* accounts only, and so writes no row of an archived one.                 *)
LEMMA RowStepFreezes ==
    ASSUME IInv, NEW r \in Row, NEW legs \in SUBSET Account, RowStep(r, legs)
    PROVE  FrozenStep
<1> SUFFICES ASSUME NEW a \in DOMAIN accounts, accounts[a].state = "archived"
             PROVE  /\ accounts'[a] = accounts[a] /\ snapshots'[a] = snapshots[a]
                    /\ \A x \in DOMAIN rows' : Involves(rows'[x], a) =>
                            x \in DOMAIN rows /\ rows'[x] = rows[x]
  BY DEF FrozenStep
<1>1. a \in Account /\ a \notin legs
  BY TypeFacts DEF RowStep, IInv
<1>2. snapshots'[a] = snapshots[a]
  BY <1>1 DEF RowStep, Touches
<1>3. ASSUME NEW x \in DOMAIN rows', Involves(rows'[x], a)
      PROVE  x \in DOMAIN rows /\ rows'[x] = rows[x]
  <2>1. x # r
    BY <1>1, <1>3 DEF RowStep
  <2>2. QED
    BY <2>1 DEF RowStep, Writes
<1>4. QED
  BY <1>2, <1>3 DEF RowStep

(* Archiving one account or removing or creating another leaves an         *)
(* archived account as it is.                                              *)
LEMMA AccountStepFreezes ==
    ASSUME IInv, AccountStep
    PROVE  FrozenStep
<1> SUFFICES ASSUME NEW b \in DOMAIN accounts, accounts[b].state = "archived",
                    b \in DOMAIN accounts'
             PROVE  /\ accounts'[b] = accounts[b] /\ snapshots'[b] = snapshots[b]
                    /\ rows' = rows
  BY DEF FrozenStep
<1>1. PICK a \in Account :
        \/ \E c \in Currency, amount \in 0 .. MaxAmount, d \in Day :
                CreateAccount(a, c, amount, d)
        \/ ArchiveAccount(a)
        \/ RemoveAccount(a)
  BY DEF AccountStep
<1>2. b \in Account /\ snapshots = [x \in Account |-> snapshots[x]]
  BY TypeFacts DEF IInv, TypeOK
<1>3. ASSUME NEW c \in Currency, NEW amount \in 0 .. MaxAmount, NEW d \in Day,
             CreateAccount(a, c, amount, d)
      PROVE  /\ accounts'[b] = accounts[b] /\ snapshots'[b] = snapshots[b]
             /\ rows' = rows
  BY <1>2, <1>3 DEF CreateAccount, Put
<1>4. CASE ArchiveAccount(a)
  BY <1>4 DEF ArchiveAccount, Unlocked
<1>5. CASE RemoveAccount(a)
  BY <1>2, <1>5 DEF RemoveAccount
<1>6. QED
  BY <1>1, <1>3, <1>4, <1>5

LEMMA NextFreezes ==
    ASSUME IInv, [Next]_vars
    PROVE  [FrozenStep]_vars
<1>1. CASE AccountStep
  BY <1>1, AccountStepFreezes
<1>2. CASE MovementStep
  BY <1>2, MovementIsRowStep, RowStepFreezes
<1>3. CASE TransferStep
  BY <1>3, TransferIsRowStep, RowStepFreezes
<1>4. QED
  BY <1>1, <1>2, <1>3 DEF Next

(* An archived account's document, rows and snapshots never change.        *)
THEOREM ArchivedStaysFrozen == Spec => ArchivedIsFrozen
<1>1. IInv /\ [Next]_vars => [FrozenStep]_vars
  BY NextFreezes
<1>2. QED
  BY <1>1, LedgerInvariant, PTL DEF Spec, ArchivedIsFrozen

-----------------------------------------------------------------------------
(* Counting the units of a row collection, one row at a time.              *)

Units(C, f) == {u \in C \X Amount : u[2] <= f[u[1]]}

LEMMA UnitsFinite ==
    ASSUME NEW C \in SUBSET Row, NEW f
    PROVE  IsFiniteSet(Units(C, f)) /\ Cardinality(Units(C, f)) \in Nat
<1>1. IsFiniteSet(Amount)
  BY FS_Interval, LedgerAssumption DEF Amount
<1>2. IsFiniteSet(Row \X Amount)
  BY <1>1, FS_Product, LedgerAssumption
<1>3. Units(C, f) \in SUBSET (Row \X Amount)
  BY DEF Units
<1>4. QED
  BY <1>2, <1>3, FS_Subset, FS_CardinalityType

(* Row r counts for f[r] units.                                            *)
LEMMA UnitsSplit ==
    ASSUME NEW C \in SUBSET Row, NEW f, NEW r \in C, f[r] \in 0 .. MaxAmount
    PROVE  Cardinality(Units(C, f)) = Cardinality(Units(C \ {r}, f)) + f[r]
<1> DEFINE rest == Units(C \ {r}, f)
           own == {r} \X (1 .. f[r])
<1>1. f[r] \in Nat /\ MaxAmount \in Nat
  BY LedgerAssumption
<1>2. IsFiniteSet(1 .. f[r]) /\ Cardinality(1 .. f[r]) = f[r]
  <2>1. PICK n \in Nat : n = f[r]
    BY <1>1
  <2>2. IsFiniteSet(1 .. n) /\ Cardinality(1 .. n) = n
    BY FS_Interval
  <2>3. QED
    BY <2>1, <2>2
<1>3. IsFiniteSet(own) /\ Cardinality(own) = f[r]
  <2>1. IsFiniteSet({r}) /\ Cardinality({r}) = 1
    BY FS_Singleton
  <2>2. /\ IsFiniteSet({r} \X (1 .. f[r]))
        /\ Cardinality({r} \X (1 .. f[r])) = Cardinality({r}) * Cardinality(1 .. f[r])
    BY <1>2, <2>1, FS_Product
  <2>3. QED
    BY <1>1, <1>2, <2>1, <2>2
<1>4. IsFiniteSet(rest) /\ Cardinality(rest) \in Nat
  BY UnitsFinite
<1>5. Units(C, f) = rest \cup own
  <2>1. ASSUME NEW u \in Units(C, f)
        PROVE  u \in rest \cup own
    BY <1>1 DEF Units, Amount
  <2>2. ASSUME NEW u \in own
        PROVE  u \in Units(C, f)
    BY <1>1 DEF Units, Amount
  <2>3. rest \subseteq Units(C, f)
    BY DEF Units
  <2>4. QED
    BY <2>1, <2>2, <2>3
<1>6. rest \cap own = {}
  BY DEF Units
<1>7. Cardinality(rest \cap own) = 0
  BY <1>6, FS_EmptySet
<1> HIDE DEF rest, own
<1>8. Cardinality(rest \cup own) = Cardinality(rest) + Cardinality(own) - 0
  BY <1>3, <1>4, <1>7, FS_Union
<1>9. QED
  BY <1>1, <1>3, <1>4, <1>5, <1>8 DEF rest

-----------------------------------------------------------------------------
(* What row r brings account a up to a day.                                *)

Brings(rs, r, a, day) ==
    IF r \in Counted(rs, a, day) THEN Credit(rs[r], a) - Debit(rs[r], a) ELSE 0

LEMMA LegTypes ==
    ASSUME NEW row \in RowDocument, NEW a
    PROVE  Credit(row, a) \in 0 .. MaxAmount /\ Debit(row, a) \in 0 .. MaxAmount
BY LedgerAssumption DEF RowDocument, Credit, Debit, Amount

(* The balance without row r, which a write of r leaves as it is.          *)
Others(acc, rs, r, a, day) ==
    LET rest == Counted(rs, a, day) \ {r}
    IN  acc[a].initialAmount
            + Cardinality(Units(rest, [x \in DOMAIN rs |-> Credit(rs[x], a)]))
            - Cardinality(Units(rest, [x \in DOMAIN rs |-> Debit(rs[x], a)]))

LEMMA BalanceSplit ==
    ASSUME NEW acc, NEW rs, NEW r, NEW a, NEW day, IsCollection(rs, Row, RowDocument),
           acc[a].initialAmount \in Int, ~(day < acc[a].openedAt)
    PROVE  /\ Balance(acc, rs, a, day) = Others(acc, rs, r, a, day) + Brings(rs, r, a, day)
           /\ Others(acc, rs, r, a, day) \in Int /\ Brings(rs, r, a, day) \in Int
<1> DEFINE C == Counted(rs, a, day)
           credit == [x \in DOMAIN rs |-> Credit(rs[x], a)]
           debit == [x \in DOMAIN rs |-> Debit(rs[x], a)]
<1>1. C \subseteq DOMAIN rs /\ C \in SUBSET Row /\ C \ {r} \in SUBSET Row
  BY DEF Counted, IsCollection
<1>2. CreditUnits(rs, a, day) = Units(C, credit)
  BY <1>1 DEF CreditUnits, Units
<1>3. DebitUnits(rs, a, day) = Units(C, debit)
  BY <1>1 DEF DebitUnits, Units
<1>4. Balance(acc, rs, a, day) =
        acc[a].initialAmount + Cardinality(Units(C, credit)) - Cardinality(Units(C, debit))
  BY <1>2, <1>3 DEF Balance
<1>5. Others(acc, rs, r, a, day) =
        acc[a].initialAmount + Cardinality(Units(C \ {r}, credit))
                             - Cardinality(Units(C \ {r}, debit))
  BY DEF Others
<1>6. \A x \in C : credit[x] \in 0 .. MaxAmount /\ debit[x] \in 0 .. MaxAmount
  BY <1>1, LegTypes DEF IsCollection
<1>7. r \in C => credit[r] = Credit(rs[r], a) /\ debit[r] = Debit(rs[r], a)
  BY <1>1
<1> HIDE DEF credit, debit
<1>8. /\ Cardinality(Units(C \ {r}, credit)) \in Nat
      /\ Cardinality(Units(C \ {r}, debit)) \in Nat
  BY <1>1, UnitsFinite
<1>9. CASE r \in C
  <2>1. /\ Cardinality(Units(C, credit)) = Cardinality(Units(C \ {r}, credit)) + credit[r]
        /\ Cardinality(Units(C, debit)) = Cardinality(Units(C \ {r}, debit)) + debit[r]
    BY <1>1, <1>6, <1>9, UnitsSplit
  <2>2. Brings(rs, r, a, day) = credit[r] - debit[r]
    BY <1>7, <1>9 DEF Brings
  <2>3. credit[r] \in Int /\ debit[r] \in Int
    BY <1>6, <1>9
  <2> HIDE DEF C
  <2>4. QED
    BY <1>4, <1>5, <1>8, <2>1, <2>2, <2>3
<1>10. CASE r \notin C
  <2>1. /\ Cardinality(Units(C \ {r}, credit)) = Cardinality(Units(C, credit))
        /\ Cardinality(Units(C \ {r}, debit)) = Cardinality(Units(C, debit))
    <3>1. C \ {r} = C
      BY <1>10
    <3>2. QED
      BY <3>1
  <2>2. Brings(rs, r, a, day) = 0
    BY <1>10 DEF Brings
  <2> HIDE DEF C
  <2>3. QED
    BY <1>4, <1>5, <1>8, <2>1, <2>2
<1>11. QED
  BY <1>9, <1>10

LEMMA OthersStay ==
    ASSUME NEW acc, NEW rs, NEW rs2, NEW r, NEW a, NEW day, Writes(r, rs, rs2)
    PROVE  Others(acc, rs2, r, a, day) = Others(acc, rs, r, a, day)
<1> DEFINE C == Counted(rs, a, day) \ {r}
           C2 == Counted(rs2, a, day) \ {r}
<1>1. C = C2
  BY DEF Counted, Writes
<1>2. \A x \in C : x \in DOMAIN rs /\ x \in DOMAIN rs2 /\ rs2[x] = rs[x]
  BY DEF Counted, Writes
<1>3. ASSUME NEW f, NEW g, \A x \in C : g[x] = f[x]
      PROVE  Units(C, f) = Units(C2, g)
  BY <1>1, <1>3 DEF Units
<1>4. \A x \in C : /\ [y \in DOMAIN rs2 |-> Credit(rs2[y], a)][x] = Credit(rs[x], a)
                   /\ [y \in DOMAIN rs |-> Credit(rs[y], a)][x] = Credit(rs[x], a)
                   /\ [y \in DOMAIN rs2 |-> Debit(rs2[y], a)][x] = Debit(rs[x], a)
                   /\ [y \in DOMAIN rs |-> Debit(rs[y], a)][x] = Debit(rs[x], a)
  BY <1>2
<1> HIDE DEF C, C2
<1>5. /\ Units(C, [x \in DOMAIN rs |-> Credit(rs[x], a)])
            = Units(C2, [x \in DOMAIN rs2 |-> Credit(rs2[x], a)])
      /\ Units(C, [x \in DOMAIN rs |-> Debit(rs[x], a)])
            = Units(C2, [x \in DOMAIN rs2 |-> Debit(rs2[x], a)])
  BY <1>3, <1>4
<1>6. QED
  BY <1>5 DEF Others, C, C2

(* The lemma the theorems rest on: writing row r moves the balance of an   *)
(* open day by the difference between what r brings and what it brought.   *)
LEMMA BalanceMoves ==
    ASSUME NEW acc, NEW rs, NEW rs2, NEW r, NEW a, NEW day,
           IsCollection(rs, Row, RowDocument), IsCollection(rs2, Row, RowDocument),
           Writes(r, rs, rs2), acc[a].initialAmount \in Int, ~(day < acc[a].openedAt)
    PROVE  /\ Balance(acc, rs2, a, day) =
                Balance(acc, rs, a, day) + Brings(rs2, r, a, day) - Brings(rs, r, a, day)
           /\ Balance(acc, rs, a, day) \in Int
           /\ Brings(rs, r, a, day) \in Int /\ Brings(rs2, r, a, day) \in Int
<1>1. /\ Balance(acc, rs, a, day) = Others(acc, rs, r, a, day) + Brings(rs, r, a, day)
      /\ Others(acc, rs, r, a, day) \in Int /\ Brings(rs, r, a, day) \in Int
  BY BalanceSplit
<1>2. /\ Balance(acc, rs2, a, day) = Others(acc, rs2, r, a, day) + Brings(rs2, r, a, day)
      /\ Brings(rs2, r, a, day) \in Int
  BY BalanceSplit
<1>3. Others(acc, rs2, r, a, day) = Others(acc, rs, r, a, day)
  BY OthersStay
<1>4. QED
  BY <1>1, <1>2, <1>3

-----------------------------------------------------------------------------
(* A transfer takes only money that is there.                              *)

(* A row other than the written one is not touched, so only the written    *)
(* row can take more than it took.                                         *)
LEMMA CoveredByRow ==
    ASSUME IInv, NEW r \in Row, Writes(r, rows, rows'),
           rows'[r].type = "transfer" =>
              LET taken == IF r \in DOMAIN rows THEN rows[r].amount ELSE 0
              IN  rows'[r].amount > taken =>
                    Balance(accounts', rows', rows'[r].account, rows'[r].date) >= 0
    PROVE  CoveredStep
<1>1. \A x \in DOMAIN rows : rows[x].amount \in Int
  <2>1. \A x \in DOMAIN rows : rows[x].amount \in Amount
    BY TypeFacts DEF IInv, RowDocument
  <2>2. QED
    BY <2>1 DEF Amount
<1>2. ASSUME NEW x \in DOMAIN rows', x # r
      PROVE  x \in DOMAIN rows /\ ~(rows'[x].amount > rows[x].amount)
  BY <1>1, <1>2 DEF Writes
<1>3. QED
  BY <1>2 DEF CoveredStep

(* What a transfer leaves on its source: the balance before the step, less *)
(* what it takes beyond what it took.                                      *)
LEMMA SourceAfter ==
    ASSUME IInv, NEW r \in Row, NEW row \in RowDocument, Writes(r, rows, rows'),
           IsCollection(rows', Row, RowDocument), rows'[r] = row,
           row.type = "transfer", row.state = "active",
           row.account \in DOMAIN accounts,
           accounts[row.account].openedAt <= row.date
    PROVE  /\ Balance(accounts, rows', row.account, row.date) =
                Balance(accounts, rows, row.account, row.date)
                    - row.amount - Brings(rows, r, row.account, row.date)
           /\ Balance(accounts, rows, row.account, row.date) \in Int
           /\ Brings(rows, r, row.account, row.date) \in Int
           /\ row.amount \in Int
<1> DEFINE s == row.account
           day == row.date
<1>1. /\ accounts[s].initialAmount \in Int /\ accounts[s].openedAt \in Int
      /\ day \in Int /\ row.amount \in Int
  <2>1. /\ accounts[s].initialAmount \in Int /\ accounts[s].openedAt \in Day
    BY TypeFacts DEF IInv
  <2>2. day \in Day /\ row.amount \in Amount
    BY DEF RowDocument
  <2>3. Day \subseteq Int /\ Amount \subseteq Int
    BY LedgerAssumption DEF Amount
  <2>4. QED
    BY <2>1, <2>2, <2>3
<1>2. ~(day < accounts[s].openedAt)
  BY <1>1
<1>3. Involves(row, s) /\ Credit(row, s) = 0 /\ Debit(row, s) = row.amount
  BY DEF Involves, Credit, Debit
<1>4. Brings(rows', r, s, day) = 0 - row.amount
  <2>1. r \in Counted(rows', s, day)
    BY <1>1, <1>3 DEF Counted, Writes
  <2>2. QED
    BY <1>3, <2>1 DEF Brings
<1>5. IsCollection(rows, Row, RowDocument)
  BY DEF IInv, TypeOK
<1>6. /\ Balance(accounts, rows', s, day) =
            Balance(accounts, rows, s, day) + Brings(rows', r, s, day) - Brings(rows, r, s, day)
      /\ Balance(accounts, rows, s, day) \in Int /\ Brings(rows, r, s, day) \in Int
  BY <1>1, <1>2, <1>5, BalanceMoves
<1> HIDE DEF s, day
<1>7. QED
  BY <1>1, <1>4, <1>6 DEF s, day

LEMMA CreateTransferCovered ==
    ASSUME IInv, NEW r \in Row, NEW s \in Account, NEW t \in Account,
           NEW amount \in Amount, NEW received \in Amount, NEW date \in Day,
           CreateTransfer(r, s, t, amount, received, date)
    PROVE  CoveredStep
<1> DEFINE row == [state |-> "active", type |-> "transfer", account |-> s,
                   amount |-> amount, destination |-> t,
                   received |-> received, date |-> date]
<1>1. /\ r \notin DOMAIN rows /\ s \in DOMAIN accounts
      /\ accounts[s].openedAt <= date /\ rows' = Put(rows, r, row)
      /\ Balance(accounts, rows, s, date) >= amount /\ accounts' = accounts
  BY TypeFacts, LedgerAssumption DEF CreateTransfer, AccountForCreate, Unlocked, IInv
<1>2. /\ row \in RowDocument /\ row.type = "transfer" /\ row.state = "active"
      /\ row.account = s /\ row.date = date /\ row.amount = amount
  BY DEF RowDocument
<1> HIDE DEF row
<1>3. IsCollection(rows', Row, RowDocument) /\ Writes(r, rows, rows') /\ rows'[r] = row
  BY <1>1, <1>2, RowStored DEF IInv
<1>4. Brings(rows, r, s, date) = 0
  BY <1>1 DEF Brings, Counted
<1>5. /\ Balance(accounts, rows', row.account, row.date) =
            Balance(accounts, rows, row.account, row.date)
                - row.amount - Brings(rows, r, row.account, row.date)
      /\ Balance(accounts, rows, row.account, row.date) \in Int /\ row.amount \in Int
  BY <1>1, <1>2, <1>3, SourceAfter
<1>6. Balance(accounts, rows', s, date) >= 0
  BY <1>1, <1>2, <1>4, <1>5
<1>7. QED
  BY <1>1, <1>2, <1>3, <1>6, CoveredByRow

LEMMA UpdateTransferCovered ==
    ASSUME IInv, NEW r \in Row, NEW amount \in Amount, NEW received \in Amount,
           UpdateTransfer(r, amount, received)
    PROVE  CoveredStep
<1> DEFINE row == [rows[r] EXCEPT !.amount = amount, !.received = received]
           s == rows[r].account
           date == rows[r].date
<1>1. /\ r \in DOMAIN rows /\ rows[r] \in RowDocument /\ rows[r].type = "transfer"
      /\ rows[r].state = "active" /\ s \in DOMAIN accounts
      /\ s \in Account /\ date \in Day /\ date \in Int /\ accounts' = accounts
  BY TypeFacts, LedgerAssumption
     DEF UpdateTransfer, IsTransfer, IsActive, Unlocked, IInv
<1>2. /\ rows' = [rows EXCEPT ![r] = row]
      /\ amount - rows[r].amount > 0
            => Balance(accounts, rows, s, date) >= amount - rows[r].amount
  BY DEF UpdateTransfer, ExtraDebit
<1>3. /\ row \in RowDocument /\ row.type = "transfer" /\ row.state = "active"
      /\ row.account = s /\ row.date = date /\ row.amount = amount
  BY <1>1 DEF RowDocument
<1> HIDE DEF row
<1>4. IsCollection(rows', Row, RowDocument) /\ Writes(r, rows, rows') /\ rows'[r] = row
  BY <1>1, <1>2, <1>3, RowStored DEF IInv
<1>5. Involves(rows[r], s) /\ Credit(rows[r], s) = 0 /\ Debit(rows[r], s) = rows[r].amount
  BY <1>1 DEF Involves, Credit, Debit
<1>6. accounts[s].openedAt <= date
  BY <1>1, <1>5 DEF IInv, ReferencesHold
<1>7. Brings(rows, r, s, date) = 0 - rows[r].amount
  BY <1>1, <1>5 DEF Brings, Counted
<1>8. rows[r].amount \in Int /\ amount \in Int
  BY <1>1 DEF RowDocument, Amount
<1>9. /\ Balance(accounts, rows', row.account, row.date) =
            Balance(accounts, rows, row.account, row.date)
                - row.amount - Brings(rows, r, row.account, row.date)
      /\ Balance(accounts, rows, row.account, row.date) \in Int
  BY <1>1, <1>3, <1>4, <1>6, SourceAfter
<1>10. Balance(accounts, rows', s, date) =
            Balance(accounts, rows, s, date) - amount + rows[r].amount
  BY <1>3, <1>7, <1>8, <1>9
<1> HIDE DEF s, date
<1>11. amount > rows[r].amount => Balance(accounts, rows', s, date) >= 0
  BY <1>2, <1>3, <1>8, <1>9, <1>10
<1>12. QED
  BY <1>1, <1>3, <1>4, <1>11, CoveredByRow

(* An edit of a movement, or a deletion, takes no more than was taken.     *)
LEMMA RewriteCovered ==
    ASSUME IInv, NEW r \in Row, NEW row \in RowDocument, r \in DOMAIN rows,
           rows' = [rows EXCEPT ![r] = row],
           row.type # "transfer" \/ row.amount = rows[r].amount
    PROVE  CoveredStep
<1>1. Writes(r, rows, rows') /\ rows'[r] = row
  BY RowStored DEF IInv
<1>2. row.type = "transfer" => ~(rows'[r].amount > rows[r].amount)
  <2>1. row.amount \in Int
    BY DEF RowDocument, Amount
  <2>2. row.type = "transfer" => rows[r].amount = row.amount
    OBVIOUS
  <2>3. QED
    BY <1>1, <2>1, <2>2
<1>3. QED
  BY <1>1, <1>2, CoveredByRow

LEMMA MovementCovered ==
    ASSUME IInv, MovementStep
    PROVE  CoveredStep
<1>1. PICK r \in Row :
        \/ \E a \in Account, amount \in Amount, d \in Day :
                \/ CreateIncome(r, a, amount, d)
                \/ CreateExpense(r, a, amount, d)
        \/ \E amount \in Amount : UpdateTransaction(r, amount)
        \/ DeleteTransaction(r)
  BY DEF MovementStep
<1>2. ASSUME NEW a \in Account, NEW amount \in Amount, NEW d \in Day,
             NEW type \in {"income", "expense"}, CreateMovement(r, type, a, amount, d)
      PROVE  CoveredStep
  <2> DEFINE row == [state |-> "active", type |-> type, account |-> a,
                     amount |-> amount, destination |-> a, received |-> amount,
                     date |-> d]
  <2>1. rows' = Put(rows, r, row)
    BY <1>2 DEF CreateMovement
  <2>2. row \in RowDocument /\ row.type # "transfer"
    BY DEF RowDocument
  <2> HIDE DEF row
  <2>3. Writes(r, rows, rows') /\ rows'[r] = row
    BY <2>1, <2>2, RowStored DEF IInv
  <2>4. QED
    BY <2>2, <2>3, CoveredByRow
<1>3. ASSUME NEW amount \in Amount, UpdateTransaction(r, amount)
      PROVE  CoveredStep
  <2> DEFINE row == [rows[r] EXCEPT !.amount = amount, !.received = amount]
  <2>1. r \in DOMAIN rows /\ rows[r] \in RowDocument /\ rows[r].type # "transfer"
    BY <1>3, TypeFacts DEF UpdateTransaction, IsMovement, IsActive, IInv
  <2>2. rows' = [rows EXCEPT ![r] = row]
    BY <1>3 DEF UpdateTransaction
  <2>3. row \in RowDocument /\ row.type # "transfer"
    BY <2>1 DEF RowDocument
  <2> HIDE DEF row
  <2>4. QED
    BY <2>1, <2>2, <2>3, RewriteCovered
<1>4. CASE DeleteTransaction(r)
  <2> DEFINE row == [rows[r] EXCEPT !.state = "deleted"]
  <2>1. r \in DOMAIN rows /\ rows[r] \in RowDocument /\ rows[r].type # "transfer"
    BY <1>4, TypeFacts DEF DeleteTransaction, IsMovement, IsActive, IInv
  <2>2. rows' = [rows EXCEPT ![r] = row]
    BY <1>4 DEF DeleteTransaction
  <2>3. row \in RowDocument /\ row.type # "transfer"
    BY <2>1 DEF RowDocument
  <2> HIDE DEF row
  <2>4. QED
    BY <2>1, <2>2, <2>3, RewriteCovered
<1>5. QED
  BY <1>1, <1>2, <1>3, <1>4 DEF CreateIncome, CreateExpense

LEMMA DeleteTransferCovered ==
    ASSUME IInv, NEW r \in Row, DeleteTransfer(r)
    PROVE  CoveredStep
<1> DEFINE row == [rows[r] EXCEPT !.state = "deleted"]
<1>1. r \in DOMAIN rows /\ rows[r] \in RowDocument
  BY TypeFacts DEF DeleteTransfer, IsTransfer, IsActive, IInv
<1>2. rows' = [rows EXCEPT ![r] = row]
  BY DEF DeleteTransfer
<1>3. row \in RowDocument /\ row.amount = rows[r].amount
  BY <1>1 DEF RowDocument
<1> HIDE DEF row
<1>4. QED
  BY <1>1, <1>2, <1>3, RewriteCovered

LEMMA NextCovered ==
    ASSUME IInv, [Next]_vars
    PROVE  [CoveredStep]_vars
<1>1. CASE AccountStep
  <2>1. rows' = rows
    BY <1>1 DEF AccountStep, CreateAccount, ArchiveAccount, RemoveAccount
  <2>2. \A x \in DOMAIN rows : rows[x].amount \in Int
    BY TypeFacts DEF IInv, RowDocument, Amount
  <2>3. \A x \in DOMAIN rows : ~(rows[x].amount > rows[x].amount)
    BY <2>2
  <2>4. CoveredStep
    BY <2>1, <2>3 DEF CoveredStep
  <2>5. QED
    BY <2>4
<1>2. CASE MovementStep
  BY <1>2, MovementCovered
<1>3. CASE TransferStep
  BY <1>3, CreateTransferCovered, UpdateTransferCovered, DeleteTransferCovered
     DEF TransferStep
<1>4. QED
  BY <1>1, <1>2, <1>3 DEF Next

(* A transfer, created or enlarged, never leaves its source short on its   *)
(* date.                                                                   *)
THEOREM TransfersStayCovered == Spec => TransfersAreCovered
<1>1. IInv /\ [Next]_vars => [CoveredStep]_vars
  BY NextCovered
<1>2. QED
  BY <1>1, LedgerInvariant, PTL DEF Spec, TransfersAreCovered

-----------------------------------------------------------------------------
(* The ledger implements the account book.                                 *)

(* With exact snapshots, what is shown for a day is the balance of it.     *)
LEMMA ShownIsBalance ==
    ASSUME IInv, NEW a, NEW day
    PROVE  Shown(a, day) =
             IF a \in DOMAIN accounts THEN Balance(accounts, rows, a, day) ELSE 0
BY DEF Shown, IInv, SnapshotsMatchLedger

(* What row r has posted for account a.                                    *)
Posted(r, a) == Book!Moved(Entry(r), a)

LEMMA PostedIs ==
    ASSUME NEW r, NEW a \in Account
    PROVE  Posted(r, a) =
             IF r \in DOMAIN rows /\ rows[r].state = "active" /\ Involves(rows[r], a)
             THEN Credit(rows[r], a) - Debit(rows[r], a) ELSE 0
<1>1. CASE r \in DOMAIN rows
  <2>1. /\ Entry(r).state = rows[r].state
        /\ Entry(r).moved[a] = IF Involves(rows[r], a)
                               THEN Credit(rows[r], a) - Debit(rows[r], a) ELSE 0
    BY <1>1 DEF Entry
  <2>2. QED
    BY <1>1, <2>1 DEF Posted, Book!Moved
<1>2. CASE r \notin DOMAIN rows
  <2>1. Entry(r).state # "active"
    BY <1>2 DEF Entry
  <2>2. QED
    BY <1>2, <2>1 DEF Posted, Book!Moved
<1>3. QED
  BY <1>1, <1>2

(* Up to a day from its date on, a row brings what it has posted; before   *)
(* its date it brings nothing.                                             *)
LEMMA BringsIsPosted ==
    ASSUME NEW r, NEW a \in Account, NEW day \in Int,
           r \in DOMAIN rows => rows[r].date \in Int /\ rows[r].date <= day
    PROVE  Brings(rows, r, a, day) = Posted(r, a)
BY PostedIs DEF Brings, Counted

(* A row step moves what is shown, from the row's date on, by what the     *)
(* row has newly posted.                                                   *)
LEMMA RowStepMoves ==
    ASSUME IInv, IInv', NEW r \in Row, NEW legs \in SUBSET Account, RowStep(r, legs),
           NEW a \in Account, NEW day \in Day
    PROVE  Shown(a, day)' = IF day < rows'[r].date THEN Shown(a, day)
                            ELSE Shown(a, day) + Posted(r, a)' - Posted(r, a)
<1> DEFINE date == rows'[r].date
<1> USE DEF RowStep
<1>1. /\ accounts' = accounts /\ Writes(r, rows, rows') /\ r \in DOMAIN rows'
      /\ IsCollection(rows, Row, RowDocument) /\ IsCollection(rows', Row, RowDocument)
  BY DEF IInv, TypeOK, Writes
<1>2. /\ \A x \in DOMAIN rows : rows[x].date \in Int
      /\ \A x \in DOMAIN rows' : rows'[x].date \in Int
      /\ date \in Int /\ day \in Int
  <2>1. ASSUME NEW rs, IsCollection(rs, Row, RowDocument)
        PROVE  \A x \in DOMAIN rs : rs[x].date \in Int
    BY <2>1, LedgerAssumption DEF IsCollection, RowDocument
  <2>2. QED
    BY <1>1, <2>1, LedgerAssumption
<1>3. Shown(a, day)' =
        IF a \in DOMAIN accounts THEN Balance(accounts, rows', a, day) ELSE 0
  <2>1. Shown(a, day)' =
          IF a \in DOMAIN accounts' THEN Balance(accounts', rows', a, day) ELSE 0
    BY DEF Shown, IInv, SnapshotsMatchLedger
  <2>2. QED
    BY <1>1, <2>1
<1>4. Shown(a, day) =
        IF a \in DOMAIN accounts THEN Balance(accounts, rows, a, day) ELSE 0
  BY ShownIsBalance
<1>5. ASSUME a \notin legs
      PROVE  Posted(r, a) = 0 /\ Posted(r, a)' = 0
  <2>1. Posted(r, a) = 0
    BY <1>5, PostedIs
  <2>2. Entry(r)'.state # "active" \/ Entry(r)'.moved[a] = 0
    BY <1>1, <1>5 DEF Entry
  <2>3. QED
    BY <2>1, <2>2 DEF Posted, Book!Moved
<1>6. CASE a \notin DOMAIN accounts
  <2>1. a \notin legs
    BY <1>6
  <2>2. QED
    BY <1>3, <1>4, <1>5, <1>6, <2>1
<1>7. ASSUME day < date \/ a \notin legs
      PROVE  Balance(accounts, rows', a, day) = Balance(accounts, rows, a, day)
  <2>1. Spares(r, rows, a, day) /\ Spares(r, rows', a, day)
    BY <1>2, <1>7 DEF Spares
  <2>2. QED
    BY <1>1, <1>2, <2>1, BalanceUnaffected
<1>8. CASE a \in DOMAIN accounts /\ day < date
  BY <1>3, <1>4, <1>7, <1>8
<1>9. CASE a \in DOMAIN accounts /\ ~(day < date) /\ a \notin legs
  <2>1. Balance(accounts, rows, a, day) \in Int
    BY <1>1, <1>9, BalanceType, TypeFacts DEF IInv
  <2>2. QED
    BY <1>3, <1>4, <1>5, <1>7, <1>9, <2>1
<1>10. CASE a \in DOMAIN accounts /\ ~(day < date) /\ a \in legs
  <2>1. accounts[a].initialAmount \in Int /\ accounts[a].openedAt \in Int
    BY <1>10, TypeFacts, LedgerAssumption DEF IInv
  <2>2. ~(day < accounts[a].openedAt)
    BY <1>2, <1>10, <2>1
  <2>3. /\ Balance(accounts, rows', a, day) =
              Balance(accounts, rows, a, day) + Brings(rows', r, a, day) - Brings(rows, r, a, day)
    BY <1>1, <2>1, <2>2, BalanceMoves
  <2>4. Brings(rows, r, a, day) = Posted(r, a)
    BY <1>2, <1>10, BringsIsPosted
  <2>5. Brings(rows', r, a, day) = Posted(r, a)'
    <3>1. r \in DOMAIN rows' /\ rows'[r].date <= day /\ Involves(rows'[r], a)
      BY <1>1, <1>2, <1>10
    <3>2. /\ Entry(r)'.state = rows'[r].state
          /\ Entry(r)'.moved[a] = Credit(rows'[r], a) - Debit(rows'[r], a)
      BY <3>1 DEF Entry
    <3>3. QED
      BY <3>1, <3>2 DEF Posted, Book!Moved, Brings, Counted
  <2>6. QED
    BY <1>3, <1>4, <1>10, <2>3, <2>4, <2>5
<1>11. QED
  BY <1>6, <1>8, <1>9, <1>10

(* How a row changes in a step: it is new, or edited, or deleted.          *)
RowMove(r) ==
    \/ r \notin DOMAIN rows /\ rows'[r].state = "active"
    \/ IsActive(r) /\ rows'[r].state = "active"
    \/ IsActive(r) /\ rows'[r] = [rows[r] EXCEPT !.state = "deleted"]

LEMMA RowStepImplements ==
    ASSUME IInv, IInv', NEW r \in Row, NEW legs \in SUBSET Account,
           RowStep(r, legs), RowMove(r)
    PROVE  Book!Entries
<1>1. /\ r \in DOMAIN rows' /\ Writes(r, rows, rows')
      /\ r \in DOMAIN rows => rows[r].date = rows'[r].date
  BY DEF RowStep, Writes
<1>2. ShownBook' =
        [a \in Account |-> [day \in Day |->
            IF day < rows'[r].date THEN Shown(a, day)
            ELSE Shown(a, day) + Posted(r, a)' - Posted(r, a)]]
  BY RowStepMoves DEF ShownBook
<1>3. \A x \in Row : ShownEntries[x] = Entry(x) /\ ShownEntries'[x] = Entry(x)'
  BY DEF ShownEntries
<1>4. ShownEntries'[r].state = rows'[r].state /\ ShownEntries'[r].date = rows'[r].date
  <2>1. Entry(r)'.state = rows'[r].state /\ Entry(r)'.date = rows'[r].date
    BY <1>1 DEF Entry
  <2>2. QED
    BY <1>3, <2>1
<1>5. r \in DOMAIN rows => /\ ShownEntries[r].state = rows[r].state
                           /\ ShownEntries[r].date = rows'[r].date
  <2>1. r \in DOMAIN rows =>
            Entry(r).state = rows[r].state /\ Entry(r).date = rows[r].date
    BY DEF Entry
  <2>2. QED
    BY <1>1, <1>3, <2>1
<1>6. Book!Move(ShownEntries[r], ShownEntries'[r], rows'[r].date)
  <2>1. \A a \in Account : /\ Posted(r, a) = Book!Moved(ShownEntries[r], a)
                           /\ Posted(r, a)' = Book!Moved(ShownEntries'[r], a)
    BY <1>3 DEF Posted
  <2>2. \A a \in Account, day \in Day : ShownBook[a][day] = Shown(a, day)
    BY DEF ShownBook
  <2>3. QED
    BY <1>2, <2>1, <2>2 DEF Book!Move
<1>7. \A other \in Row \ {r} : ShownEntries'[other] = ShownEntries[other]
  <2>1. \A other \in Row \ {r} : Entry(other)' = Entry(other)
    BY <1>1 DEF Writes, Entry
  <2>2. QED
    BY <1>3, <2>1
<1>8. CASE r \notin DOMAIN rows /\ rows'[r].state = "active"
  <2>1. ShownEntries[r] = Book!Blank
    BY <1>3, <1>8 DEF Entry, Book!Blank
  <2>2. Book!Post(r)
    BY <1>4, <1>6, <1>8, <2>1 DEF Book!Post
  <2>3. QED
    BY <1>7, <2>2 DEF Book!Entries
<1>9. CASE IsActive(r) /\ rows'[r].state = "active"
  <2>1. Book!Amend(r)
    BY <1>4, <1>5, <1>6, <1>9 DEF Book!Amend, Book!Standing, IsActive
  <2>2. QED
    BY <1>7, <2>1 DEF Book!Entries
<1>10. CASE IsActive(r) /\ rows'[r] = [rows[r] EXCEPT !.state = "deleted"]
  <2>1. r \in DOMAIN rows /\ rows[r].state = "active" /\ rows[r] \in RowDocument
    BY <1>10, TypeFacts DEF IsActive, IInv
  <2>2. PICK row : row = rows'[r]
    OBVIOUS
  <2>3. /\ row.state = "deleted" /\ row.type = rows[r].type /\ row.account = rows[r].account
        /\ row.amount = rows[r].amount /\ row.destination = rows[r].destination
        /\ row.received = rows[r].received /\ row.date = rows[r].date
    BY <1>10, <2>1, <2>2 DEF RowDocument
  <2>4. \A a \in Account : /\ Involves(row, a) <=> Involves(rows[r], a)
                           /\ Credit(row, a) = Credit(rows[r], a)
                           /\ Debit(row, a) = Debit(rows[r], a)
    BY <2>3 DEF Involves, Credit, Debit
  <2>5. PICK moved : moved = [a \in Account |->
            IF Involves(rows[r], a) THEN Credit(rows[r], a) - Debit(rows[r], a) ELSE 0]
    OBVIOUS
  <2>6. Entry(r) = [state |-> "active", date |-> rows[r].date, moved |-> moved]
    BY <2>1, <2>5 DEF Entry
  <2>7. Entry(r)' = [state |-> "deleted", date |-> rows[r].date, moved |-> moved]
    <3>1. Entry(r)' = [state |-> row.state, date |-> row.date,
                       moved |-> [a \in Account |->
                            IF Involves(row, a) THEN Credit(row, a) - Debit(row, a) ELSE 0]]
      BY <1>1, <2>2 DEF Entry
    <3>2. [a \in Account |->
                IF Involves(row, a) THEN Credit(row, a) - Debit(row, a) ELSE 0] = moved
      BY <2>4, <2>5
    <3>3. QED
      BY <2>3, <3>1, <3>2
  <2>8. ShownEntries'[r] = [ShownEntries[r] EXCEPT !.state = "deleted"]
    BY <1>3, <2>6, <2>7
  <2>9. Book!Reverse(r)
    BY <1>5, <1>6, <2>1, <2>8 DEF Book!Reverse, Book!Standing
  <2>10. QED
    BY <1>7, <2>9 DEF Book!Entries
<1>11. QED
  BY <1>8, <1>9, <1>10 DEF RowMove

(* A row step changes a row's amounts and state only.                      *)
SameLegs(r) ==
    r \in DOMAIN rows =>
        /\ rows'[r].type = rows[r].type /\ rows'[r].account = rows[r].account
        /\ rows'[r].destination = rows[r].destination

RowWritten(r, legs) == RowStep(r, legs) /\ RowMove(r) /\ SameLegs(r)

LEMMA MovementMoves ==
    ASSUME IInv, MovementStep
    PROVE  \E r \in Row, legs \in SUBSET Account : RowWritten(r, legs)
<1>1. PICK r \in Row :
        \/ \E a \in Account, amount \in Amount, d \in Day :
                \/ CreateIncome(r, a, amount, d)
                \/ CreateExpense(r, a, amount, d)
        \/ \E amount \in Amount : UpdateTransaction(r, amount)
        \/ DeleteTransaction(r)
  BY DEF MovementStep
<1>2. ASSUME NEW a \in Account, NEW amount \in Amount, NEW d \in Day,
             NEW type \in {"income", "expense"}, CreateMovement(r, type, a, amount, d)
      PROVE  \E legs \in SUBSET Account : RowWritten(r, legs)
  <2>1. r \notin DOMAIN rows /\ rows'[r].state = "active"
    BY <1>2 DEF CreateMovement, Put
  <2>2. QED
    BY <1>2, <2>1, CreateMovementIsRowStep DEF RowMove, SameLegs, RowWritten
<1>3. ASSUME NEW amount \in Amount, UpdateTransaction(r, amount)
      PROVE  \E legs \in SUBSET Account : RowWritten(r, legs)
  <2>1. IsActive(r) /\ r \in DOMAIN rows /\ rows[r] \in RowDocument
    BY <1>3, TypeFacts DEF UpdateTransaction, IsMovement, IsActive, IInv
  <2>2. rows'[r] = [rows[r] EXCEPT !.amount = amount, !.received = amount]
    BY <1>3, <2>1 DEF UpdateTransaction
  <2>3. rows'[r].state = "active" /\ SameLegs(r)
    BY <2>1, <2>2 DEF RowDocument, IsActive, SameLegs
  <2>4. QED
    BY <1>3, <2>1, <2>3, UpdateTransactionIsRowStep DEF RowMove, SameLegs, RowWritten
<1>4. CASE DeleteTransaction(r)
  <2>1. /\ IsActive(r) /\ rows'[r] = [rows[r] EXCEPT !.state = "deleted"]
        /\ rows[r] \in RowDocument
    BY <1>4, TypeFacts DEF DeleteTransaction, IsMovement, IsActive, IInv
  <2>2. SameLegs(r)
    BY <2>1 DEF SameLegs, RowDocument
  <2>3. QED
    BY <1>4, <2>1, <2>2, DeleteTransactionIsRowStep DEF RowMove, SameLegs, RowWritten
<1>5. QED
  BY <1>1, <1>2, <1>3, <1>4 DEF CreateIncome, CreateExpense

LEMMA TransferMoves ==
    ASSUME IInv, TransferStep
    PROVE  \E r \in Row, legs \in SUBSET Account : RowWritten(r, legs)
<1>1. PICK r \in Row :
        \/ \E s, t \in Account, amount, received \in Amount, d \in Day :
                CreateTransfer(r, s, t, amount, received, d)
        \/ \E amount, received \in Amount : UpdateTransfer(r, amount, received)
        \/ DeleteTransfer(r)
  BY DEF TransferStep
<1>2. ASSUME NEW s \in Account, NEW t \in Account, NEW amount \in Amount,
             NEW received \in Amount, NEW d \in Day,
             CreateTransfer(r, s, t, amount, received, d)
      PROVE  \E legs \in SUBSET Account : RowWritten(r, legs)
  <2>1. r \notin DOMAIN rows /\ rows'[r].state = "active"
    BY <1>2 DEF CreateTransfer, Put
  <2>2. QED
    BY <1>2, <2>1, CreateTransferIsRowStep DEF RowMove, SameLegs, RowWritten
<1>3. ASSUME NEW amount \in Amount, NEW received \in Amount,
             UpdateTransfer(r, amount, received)
      PROVE  \E legs \in SUBSET Account : RowWritten(r, legs)
  <2>1. IsActive(r) /\ r \in DOMAIN rows /\ rows[r] \in RowDocument
    BY <1>3, TypeFacts DEF UpdateTransfer, IsTransfer, IsActive, IInv
  <2>2. rows'[r] = [rows[r] EXCEPT !.amount = amount, !.received = received]
    BY <1>3, <2>1 DEF UpdateTransfer
  <2>3. rows'[r].state = "active" /\ SameLegs(r)
    BY <2>1, <2>2 DEF RowDocument, IsActive, SameLegs
  <2>4. QED
    BY <1>3, <2>1, <2>3, UpdateTransferIsRowStep DEF RowMove, SameLegs, RowWritten
<1>4. CASE DeleteTransfer(r)
  <2>1. /\ IsActive(r) /\ rows'[r] = [rows[r] EXCEPT !.state = "deleted"]
        /\ rows[r] \in RowDocument
    BY <1>4, TypeFacts DEF DeleteTransfer, IsTransfer, IsActive, IInv
  <2>2. SameLegs(r)
    BY <2>1 DEF SameLegs, RowDocument
  <2>3. QED
    BY <1>4, <2>1, <2>2, DeleteTransferIsRowStep DEF RowMove, SameLegs, RowWritten
<1>5. QED
  BY <1>1, <1>2, <1>3, <1>4

(* An account is opened with its first balance, archived without a trace,  *)
(* and removed when every day of it shows nothing.                         *)
LEMMA SameShown ==
    ASSUME \A a \in Account, day \in Day : Shown(a, day)' = Shown(a, day), rows' = rows
    PROVE  UNCHANGED <<ShownBook, ShownEntries>>
BY DEF ShownBook, ShownEntries, Entry

LEMMA CreateAccountOpens ==
    ASSUME IInv, IInv', NEW a \in Account, NEW c \in Currency,
           NEW amount \in 0 .. MaxAmount, NEW d \in Day,
           CreateAccount(a, c, amount, d)
    PROVE  Book!Accounts
<1>1. /\ a \notin DOMAIN accounts /\ rows' = rows
      /\ DOMAIN accounts' = DOMAIN accounts \cup {a}
      /\ accounts'[a].initialAmount = amount /\ accounts'[a].openedAt = d
      /\ \A b \in DOMAIN accounts : accounts'[b] = accounts[b]
      /\ amount \in Int /\ d \in Int
  BY LedgerAssumption DEF CreateAccount, Put
<1>2. \A r \in DOMAIN rows : ~Involves(rows[r], a)
  BY <1>1 DEF IInv, ReferencesHold
<1>3. ShownEntries' = ShownEntries
  BY <1>1 DEF ShownEntries, Entry
<1>4. Book!Untouched(a)
  <2>1. \A r \in Row : Posted(r, a) = 0
    BY <1>2, PostedIs
  <2>2. \A r \in Row : ShownEntries[r] = Entry(r)
    BY DEF ShownEntries
  <2>3. QED
    BY <2>1, <2>2 DEF Book!Untouched, Posted
<1>5. ASSUME NEW day \in Day
      PROVE  Shown(a, day)' = IF day < d THEN 0 ELSE amount
  <2>1. Shown(a, day)' = Balance(accounts', rows, a, day)
    BY <1>1 DEF Shown, IInv, SnapshotsMatchLedger
  <2>2. CASE day < d
    BY <1>1, <2>1, <2>2 DEF Balance
  <2>3. CASE ~(day < d)
    <3>1. Balance(accounts', rows, a, day) = accounts'[a].initialAmount
      BY <1>1, <1>2, <2>3, BalanceWithoutRows
    <3>2. QED
      BY <1>1, <2>1, <2>3, <3>1
  <2>4. QED
    BY <2>2, <2>3
<1>6. ASSUME NEW b \in Account \ {a}, NEW day \in Day
      PROVE  Shown(b, day)' = Shown(b, day)
  <2>1. Shown(b, day)' =
          IF b \in DOMAIN accounts' THEN Balance(accounts', rows', b, day) ELSE 0
    BY DEF Shown, IInv, SnapshotsMatchLedger
  <2>2. b \in DOMAIN accounts =>
            Balance(accounts', rows, b, day) = Balance(accounts, rows, b, day)
    BY <1>1, BalanceOfDocument
  <2>3. b \in DOMAIN accounts' <=> b \in DOMAIN accounts
    BY <1>1
  <2>4. QED
    BY <1>1, <2>1, <2>2, <2>3, ShownIsBalance
<1>7. \A x \in Account, day \in Day : ShownBook[x][day] = Shown(x, day)
  BY DEF ShownBook
<1>8. \A x \in Account, day \in Day : ShownBook'[x][day] = Shown(x, day)'
  BY DEF ShownBook
<1>9. Book!Open(a)
  <2>1. ~(d < d)
    BY <1>1
  <2>2. ShownBook'[a][d] = amount
    BY <1>5, <1>8, <2>1
  <2>3. \A day \in Day :
            ShownBook'[a][day] = IF day < d THEN 0 ELSE ShownBook'[a][d]
    BY <1>5, <1>8, <2>2
  <2>4. QED
    BY <1>4, <2>3 DEF Book!Open
<1>10. \A day \in Day : ShownBook[a][day] = 0
  BY <1>1, <1>7, ShownIsBalance
<1>11. \A other \in Account \ {a} : ShownBook'[other] = ShownBook[other]
  BY <1>6 DEF ShownBook
<1>12. QED
  BY <1>3, <1>9, <1>10, <1>11 DEF Book!Accounts

LEMMA ArchiveAccountUnseen ==
    ASSUME IInv, IInv', NEW a \in Account, ArchiveAccount(a)
    PROVE  UNCHANGED <<ShownBook, ShownEntries>>
<1>1. /\ a \in DOMAIN accounts /\ rows' = rows
      /\ accounts' = [accounts EXCEPT ![a].state = "archived"]
      /\ \A b \in DOMAIN accounts : accounts[b] \in AccountDocument
  BY TypeFacts DEF ArchiveAccount, Unlocked, IInv
<1>2. /\ DOMAIN accounts' = DOMAIN accounts
      /\ \A b \in DOMAIN accounts :
            /\ accounts'[b].initialAmount = accounts[b].initialAmount
            /\ accounts'[b].openedAt = accounts[b].openedAt
  BY <1>1 DEF AccountDocument
<1>3. ASSUME NEW b \in Account, NEW day \in Day
      PROVE  Shown(b, day)' = Shown(b, day)
  <2>1. Shown(b, day)' =
          IF b \in DOMAIN accounts' THEN Balance(accounts', rows', b, day) ELSE 0
    BY DEF Shown, IInv, SnapshotsMatchLedger
  <2>2. b \in DOMAIN accounts =>
            Balance(accounts', rows, b, day) = Balance(accounts, rows, b, day)
    BY <1>2 DEF Balance
  <2>3. QED
    BY <1>1, <1>2, <2>1, <2>2, ShownIsBalance
<1>4. QED
  BY <1>1, <1>3, SameShown

LEMMA RemoveAccountUnseen ==
    ASSUME IInv, IInv', NEW a \in Account, RemoveAccount(a)
    PROVE  UNCHANGED <<ShownBook, ShownEntries>>
<1>1. /\ a \in DOMAIN accounts /\ rows' = rows /\ accounts[a].initialAmount = 0
      /\ DOMAIN accounts' = DOMAIN accounts \ {a}
      /\ \A b \in DOMAIN accounts \ {a} : accounts'[b] = accounts[b]
      /\ \A r \in DOMAIN rows : ~Involves(rows[r], a)
  BY DEF RemoveAccount, HasHistory
<1>2. ASSUME NEW b \in Account, NEW day \in Day
      PROVE  Shown(b, day)' = Shown(b, day)
  <2>1. Shown(b, day)' =
          IF b \in DOMAIN accounts' THEN Balance(accounts', rows', b, day) ELSE 0
    BY DEF Shown, IInv, SnapshotsMatchLedger
  <2>2. CASE b = a
    <3>1. Balance(accounts, rows, a, day) = 0
      <4>1. CASE day < accounts[a].openedAt
        BY <4>1 DEF Balance
      <4>2. CASE ~(day < accounts[a].openedAt)
        BY <1>1, <4>2, BalanceWithoutRows
      <4>3. QED
        BY <4>1, <4>2
    <3>2. QED
      BY <1>1, <2>1, <2>2, <3>1, ShownIsBalance
  <2>3. CASE b # a /\ b \in DOMAIN accounts
    <3>1. Balance(accounts', rows, b, day) = Balance(accounts, rows, b, day)
      BY <1>1, <2>3, BalanceOfDocument
    <3>2. QED
      BY <1>1, <2>1, <2>3, <3>1, ShownIsBalance
  <2>4. CASE b \notin DOMAIN accounts
    BY <1>1, <2>1, <2>4, ShownIsBalance
  <2>5. QED
    BY <2>2, <2>3, <2>4
<1>3. QED
  BY <1>1, <1>2, SameShown

LEMMA NextImplements ==
    ASSUME IInv, IInv', [Next]_vars
    PROVE  [Book!Next]_(Book!vars)
<1>1. CASE AccountStep
  BY <1>1, CreateAccountOpens, ArchiveAccountUnseen, RemoveAccountUnseen
     DEF AccountStep, Book!Next, Book!vars
<1>2. CASE MovementStep
  BY <1>2, MovementMoves, RowStepImplements DEF Book!Next, RowWritten
<1>3. CASE TransferStep
  BY <1>3, TransferMoves, RowStepImplements DEF Book!Next, RowWritten
<1>4. CASE UNCHANGED vars
  <2>1. \A a \in Account, day \in Day : Shown(a, day)' = Shown(a, day)
    BY <1>4 DEF vars, Shown
  <2>2. UNCHANGED <<ShownBook, ShownEntries>>
    BY <1>4, <2>1, SameShown DEF vars
  <2>3. QED
    BY <2>2 DEF Book!vars
<1>5. QED
  BY <1>1, <1>2, <1>3, <1>4 DEF Next

LEMMA InitImplements == Init => Book!Init
<1> SUFFICES ASSUME Init
             PROVE  Book!Init
  OBVIOUS
<1>1. \A a \in Account, day \in Day : Shown(a, day) = 0
  BY DEF Init, Shown
<1>2. \A r \in Row : Entry(r) = Book!Blank
  BY DEF Init, Entry, Book!Blank
<1>3. QED
  BY <1>1, <1>2 DEF Book!Init, ShownBook, ShownEntries

(* Every behaviour of the services is one of the account book.             *)
THEOREM LedgerImplementsBook == Spec => ImplementsBook
<1>1. IInv /\ IInv' /\ [Next]_vars => [Book!Next]_(Book!vars)
  BY NextImplements
<1>2. QED
  BY <1>1, InitImplements, LedgerInvariant, PTL DEF Spec, ImplementsBook, Book!Spec

-----------------------------------------------------------------------------
(* A transfer inside a currency moves money and makes none.                *)

(* A stored transfer has two accounts, and between accounts of one         *)
(* currency it brings the one what it takes from the other.                *)
SoundRow(row) ==
    row.type = "transfer" =>
        /\ row.account # row.destination
        /\ ValidAmounts(row.account, row.destination, row.amount, row.received)

TransfersSound == \A r \in DOMAIN rows : SoundRow(rows[r])

(* Accounts keep their currency as long as a row moves money on them.      *)
LEMMA AccountStepKeepsSound ==
    ASSUME IInv, TransfersSound, AccountStep
    PROVE  TransfersSound'
<1>1. PICK a \in Account :
        \/ \E c \in Currency, amount \in 0 .. MaxAmount, d \in Day :
                CreateAccount(a, c, amount, d)
        \/ ArchiveAccount(a)
        \/ RemoveAccount(a)
  BY DEF AccountStep
<1>2. rows' = rows
  BY <1>1 DEF CreateAccount, ArchiveAccount, RemoveAccount
<1>3. ASSUME NEW b \in Account, NEW r \in DOMAIN rows, Involves(rows[r], b)
      PROVE  accounts'[b].currency = accounts[b].currency
  <2>1. b \in DOMAIN accounts
    BY <1>3 DEF IInv, ReferencesHold
  <2>2. ASSUME NEW c \in Currency, NEW amount \in 0 .. MaxAmount, NEW d \in Day,
               CreateAccount(a, c, amount, d)
        PROVE  accounts'[b] = accounts[b]
    BY <2>1, <2>2 DEF CreateAccount, Put
  <2>3. CASE ArchiveAccount(a)
    <3>1. accounts[b] \in AccountDocument /\ accounts[a] \in AccountDocument
      BY <2>1, <2>3, TypeFacts DEF ArchiveAccount, Unlocked, IInv
    <3>2. QED
      BY <2>1, <2>3, <3>1 DEF ArchiveAccount, AccountDocument
  <2>4. CASE RemoveAccount(a)
    BY <1>3, <2>1, <2>4 DEF RemoveAccount, HasHistory
  <2>5. QED
    BY <1>1, <2>2, <2>3, <2>4
<1>4. ASSUME NEW r \in DOMAIN rows, rows[r].type = "transfer"
      PROVE  SoundRow(rows[r])'
  <2>1. /\ rows[r].account \in Account /\ rows[r].destination \in Account
        /\ Involves(rows[r], rows[r].account) /\ Involves(rows[r], rows[r].destination)
    BY <1>4, TypeFacts DEF IInv, Involves
  <2>2. /\ accounts'[rows[r].account].currency = accounts[rows[r].account].currency
        /\ accounts'[rows[r].destination].currency = accounts[rows[r].destination].currency
    BY <1>3, <2>1
  <2>3. SoundRow(rows[r])
    BY DEF TransfersSound
  <2>4. QED
    BY <1>2, <1>4, <2>2, <2>3 DEF SoundRow, ValidAmounts
<1>5. QED
  BY <1>2, <1>4 DEF TransfersSound, SoundRow

(* A write of row r keeps the others sound.                                *)
LEMMA RowWriteKeepsSound ==
    ASSUME TransfersSound, NEW r \in Row, Writes(r, rows, rows'), accounts' = accounts,
           NEW row, rows'[r] = row, SoundRow(row)
    PROVE  TransfersSound'
<1>1. ASSUME NEW x \in DOMAIN rows'
      PROVE  SoundRow(rows'[x])
  BY DEF TransfersSound, Writes
<1>2. \A x \in DOMAIN rows' : SoundRow(rows[x])'
  BY <1>1 DEF SoundRow, ValidAmounts
<1>3. QED
  BY <1>2 DEF TransfersSound

LEMMA MovementKeepsSound ==
    ASSUME IInv, TransfersSound, MovementStep
    PROVE  TransfersSound'
<1>1. PICK r \in Row :
        \/ \E a \in Account, amount \in Amount, d \in Day :
                \/ CreateIncome(r, a, amount, d)
                \/ CreateExpense(r, a, amount, d)
        \/ \E amount \in Amount : UpdateTransaction(r, amount)
        \/ DeleteTransaction(r)
  BY DEF MovementStep
<1>2. ASSUME NEW a \in Account, NEW amount \in Amount, NEW d \in Day,
             NEW type \in {"income", "expense"}, CreateMovement(r, type, a, amount, d)
      PROVE  Writes(r, rows, rows') /\ rows'[r].type # "transfer" /\ accounts' = accounts
  BY <1>2 DEF CreateMovement, Put, Writes
<1>3. ASSUME IsMovement(r), NEW row, rows' = [rows EXCEPT ![r] = row],
             row.type = rows[r].type
      PROVE  Writes(r, rows, rows') /\ rows'[r].type # "transfer"
  BY <1>3 DEF IsMovement, IsActive, Writes
<1>4. Writes(r, rows, rows') /\ rows'[r].type # "transfer" /\ accounts' = accounts
  <2>1. ASSUME NEW amount \in Amount, UpdateTransaction(r, amount)
        PROVE  Writes(r, rows, rows') /\ rows'[r].type # "transfer" /\ accounts' = accounts
    <3>1. r \in DOMAIN rows /\ rows[r] \in RowDocument
      BY <2>1, TypeFacts DEF UpdateTransaction, IsMovement, IsActive, IInv
    <3>2. PICK row : row = [rows[r] EXCEPT !.amount = amount, !.received = amount]
      OBVIOUS
    <3>3. row.type = rows[r].type
      BY <3>1, <3>2 DEF RowDocument
    <3>4. rows' = [rows EXCEPT ![r] = row] /\ IsMovement(r) /\ accounts' = accounts
      BY <2>1, <3>2 DEF UpdateTransaction
    <3>5. QED
      BY <1>3, <3>3, <3>4
  <2>2. CASE DeleteTransaction(r)
    <3>1. r \in DOMAIN rows /\ rows[r] \in RowDocument
      BY <2>2, TypeFacts DEF DeleteTransaction, IsMovement, IsActive, IInv
    <3>2. PICK row : row = [rows[r] EXCEPT !.state = "deleted"]
      OBVIOUS
    <3>3. row.type = rows[r].type
      BY <3>1, <3>2 DEF RowDocument
    <3>4. rows' = [rows EXCEPT ![r] = row] /\ IsMovement(r) /\ accounts' = accounts
      BY <2>2, <3>2 DEF DeleteTransaction
    <3>5. QED
      BY <1>3, <3>3, <3>4
  <2>3. QED
    BY <1>1, <1>2, <2>1, <2>2 DEF CreateIncome, CreateExpense
<1>5. SoundRow(rows'[r])
  BY <1>4 DEF SoundRow
<1>6. QED
  BY <1>4, <1>5, RowWriteKeepsSound

LEMMA TransferKeepsSound ==
    ASSUME IInv, TransfersSound, TransferStep
    PROVE  TransfersSound'
<1>1. PICK r \in Row :
        \/ \E s, t \in Account, amount, received \in Amount, d \in Day :
                CreateTransfer(r, s, t, amount, received, d)
        \/ \E amount, received \in Amount : UpdateTransfer(r, amount, received)
        \/ DeleteTransfer(r)
  BY DEF TransferStep
<1>2. ASSUME NEW s \in Account, NEW t \in Account, NEW amount \in Amount,
             NEW received \in Amount, NEW d \in Day,
             CreateTransfer(r, s, t, amount, received, d)
      PROVE  TransfersSound'
  <2>1. PICK row : row = [state |-> "active", type |-> "transfer", account |-> s,
                          amount |-> amount, destination |-> t,
                          received |-> received, date |-> d]
    OBVIOUS
  <2>2. SoundRow(row)
    BY <1>2, <2>1 DEF CreateTransfer, SoundRow
  <2>3. Writes(r, rows, rows') /\ rows'[r] = row /\ accounts' = accounts
    BY <1>2, <2>1 DEF CreateTransfer, Put, Writes
  <2>4. QED
    BY <2>2, <2>3, RowWriteKeepsSound
<1>3. ASSUME NEW amount \in Amount, NEW received \in Amount,
             UpdateTransfer(r, amount, received)
      PROVE  TransfersSound'
  <2>1. r \in DOMAIN rows /\ rows[r] \in RowDocument /\ SoundRow(rows[r])
    BY <1>3, TypeFacts
       DEF UpdateTransfer, IsTransfer, IsActive, IInv, TransfersSound
  <2>2. PICK row : row = [rows[r] EXCEPT !.amount = amount, !.received = received]
    OBVIOUS
  <2>3. /\ row.type = rows[r].type /\ row.account = rows[r].account
        /\ row.destination = rows[r].destination
        /\ row.amount = amount /\ row.received = received
    BY <2>1, <2>2 DEF RowDocument
  <2>4. SoundRow(row)
    BY <1>3, <2>1, <2>3 DEF UpdateTransfer, SoundRow
  <2>5. Writes(r, rows, rows') /\ rows'[r] = row /\ accounts' = accounts
    BY <1>3, <2>1, <2>2 DEF UpdateTransfer, Writes
  <2>6. QED
    BY <2>4, <2>5, RowWriteKeepsSound
<1>4. CASE DeleteTransfer(r)
  <2>1. r \in DOMAIN rows /\ rows[r] \in RowDocument /\ SoundRow(rows[r])
    BY <1>4, TypeFacts
       DEF DeleteTransfer, IsTransfer, IsActive, IInv, TransfersSound
  <2>2. PICK row : row = [rows[r] EXCEPT !.state = "deleted"]
    OBVIOUS
  <2>3. SoundRow(row)
    BY <2>1, <2>2 DEF RowDocument, SoundRow
  <2>4. Writes(r, rows, rows') /\ rows'[r] = row /\ accounts' = accounts
    BY <1>4, <2>1, <2>2 DEF DeleteTransfer, Writes
  <2>5. QED
    BY <2>3, <2>4, RowWriteKeepsSound
<1>5. QED
  BY <1>1, <1>2, <1>3, <1>4

LEMMA NextKeepsSound ==
    ASSUME IInv, TransfersSound, [Next]_vars
    PROVE  TransfersSound'
<1>1. CASE UNCHANGED vars
  BY <1>1 DEF vars, TransfersSound, SoundRow, ValidAmounts
<1>2. QED
  BY <1>1, AccountStepKeepsSound, MovementKeepsSound, TransferKeepsSound DEF Next

(* Every stored transfer stays sound, whatever becomes of its accounts.    *)
THEOREM TransfersStaySound == Spec => []TransfersSound
<1>1. Init => TransfersSound
  BY DEF Init, TransfersSound
<1>2. IInv /\ TransfersSound /\ [Next]_vars => TransfersSound'
  BY NextKeepsSound
<1>3. QED
  BY <1>1, <1>2, LedgerInvariant, PTL DEF Spec

(* A step that writes a transfer inside a currency leaves what its two     *)
(* accounts hold together, and every other balance, as they were on every  *)
(* day.                                                                    *)
Inside(row) ==
    /\ row.type = "transfer"
    /\ accounts[row.account].currency = accounts[row.destination].currency

ConservingStep ==
    \A r \in DOMAIN rows' :
        Inside(rows'[r]) /\ ~(r \in DOMAIN rows /\ rows'[r] = rows[r]) =>
            LET s == rows'[r].account
                t == rows'[r].destination
            IN  \A day \in Day :
                /\ Balance(accounts', rows', s, day) + Balance(accounts', rows', t, day)
                    = Balance(accounts, rows, s, day) + Balance(accounts, rows, t, day)
                /\ \A a \in DOMAIN accounts \ {s, t} :
                    Balance(accounts', rows', a, day) = Balance(accounts, rows, a, day)

(* What a sound transfer inside a currency posts adds up to nothing.       *)
LEMMA InsideAddsUp ==
    ASSUME NEW row \in RowDocument, Inside(row), SoundRow(row)
    PROVE  /\ Credit(row, row.account) - Debit(row, row.account) = 0 - row.amount
           /\ Credit(row, row.destination) - Debit(row, row.destination) = row.amount
           /\ row.amount \in Int
           /\ Involves(row, row.account) /\ Involves(row, row.destination)
<1>1. row.amount \in Int /\ row.received = row.amount /\ row.account # row.destination
  BY DEF RowDocument, Amount, Inside, SoundRow, ValidAmounts
<1>2. /\ Credit(row, row.account) = 0 /\ Debit(row, row.account) = row.amount
      /\ Credit(row, row.destination) = row.amount /\ Debit(row, row.destination) = 0
  BY <1>1 DEF Inside, Credit, Debit
<1>3. QED
  BY <1>1, <1>2 DEF Involves, Inside

LEMMA RowStepConserves ==
    ASSUME IInv, TransfersSound, IInv', TransfersSound',
           NEW r \in Row, NEW legs \in SUBSET Account, RowStep(r, legs), SameLegs(r)
    PROVE  ConservingStep
<1>1. /\ accounts' = accounts /\ Writes(r, rows, rows') /\ r \in DOMAIN rows'
      /\ \A a \in DOMAIN accounts : a \in Account
      /\ \A x \in DOMAIN rows' : rows'[x] \in RowDocument
      /\ \A x \in DOMAIN rows : rows[x] \in RowDocument
      /\ rows'[r].date \in Int
  BY TypeFacts, LedgerAssumption
     DEF RowStep, Writes, IInv, TypeOK, IsCollection, RowDocument
<1> SUFFICES ASSUME Inside(rows'[r]), NEW day \in Day
             PROVE  LET s == rows'[r].account
                        t == rows'[r].destination
                    IN  /\ Balance(accounts, rows', s, day) + Balance(accounts, rows', t, day)
                            = Balance(accounts, rows, s, day) + Balance(accounts, rows, t, day)
                        /\ \A a \in DOMAIN accounts \ {s, t} :
                            Balance(accounts, rows', a, day) = Balance(accounts, rows, a, day)
  BY <1>1 DEF ConservingStep, Writes
<1>2. PICK s, t : s = rows'[r].account /\ t = rows'[r].destination
  OBVIOUS
<1>3. PICK row, before : row = rows'[r] /\ before = IF r \in DOMAIN rows THEN rows[r] ELSE row
  OBVIOUS
<1>4. /\ row \in RowDocument /\ Inside(row) /\ SoundRow(row)
      /\ row.account = s /\ row.destination = t /\ row.type = "transfer"
  <2>1. SoundRow(rows'[r])
    BY <1>1 DEF TransfersSound, SoundRow, ValidAmounts
  <2>2. QED
    BY <1>1, <1>2, <1>3, <2>1 DEF Inside
<1>5. /\ before \in RowDocument /\ Inside(before) /\ SoundRow(before)
      /\ before.account = s /\ before.destination = t /\ before.type = "transfer"
  <2>1. CASE r \in DOMAIN rows
    <3>1. before = rows[r] /\ SoundRow(before)
      BY <1>3, <2>1 DEF TransfersSound
    <3>2. QED
      BY <1>1, <1>2, <1>3, <1>4, <2>1, <3>1 DEF SameLegs, Inside
  <2>2. CASE r \notin DOMAIN rows
    BY <1>3, <1>4, <2>2
  <2>3. QED
    BY <2>1, <2>2
<1>6. /\ s \in DOMAIN accounts /\ t \in DOMAIN accounts
      /\ s \in Account /\ t \in Account
      /\ \A a \in Account : Involves(row, a) <=> a \in legs
  <2>1. Involves(row, s) /\ Involves(row, t) /\ s \in Account /\ t \in Account
    BY <1>4 DEF Involves, RowDocument
  <2>2. \A a \in Account : Involves(row, a) <=> a \in legs
    BY <1>3 DEF RowStep
  <2>3. legs \subseteq DOMAIN accounts
    BY DEF RowStep
  <2>4. QED
    BY <2>1, <2>2, <2>3
<1>7. ASSUME NEW a \in DOMAIN accounts
      PROVE  /\ Balance(accounts, rows', a, day) =
                  IF day < rows'[r].date THEN Balance(accounts, rows, a, day)
                  ELSE Balance(accounts, rows, a, day) + Posted(r, a)' - Posted(r, a)
             /\ Balance(accounts, rows, a, day) \in Int
  <2>1. a \in Account /\ accounts[a].initialAmount \in Int /\ DOMAIN rows \subseteq Row
    BY TypeFacts DEF IInv
  <2>2. Shown(a, day)' = IF day < rows'[r].date THEN Shown(a, day)
                         ELSE Shown(a, day) + Posted(r, a)' - Posted(r, a)
    BY <2>1, RowStepMoves
  <2>3. Shown(a, day)' = Balance(accounts', rows', a, day)
    BY <1>1 DEF Shown, IInv, SnapshotsMatchLedger
  <2>4. QED
    BY <1>1, <2>1, <2>2, <2>3, ShownIsBalance, BalanceType
<1>8. ASSUME NEW a \in Account
      PROVE  /\ Posted(r, a) =
                  IF r \in DOMAIN rows /\ before.state = "active" /\ Involves(before, a)
                  THEN Credit(before, a) - Debit(before, a) ELSE 0
             /\ Posted(r, a)' =
                  IF row.state = "active" /\ Involves(row, a)
                  THEN Credit(row, a) - Debit(row, a) ELSE 0
  <2>1. r \in DOMAIN rows => before = rows[r]
    BY <1>3
  <2>2. Entry(r)'.state = row.state
    BY <1>1, <1>3 DEF Entry
  <2>3. Entry(r)'.moved[a] = IF Involves(row, a) THEN Credit(row, a) - Debit(row, a) ELSE 0
    BY <1>1, <1>3 DEF Entry
  <2>4. Posted(r, a)' = IF row.state = "active" /\ Involves(row, a)
                        THEN Credit(row, a) - Debit(row, a) ELSE 0
    BY <2>2, <2>3 DEF Posted, Book!Moved
  <2>5. QED
    BY <2>1, <2>4, PostedIs
<1>9. /\ Posted(r, s) \in Int /\ Posted(r, s)' \in Int
      /\ Posted(r, t) = 0 - Posted(r, s) /\ Posted(r, t)' = 0 - Posted(r, s)'
  <2>1. /\ Credit(row, s) - Debit(row, s) = 0 - row.amount
        /\ Credit(row, t) - Debit(row, t) = row.amount /\ row.amount \in Int
        /\ Involves(row, s) /\ Involves(row, t)
    BY <1>4, InsideAddsUp
  <2>2. /\ Credit(before, s) - Debit(before, s) = 0 - before.amount
        /\ Credit(before, t) - Debit(before, t) = before.amount /\ before.amount \in Int
        /\ Involves(before, s) /\ Involves(before, t)
    BY <1>5, InsideAddsUp
  <2>3. /\ Posted(r, s) = IF r \in DOMAIN rows /\ before.state = "active"
                          THEN 0 - before.amount ELSE 0
        /\ Posted(r, t) = IF r \in DOMAIN rows /\ before.state = "active"
                          THEN before.amount ELSE 0
    BY <1>6, <1>8, <2>2
  <2>4. /\ Posted(r, s)' = IF row.state = "active" THEN 0 - row.amount ELSE 0
        /\ Posted(r, t)' = IF row.state = "active" THEN row.amount ELSE 0
    BY <1>6, <1>8, <2>1
  <2>5. QED
    BY <2>1, <2>2, <2>3, <2>4
<1>10. Balance(accounts, rows', s, day) + Balance(accounts, rows', t, day)
        = Balance(accounts, rows, s, day) + Balance(accounts, rows, t, day)
  BY <1>6, <1>7, <1>9
<1>11. ASSUME NEW a \in DOMAIN accounts \ {s, t}
       PROVE  Balance(accounts, rows', a, day) = Balance(accounts, rows, a, day)
  <2>1. a \in Account /\ ~Involves(row, a) /\ ~Involves(before, a)
    BY <1>1, <1>4, <1>5 DEF Involves
  <2>2. Posted(r, a) = 0 /\ Posted(r, a)' = 0
    BY <1>8, <2>1
  <2>3. QED
    BY <1>7, <2>2
<1>12. QED
  BY <1>2, <1>10, <1>11

LEMMA NextConserves ==
    ASSUME IInv, TransfersSound, IInv', TransfersSound', [Next]_vars
    PROVE  [ConservingStep]_vars
<1>1. CASE AccountStep
  <2>1. rows' = rows
    BY <1>1 DEF AccountStep, CreateAccount, ArchiveAccount, RemoveAccount
  <2>2. QED
    BY <2>1 DEF ConservingStep
<1>2. CASE MovementStep
  BY <1>2, MovementMoves, RowStepConserves DEF RowWritten
<1>3. CASE TransferStep
  BY <1>3, TransferMoves, RowStepConserves DEF RowWritten
<1>4. QED
  BY <1>1, <1>2, <1>3 DEF Next

(* A transfer inside a currency, created, edited or deleted, makes no      *)
(* money and loses none: this is the step of MoneyConserved that transfers *)
(* make.                                                                   *)
THEOREM TransfersConserve == Spec => [][ConservingStep]_vars
<1>1. /\ IInv /\ TransfersSound /\ IInv' /\ TransfersSound' /\ [Next]_vars
      => [ConservingStep]_vars
  BY NextConserves
<1>2. QED
  BY <1>1, LedgerInvariant, TransfersStaySound, PTL DEF Spec

=============================================================================
