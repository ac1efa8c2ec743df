---------------------------- MODULE ReportsProofs ----------------------------
(***************************************************************************)
(* Theorems of Ledger and Reports on sums of money: the balances of a      *)
(* currency add up to what was opened with and brought in, and so do the   *)
(* lines of a report.  Both are consequences of the invariants that        *)
(* LedgerProofs establishes.                                               *)
(*                                                                         *)
(* The first part is about SumFunction itself.  Its fold is a recursive    *)
(* function, so what it computes is found by induction on finite sets;     *)
(* the induction is carried out by hand, on a smallest set for which a     *)
(* fact would fail (SmallestSet).                                          *)
(***************************************************************************)
EXTENDS LedgerProofs, Reports, WellFoundedInduction

(* Induction on finite sets: a set of subsets has a smallest one, and a    *)
(* property that fails for some subset fails for a smallest one.           *)
LEMMA SmallestSet ==
    ASSUME NEW S, IsFiniteSet(S), NEW T, \A X \in T : X \subseteq S, T # {}
    PROVE  \E X \in T : \A Y \in T : Y \subseteq X => Y = X
<1>1. FiniteSubsetsOf(S) = SUBSET S
  BY FS_FiniteSubsetsOfFinite
<1>2. IsWellFoundedOn(StrictSubsetOrdering(S), SUBSET S)
  BY <1>1, FS_StrictSubsetOrderingWellFounded
<1>3. PICK X \in T : \A Y \in T : ~(<<Y, X>> \in StrictSubsetOrdering(S))
  <2>1. T \subseteq SUBSET S
    OBVIOUS
  <2>2. QED
    BY <1>2, <2>1, WFMin
<1>4. QED
  BY <1>3 DEF StrictSubsetOrdering

LEMMA SmallestNumber ==
    ASSUME NEW N \in Nat, NEW T \in SUBSET (0 .. N), T # {}
    PROVE  \E n \in T : \A m \in T : n <= m
<1>1. PICK below : below = {0 .. n : n \in T}
  OBVIOUS
<1>2. below # {} /\ \A X \in below : X \subseteq 0 .. N
  <2>1. \A n \in T : 0 .. n \subseteq 0 .. N
    OBVIOUS
  <2>2. \A n \in T : 0 .. n \in below
    BY <1>1
  <2>3. QED
    BY <1>1, <2>1, <2>2
<1>3. \E X \in below : \A Y \in below : Y \subseteq X => Y = X
  <2>1. IsFiniteSet(0 .. N)
    BY FS_Interval
  <2>2. QED
    BY <1>2, <2>1, SmallestSet
<1>4. PICK n \in T : \A Y \in below : Y \subseteq 0 .. n => Y = 0 .. n
  BY <1>1, <1>3
<1>5. ASSUME NEW m \in T
      PROVE  n <= m
  <2>1. 0 .. m \in below
    BY <1>1
  <2>2. m < n => 0 .. m \subseteq 0 .. n /\ n \notin 0 .. m /\ n \in 0 .. n
    OBVIOUS
  <2>3. ~(m < n)
    BY <1>4, <2>1, <2>2
  <2>4. QED
    BY <2>3
<1>6. QED
  BY <1>5

-----------------------------------------------------------------------------
(* The sum of a function over a finite set is what the fold computes.      *)

Sum(f, S) == SumFunctionOnSet(f, S)

First(s) == CHOOSE x \in s : TRUE

FoldStep(f, g, S) ==
    [s \in SUBSET S |-> IF s = {} THEN 0 ELSE f[First(s)] + g[s \ {First(s)}]]

Fold(f, S) == CHOOSE g : g = FoldStep(f, g, S)

LEMMA SumIsFold ==
    ASSUME NEW f, NEW S
    PROVE  Sum(f, S) = Fold(f, S)[S]
BY DEF Sum, SumFunctionOnSet, FoldFunctionOnSet, MapThenFoldSet, Fold, FoldStep, First

Numeric(f, S) == IsFiniteSet(S) /\ \A x \in S : f[x] \in Int

(* The recursion of the fold has a solution: from one that is right for    *)
(* sets of n elements one obtains one that is right for n + 1.             *)
LEMMA FoldExists ==
    ASSUME NEW f, NEW S, Numeric(f, S)
    PROVE  \E g : g = FoldStep(f, g, S)
<1> DEFINE N == Cardinality(S)
           Right(g, n) == \A s \in SUBSET S :
                Cardinality(s) <= n => g[s] = FoldStep(f, g, S)[s]
           bad == {n \in 0 .. N : ~\E g \in [SUBSET S -> Int] : Right(g, n)}
<1>1. /\ N \in Nat
      /\ \A s \in SUBSET S : /\ IsFiniteSet(s) /\ Cardinality(s) \in Nat
                             /\ Cardinality(s) <= N /\ (Cardinality(s) = 0 <=> s = {})
  BY FS_CardinalityType, FS_Subset, FS_EmptySet DEF Numeric
<1>2. \A s \in SUBSET S : s # {} => First(s) \in s
  BY DEF First
<1>3. \A s \in SUBSET S : s # {} =>
            /\ s \ {First(s)} \in SUBSET S
            /\ Cardinality(s \ {First(s)}) = Cardinality(s) - 1
  BY <1>1, <1>2, FS_RemoveElement
<1>4. ASSUME NEW g \in [SUBSET S -> Int]
      PROVE  FoldStep(f, g, S) \in [SUBSET S -> Int]
  <2>1. \A s \in SUBSET S : s # {} => f[First(s)] \in Int /\ g[s \ {First(s)}] \in Int
    BY <1>2, <1>3 DEF Numeric
  <2>2. QED
    BY <2>1 DEF FoldStep
<1>5. 0 \notin bad
  <2>1. PICK g : g = [s \in SUBSET S |-> 0]
    OBVIOUS
  <2>2. Right(g, 0)
    BY <1>1, <2>1 DEF FoldStep
  <2>3. g \in [SUBSET S -> Int]
    BY <2>1
  <2>4. QED
    BY <2>2, <2>3
<1>6. ASSUME NEW n \in 0 .. N, n \notin bad
      PROVE  n + 1 \notin bad
  <2>1. PICK g \in [SUBSET S -> Int] : Right(g, n)
    BY <1>6
  <2>2. PICK h : h = FoldStep(f, g, S)
    OBVIOUS
  <2>3. h \in [SUBSET S -> Int]
    BY <1>4, <2>2
  <2>4. ASSUME NEW s \in SUBSET S, Cardinality(s) <= n + 1
        PROVE  h[s] = FoldStep(f, h, S)[s]
    <3>1. CASE s = {}
      BY <2>2, <3>1 DEF FoldStep
    <3>2. CASE s # {}
      <4>1. PICK t : t = s \ {First(s)}
        OBVIOUS
      <4>2. t \in SUBSET S /\ Cardinality(t) <= n
        BY <1>1, <1>3, <2>4, <3>2, <4>1
      <4>3. h[t] = g[t]
        BY <2>1, <2>2, <4>2
      <4>4. h[s] = f[First(s)] + g[t] /\ FoldStep(f, h, S)[s] = f[First(s)] + h[t]
        BY <2>2, <3>2, <4>1 DEF FoldStep
      <4>5. QED
        BY <4>3, <4>4
    <3>3. QED
      BY <3>1, <3>2
  <2>5. QED
    BY <2>3, <2>4
<1> HIDE DEF bad
<1>7. bad = {}
  <2> SUFFICES ASSUME bad # {}
               PROVE  FALSE
    OBVIOUS
  <2>1. bad \in SUBSET (0 .. N)
    BY DEF bad
  <2>2. PICK n \in bad : \A m \in bad : n <= m
    BY <1>1, <2>1, SmallestNumber
  <2>3. n - 1 \in 0 .. N /\ n - 1 \notin bad
    BY <1>1, <1>5, <2>1, <2>2
  <2>4. (n - 1) + 1 = n
    BY <2>1
  <2>5. QED
    BY <1>6, <2>3, <2>4
<1>8. PICK g \in [SUBSET S -> Int] : Right(g, N)
  <2>1. N \in 0 .. N /\ N \notin bad
    BY <1>1, <1>7
  <2>2. QED
    BY <2>1 DEF bad
<1>9. \A s \in SUBSET S : g[s] = FoldStep(f, g, S)[s]
  BY <1>1, <1>8
<1>10. g = FoldStep(f, g, S)
  <2>1. FoldStep(f, g, S) \in [SUBSET S -> Int]
    BY <1>4
  <2>2. QED
    BY <1>9, <2>1
<1>11. QED
  BY <1>10

LEMMA FoldIsSolution ==
    ASSUME NEW f, NEW S, Numeric(f, S)
    PROVE  Fold(f, S) = FoldStep(f, Fold(f, S), S)
BY FoldExists DEF Fold

LEMMA FirstIsIn ==
    ASSUME NEW s, s # {}
    PROVE  First(s) \in s
BY DEF First

LEMMA FoldAt ==
    ASSUME NEW f, NEW S, Numeric(f, S), NEW s \in SUBSET S
    PROVE  Fold(f, S)[s] =
             IF s = {} THEN 0 ELSE f[First(s)] + Fold(f, S)[s \ {First(s)}]
<1>1. PICK g : g = Fold(f, S)
  OBVIOUS
<1>2. g = FoldStep(f, g, S)
  BY <1>1, FoldIsSolution
<1>3. FoldStep(f, g, S)[s] = IF s = {} THEN 0 ELSE f[First(s)] + g[s \ {First(s)}]
  BY DEF FoldStep
<1>4. QED
  BY <1>1, <1>2, <1>3

LEMMA FoldType ==
    ASSUME NEW f, NEW S, Numeric(f, S), NEW s \in SUBSET S
    PROVE  Fold(f, S)[s] \in Int
<1> DEFINE bad == {t \in SUBSET S : Fold(f, S)[t] \notin Int}
<1> SUFFICES ASSUME bad # {}
             PROVE  FALSE
  OBVIOUS
<1>1. IsFiniteSet(S) /\ \A t \in bad : t \subseteq S
  BY DEF Numeric
<1>2. PICK t \in bad : \A u \in bad : u \subseteq t => u = t
  <2> HIDE DEF bad
  <2>1. QED
    BY <1>1, SmallestSet
<1>3. t \in SUBSET S /\ t # {}
  <2>1. t \in SUBSET S /\ Fold(f, S)[t] \notin Int
    OBVIOUS
  <2>2. t = {} => Fold(f, S)[t] = 0
    BY <2>1, FoldAt
  <2>3. QED
    BY <2>1, <2>2
<1>4. First(t) \in t
  BY <1>3, FirstIsIn
<1>5. PICK u : u = t \ {First(t)}
  OBVIOUS
<1>6. u \in SUBSET S /\ u \subseteq t /\ u # t
  BY <1>4, <1>5
<1>7. Fold(f, S)[u] \in Int
  BY <1>2, <1>6
<1>8. Fold(f, S)[t] = f[First(t)] + Fold(f, S)[u]
  <2>1. Fold(f, S)[t] = IF t = {} THEN 0 ELSE f[First(t)] + Fold(f, S)[t \ {First(t)}]
    BY <1>3, FoldAt
  <2>2. QED
    BY <1>3, <1>5, <2>1
<1>9. f[First(t)] \in Int
  BY <1>4 DEF Numeric
<1>10. QED
  BY <1>7, <1>8, <1>9

LEMMA NumericSubset ==
    ASSUME NEW f, NEW S, Numeric(f, S), NEW T \in SUBSET S
    PROVE  Numeric(f, T)
BY FS_Subset DEF Numeric

(* The folds over a set and over a subset of it agree.                     *)
LEMMA FoldLocal ==
    ASSUME NEW f, NEW S, Numeric(f, S), NEW T \in SUBSET S, NEW s \in SUBSET T
    PROVE  Fold(f, T)[s] = Fold(f, S)[s]
<1> DEFINE bad == {t \in SUBSET T : Fold(f, T)[t] # Fold(f, S)[t]}
<1> SUFFICES ASSUME bad # {}
             PROVE  FALSE
  OBVIOUS
<1>1. Numeric(f, T) /\ IsFiniteSet(T) /\ \A t \in bad : t \subseteq T
  BY NumericSubset DEF Numeric
<1>2. PICK t \in bad : \A u \in bad : u \subseteq t => u = t
  <2> HIDE DEF bad
  <2>1. QED
    BY <1>1, SmallestSet
<1>3. t \in SUBSET S /\ t \in SUBSET T
  OBVIOUS
<1>4. t # {}
  BY <1>1, <1>3, FoldAt
<1>5. First(t) \in t
  BY <1>4, FirstIsIn
<1>6. PICK u : u = t \ {First(t)}
  OBVIOUS
<1>7. u \in SUBSET T /\ u \subseteq t /\ u # t
  BY <1>5, <1>6
<1>8. Fold(f, T)[u] = Fold(f, S)[u]
  BY <1>2, <1>7
<1>9. Fold(f, S)[t] = f[First(t)] + Fold(f, S)[u]
  BY <1>3, <1>4, <1>6, FoldAt
<1>10. Fold(f, T)[t] = f[First(t)] + Fold(f, T)[u]
  <2>1. Fold(f, T)[t] = IF t = {} THEN 0 ELSE f[First(t)] + Fold(f, T)[t \ {First(t)}]
    BY <1>1, <1>3, FoldAt
  <2>2. QED
    BY <1>4, <1>6, <2>1
<1>11. QED
  BY <1>8, <1>9, <1>10

LEMMA SumEmpty ==
    ASSUME NEW f
    PROVE  Sum(f, {}) = 0
<1>1. Numeric(f, {})
  BY FS_EmptySet DEF Numeric
<1>2. QED
  BY <1>1, SumIsFold, FoldAt

LEMMA SumType ==
    ASSUME NEW f, NEW S, Numeric(f, S)
    PROVE  Sum(f, S) \in Int
BY SumIsFold, FoldType

LEMMA SumFirst ==
    ASSUME NEW f, NEW S, Numeric(f, S), S # {}
    PROVE  Sum(f, S) = f[First(S)] + Sum(f, S \ {First(S)})
<1>1. PICK T : T = S \ {First(S)}
  OBVIOUS
<1>2. T \in SUBSET S /\ T \in SUBSET T
  BY <1>1
<1>3. Fold(f, T)[T] = Fold(f, S)[T]
  BY <1>2, FoldLocal
<1>4. Fold(f, S)[S] = f[First(S)] + Fold(f, S)[T]
  BY <1>1, FoldAt
<1>5. QED
  BY <1>1, <1>3, <1>4, SumIsFold

(* The order in which the fold takes the elements does not matter.         *)
LEMMA SumRemove ==
    ASSUME NEW f, NEW S, Numeric(f, S), NEW x \in S
    PROVE  Sum(f, S) = f[x] + Sum(f, S \ {x})
<1> DEFINE bad == {t \in SUBSET S : \E y \in t : Sum(f, t) # f[y] + Sum(f, t \ {y})}
<1> SUFFICES ASSUME bad # {}
             PROVE  FALSE
  OBVIOUS
<1>1. IsFiniteSet(S) /\ \A t \in bad : t \subseteq S
  BY DEF Numeric
<1>2. PICK t \in bad : \A u \in bad : u \subseteq t => u = t
  <2> HIDE DEF bad
  <2>1. QED
    BY <1>1, SmallestSet
<1>3. PICK y \in t : Sum(f, t) # f[y] + Sum(f, t \ {y})
  OBVIOUS
<1>4. PICK p : p = First(t)
  OBVIOUS
<1>5. p \in t /\ t \in SUBSET S /\ Numeric(f, t)
  BY <1>3, <1>4, FirstIsIn, NumericSubset
<1>6. Sum(f, t) = f[p] + Sum(f, t \ {p})
  BY <1>4, <1>5, SumFirst
<1>7. p # y
  BY <1>3, <1>6
<1>8. PICK a, b, c : a = t \ {p} /\ b = t \ {y} /\ c = t \ {p, y}
  OBVIOUS
<1>9. /\ a \in SUBSET S /\ b \in SUBSET S /\ c \in SUBSET S
      /\ a \subseteq t /\ b \subseteq t /\ a # t /\ b # t
      /\ y \in a /\ p \in b /\ a \ {y} = c /\ b \ {p} = c
  BY <1>5, <1>7, <1>8
<1>10. a \notin bad /\ b \notin bad
  BY <1>2, <1>9
<1>11. Sum(f, a) = f[y] + Sum(f, c) /\ Sum(f, b) = f[p] + Sum(f, c)
  BY <1>9, <1>10
<1>12. Numeric(f, c)
  BY <1>9, NumericSubset
<1>13. Sum(f, c) \in Int
  BY <1>12, SumType
<1>14. f[p] \in Int /\ f[y] \in Int
  BY <1>5 DEF Numeric
<1>15. QED
  BY <1>3, <1>6, <1>8, <1>11, <1>13, <1>14

-----------------------------------------------------------------------------
(* Sums of equal functions, of sums, and of functions that vanish.         *)

LEMMA SumSame ==
    ASSUME NEW f, NEW g, NEW S, Numeric(f, S), \A x \in S : g[x] = f[x]
    PROVE  Sum(g, S) = Sum(f, S)
<1> DEFINE bad == {t \in SUBSET S : Sum(g, t) # Sum(f, t)}
<1> SUFFICES ASSUME bad # {}
             PROVE  FALSE
  OBVIOUS
<1>1. IsFiniteSet(S) /\ \A t \in bad : t \subseteq S
  BY DEF Numeric
<1>2. PICK t \in bad : \A u \in bad : u \subseteq t => u = t
  <2> HIDE DEF bad
  <2>1. QED
    BY <1>1, SmallestSet
<1>3. Sum(g, t) # Sum(f, t) /\ t \in SUBSET S
  OBVIOUS
<1>4. PICK x \in t : TRUE
  BY <1>3, SumEmpty
<1>5. PICK u : u = t \ {x}
  OBVIOUS
<1>6. u \in SUBSET S /\ u \subseteq t /\ u # t /\ x \in S
  BY <1>3, <1>4, <1>5
<1>7. Sum(g, u) = Sum(f, u)
  BY <1>2, <1>6
<1>8. Numeric(f, t) /\ Numeric(g, t)
  <2>1. Numeric(g, S)
    BY DEF Numeric
  <2>2. QED
    BY <1>3, <2>1, NumericSubset
<1>9. Sum(f, t) = f[x] + Sum(f, u) /\ Sum(g, t) = g[x] + Sum(g, u)
  BY <1>4, <1>5, <1>8, SumRemove
<1>10. QED
  BY <1>3, <1>6, <1>7, <1>9

LEMMA SumPlus ==
    ASSUME NEW f, NEW g, NEW h, NEW S, Numeric(f, S), Numeric(g, S),
           \A x \in S : h[x] = f[x] + g[x]
    PROVE  Sum(h, S) = Sum(f, S) + Sum(g, S)
<1> DEFINE bad == {t \in SUBSET S : Sum(h, t) # Sum(f, t) + Sum(g, t)}
<1> SUFFICES ASSUME bad # {}
             PROVE  FALSE
  OBVIOUS
<1>1. IsFiniteSet(S) /\ \A t \in bad : t \subseteq S
  BY DEF Numeric
<1>2. PICK t \in bad : \A u \in bad : u \subseteq t => u = t
  <2> HIDE DEF bad
  <2>1. QED
    BY <1>1, SmallestSet
<1>3. Sum(h, t) # Sum(f, t) + Sum(g, t) /\ t \in SUBSET S
  OBVIOUS
<1>4. t # {}
  <2>1. Sum(h, {}) = 0 /\ Sum(f, {}) = 0 /\ Sum(g, {}) = 0
    BY SumEmpty
  <2>2. QED
    BY <1>3, <2>1
<1>5. PICK x \in t : TRUE
  BY <1>4
<1>6. PICK u : u = t \ {x}
  OBVIOUS
<1>7. u \in SUBSET S /\ u \subseteq t /\ u # t /\ x \in S
  BY <1>3, <1>5, <1>6
<1>8. Sum(h, u) = Sum(f, u) + Sum(g, u)
  BY <1>2, <1>7
<1>9. Numeric(f, t) /\ Numeric(g, t) /\ Numeric(h, t)
  <2>1. Numeric(h, S)
    BY DEF Numeric
  <2>2. QED
    BY <1>3, <2>1, NumericSubset
<1>10. /\ Sum(f, t) = f[x] + Sum(f, u) /\ Sum(g, t) = g[x] + Sum(g, u)
       /\ Sum(h, t) = h[x] + Sum(h, u)
  BY <1>5, <1>6, <1>9, SumRemove
<1>11. Numeric(f, u) /\ Numeric(g, u)
  BY <1>7, NumericSubset
<1>12. Sum(f, u) \in Int /\ Sum(g, u) \in Int
  BY <1>11, SumType
<1>13. f[x] \in Int /\ g[x] \in Int /\ h[x] = f[x] + g[x]
  BY <1>7 DEF Numeric
<1>14. QED
  BY <1>3, <1>8, <1>10, <1>12, <1>13

LEMMA SumWithoutZeros ==
    ASSUME NEW f, NEW S, Numeric(f, S), NEW T \in SUBSET S, \A x \in S \ T : f[x] = 0
    PROVE  Sum(f, S) = Sum(f, T)
<1> DEFINE bad == {t \in SUBSET S : T \subseteq t /\ Sum(f, t) # Sum(f, T)}
<1> SUFFICES ASSUME bad # {}
             PROVE  FALSE
  OBVIOUS
<1>1. IsFiniteSet(S) /\ \A t \in bad : t \subseteq S
  BY DEF Numeric
<1>2. PICK t \in bad : \A u \in bad : u \subseteq t => u = t
  <2> HIDE DEF bad
  <2>1. QED
    BY <1>1, SmallestSet
<1>3. Sum(f, t) # Sum(f, T) /\ T \subseteq t /\ t \in SUBSET S
  OBVIOUS
<1>4. PICK x \in t : x \notin T
  BY <1>3
<1>5. PICK u : u = t \ {x}
  OBVIOUS
<1>6. u \in SUBSET S /\ T \subseteq u /\ u \subseteq t /\ u # t
  BY <1>3, <1>4, <1>5
<1>7. Sum(f, u) = Sum(f, T)
  BY <1>2, <1>6
<1>8. Numeric(f, t) /\ Numeric(f, u)
  BY <1>3, <1>6, NumericSubset
<1>9. Sum(f, t) = f[x] + Sum(f, u) /\ f[x] = 0
  BY <1>3, <1>4, <1>5, <1>8, SumRemove
<1>10. Sum(f, u) \in Int
  BY <1>8, SumType
<1>11. QED
  BY <1>3, <1>7, <1>9, <1>10

(* Two tables of integers, the one the other's transpose, and what the     *)
(* rows of a table add up to.                                              *)
Transposed(F, G, S, T) ==
    \A x \in S, y \in T : F[x][y] \in Int /\ G[y][x] = F[x][y]

SumsUp(f, F, S, T) == \A x \in S : f[x] = Sum(F[x], T)

(* The order of two summations does not matter.                            *)
LEMMA SumSwap ==
    ASSUME NEW S, NEW T, NEW F, NEW G, NEW f, NEW g,
           IsFiniteSet(S), IsFiniteSet(T),
           Transposed(F, G, S, T), SumsUp(f, F, S, T), SumsUp(g, G, T, S)
    PROVE  Sum(f, S) = Sum(g, T)
<1> USE DEF Transposed, SumsUp
<1> DEFINE by(s) == [y \in T |-> Sum(G[y], s)]
           bad == {s \in SUBSET S : Sum(f, s) # Sum(by(s), T)}
<1>1. \A x \in S : Numeric(F[x], T)
  BY DEF Numeric
<1>2. \A y \in T : Numeric(G[y], S)
  BY DEF Numeric
<1>3. \A x \in S : f[x] \in Int
  BY <1>1, SumType
<1>4. Numeric(f, S)
  BY <1>3 DEF Numeric
<1>5. ASSUME NEW s \in SUBSET S
      PROVE  Numeric(by(s), T)
  <2>1. \A y \in T : Sum(G[y], s) \in Int
    BY <1>2, NumericSubset, SumType
  <2>2. QED
    BY <2>1 DEF Numeric
<1>6. bad = {}
  <2> SUFFICES ASSUME bad # {}
               PROVE  FALSE
    OBVIOUS
  <2>1. \A s \in bad : s \subseteq S
    OBVIOUS
  <2>2. PICK s \in bad : \A u \in bad : u \subseteq s => u = s
    <3> HIDE DEF bad
    <3>1. QED
      BY <2>1, SmallestSet
  <2>3. Sum(f, s) # Sum(by(s), T) /\ s \in SUBSET S
    OBVIOUS
  <2>4. s # {}
    <3>1. Sum(by({}), T) = Sum(by({}), {})
      <4>1. \A y \in T : by({})[y] = 0
        BY SumEmpty
      <4>2. {} \in SUBSET T /\ {} \in SUBSET S
        OBVIOUS
      <4>3. Numeric(by({}), T)
        BY <1>5, <4>2
      <4> HIDE DEF by
      <4>4. QED
        BY <4>1, <4>2, <4>3, SumWithoutZeros
    <3>2. Sum(by({}), {}) = 0 /\ Sum(f, {}) = 0
      BY SumEmpty
    <3>3. QED
      BY <2>3, <3>1, <3>2
  <2>5. PICK x \in s : TRUE
    BY <2>4
  <2>6. PICK u : u = s \ {x}
    OBVIOUS
  <2>7. u \in SUBSET S /\ u \subseteq s /\ u # s /\ x \in S
    BY <2>3, <2>5, <2>6
  <2>8. Sum(f, u) = Sum(by(u), T)
    BY <2>2, <2>7
  <2>9. Sum(f, s) = f[x] + Sum(f, u)
    <3>1. Numeric(f, s)
      BY <1>4, <2>3, NumericSubset
    <3>2. QED
      BY <2>5, <2>6, <3>1, SumRemove
  <2>10. \A y \in T : by(s)[y] = F[x][y] + by(u)[y]
    <3>1. ASSUME NEW y \in T
          PROVE  Sum(G[y], s) = G[y][x] + Sum(G[y], u)
      <4>1. Numeric(G[y], s)
        BY <1>2, <2>3, NumericSubset
      <4>2. QED
        BY <2>5, <2>6, <4>1, SumRemove
    <3>2. QED
      BY <2>7, <3>1
  <2>11. Numeric(by(u), T) /\ Numeric(F[x], T)
    BY <1>1, <1>5, <2>7
  <2> HIDE DEF by
  <2>12. Sum(by(s), T) = Sum(F[x], T) + Sum(by(u), T)
    BY <2>10, <2>11, SumPlus
  <2>13. QED
    BY <2>3, <2>7, <2>8, <2>9, <2>12
<1>7. Sum(f, S) = Sum(by(S), T)
  BY <1>6
<1>8. Sum(by(S), T) = Sum(g, T)
  <2>1. \A y \in T : by(S)[y] = g[y]
    OBVIOUS
  <2>2. Numeric(by(S), T)
    BY <1>5
  <2> HIDE DEF by
  <2>3. QED
    BY <2>1, <2>2, SumSame
<1>9. QED
  BY <1>7, <1>8

LEMMA SumOfFunction ==
    ASSUME NEW f, NEW S, DOMAIN f = S
    PROVE  SumFunction(f) = Sum(f, S)
BY DEF SumFunction, Sum

(* A function that vanishes outside one point.                             *)
LEMMA SumPoint ==
    ASSUME NEW f, NEW S, IsFiniteSet(S), NEW p, NEW v \in Int,
           \A x \in S : f[x] = IF x = p THEN v ELSE 0
    PROVE  Sum(f, S) = IF p \in S THEN v ELSE 0
<1>1. Numeric(f, S)
  BY DEF Numeric
<1>2. CASE p \in S
  <2>1. {p} \in SUBSET S /\ \A x \in S \ {p} : f[x] = 0
    BY <1>2
  <2>2. Sum(f, S) = Sum(f, {p})
    BY <1>1, <2>1, SumWithoutZeros
  <2>3. Numeric(f, {p})
    BY <1>1, <2>1, NumericSubset
  <2>4. {p} \ {p} = {}
    OBVIOUS
  <2>5. Sum(f, {p}) = f[p] + Sum(f, {})
    BY <2>3, <2>4, SumRemove
  <2>6. QED
    BY <1>2, <2>2, <2>5, SumEmpty
<1>3. CASE p \notin S
  <2>1. {} \in SUBSET S /\ \A x \in S \ {} : f[x] = 0
    BY <1>3
  <2>2. Sum(f, S) = Sum(f, {})
    BY <1>1, <2>1, SumWithoutZeros
  <2>3. QED
    BY <1>3, <2>2, SumEmpty
<1>4. QED
  BY <1>2, <1>3

(* A sum over a subset, as a sum over the set.                             *)
LEMMA SumOver ==
    ASSUME NEW f, NEW S, NEW T \in SUBSET S, IsFiniteSet(S), \A x \in T : f[x] \in Int,
           NEW g, \A x \in S : g[x] = IF x \in T THEN f[x] ELSE 0
    PROVE  Sum(f, T) = Sum(g, S) /\ Numeric(g, S)
<1>1. Numeric(g, S)
  BY DEF Numeric
<1>2. Sum(g, S) = Sum(g, T)
  BY <1>1, SumWithoutZeros
<1>3. Numeric(f, T)
  BY FS_Subset DEF Numeric
<1>4. Sum(g, T) = Sum(f, T)
  BY <1>3, SumSame
<1>5. QED
  BY <1>1, <1>2, <1>4

-----------------------------------------------------------------------------
(* A balance is what the account opened with and the sum of what the rows  *)
(* bring it.                                                               *)

LEMMA UnitsAreSum ==
    ASSUME NEW C \in SUBSET Row, NEW f, \A x \in C : f[x] \in 0 .. MaxAmount
    PROVE  Cardinality(Units(C, f)) = Sum(f, C)
<1> DEFINE bad == {t \in SUBSET C : Cardinality(Units(t, f)) # Sum(f, t)}
<1> SUFFICES ASSUME bad # {}
             PROVE  FALSE
  OBVIOUS
<1>1. IsFiniteSet(C) /\ \A t \in bad : t \subseteq C
  BY LedgerAssumption, FS_Subset
<1>2. PICK t \in bad : \A u \in bad : u \subseteq t => u = t
  <2> HIDE DEF bad
  <2>1. QED
    BY <1>1, SmallestSet
<1>3. Cardinality(Units(t, f)) # Sum(f, t) /\ t \in SUBSET C
  OBVIOUS
<1>4. t # {}
  <2>1. Units({}, f) = {}
    BY DEF Units
  <2>2. Cardinality(Units({}, f)) = 0
    BY <2>1, FS_EmptySet
  <2>3. QED
    BY <1>3, <2>2, SumEmpty
<1>5. PICK x \in t : TRUE
  BY <1>4
<1>6. PICK u : u = t \ {x}
  OBVIOUS
<1>7. u \in SUBSET C /\ u \subseteq t /\ u # t /\ t \in SUBSET Row /\ u \in SUBSET Row
  BY <1>3, <1>5, <1>6
<1>8. Cardinality(Units(u, f)) = Sum(f, u)
  BY <1>2, <1>7
<1>9. f[x] \in 0 .. MaxAmount
  BY <1>3, <1>5
<1>10. Cardinality(Units(t, f)) = Cardinality(Units(u, f)) + f[x]
  BY <1>5, <1>6, <1>7, <1>9, UnitsSplit
<1>11. Cardinality(Units(u, f)) \in Nat
  BY <1>7, UnitsFinite
<1>12. Numeric(f, t)
  <2>1. \A y \in t : f[y] \in Int
    BY <1>3, LedgerAssumption
  <2>2. QED
    BY <1>1, <1>3, <2>1, FS_Subset DEF Numeric
<1>13. Sum(f, t) = f[x] + Sum(f, u)
  BY <1>5, <1>6, <1>12, SumRemove
<1>14. f[x] \in Int
  BY <1>5, <1>12 DEF Numeric
<1>15. QED
  BY <1>3, <1>8, <1>10, <1>11, <1>13, <1>14

(* What every row brings account a up to a day.                            *)
BroughtTo(a, day) == [r \in DOMAIN rows |-> Brings(rows, r, a, day)]

LEMMA RowsFinite ==
    ASSUME TypeOK
    PROVE  IsFiniteSet(DOMAIN rows)
<1>1. DOMAIN rows \in SUBSET Row
  BY DEF TypeOK, IsCollection
<1>2. QED
  BY <1>1, LedgerAssumption, FS_Subset

LEMMA BalanceIsSum ==
    ASSUME TypeOK, NEW a \in DOMAIN accounts, NEW day, ~(day < accounts[a].openedAt)
    PROVE  /\ Balance(accounts, rows, a, day) =
                accounts[a].initialAmount + Sum(BroughtTo(a, day), DOMAIN rows)
           /\ accounts[a].initialAmount \in Int
           /\ Numeric(BroughtTo(a, day), DOMAIN rows)
<1> DEFINE C == Counted(rows, a, day)
<1>1. PICK credit, debit : /\ credit = [r \in DOMAIN rows |-> Credit(rows[r], a)]
                           /\ debit = [r \in DOMAIN rows |-> Debit(rows[r], a)]
  OBVIOUS
<1>2. C \in SUBSET DOMAIN rows /\ C \in SUBSET Row
  BY DEF Counted, TypeOK, IsCollection
<1>3. \A r \in C : credit[r] \in 0 .. MaxAmount /\ debit[r] \in 0 .. MaxAmount
  BY <1>1, <1>2, LegTypes, TypeFacts
<1>4. \A r \in C : credit[r] \in Int /\ debit[r] \in Int
  BY <1>3
<1>5. IsFiniteSet(DOMAIN rows) /\ IsFiniteSet(C)
  BY <1>2, RowsFinite, FS_Subset
<1>6. /\ CreditUnits(rows, a, day) = Units(C, credit)
      /\ DebitUnits(rows, a, day) = Units(C, debit)
  BY <1>1, <1>2 DEF CreditUnits, DebitUnits, Units
<1>7. \A r \in DOMAIN rows :
            BroughtTo(a, day)[r] = IF r \in C THEN credit[r] - debit[r] ELSE 0
  BY <1>1 DEF BroughtTo, Brings
<1>8. accounts[a].initialAmount \in Int
  BY TypeFacts
<1>9. Balance(accounts, rows, a, day) =
        accounts[a].initialAmount + Cardinality(Units(C, credit)) - Cardinality(Units(C, debit))
  BY <1>6 DEF Balance
<1> HIDE DEF C
<1>10. /\ Cardinality(Units(C, credit)) = Sum(credit, C)
       /\ Cardinality(Units(C, debit)) = Sum(debit, C)
  BY <1>2, <1>3, UnitsAreSum
<1>11. PICK net : net = BroughtTo(a, day)
  OBVIOUS
<1>12. Numeric(net, DOMAIN rows)
  BY <1>4, <1>5, <1>7, <1>11 DEF Numeric
<1>13. Sum(net, DOMAIN rows) = Sum(net, C)
  BY <1>2, <1>7, <1>11, <1>12, SumWithoutZeros
<1>14. Numeric(net, C) /\ Numeric(debit, C) /\ Numeric(credit, C)
  BY <1>2, <1>4, <1>5, <1>12, NumericSubset DEF Numeric
<1>15. \A r \in C : credit[r] = net[r] + debit[r]
  BY <1>2, <1>4, <1>7, <1>11
<1>16. Sum(credit, C) = Sum(net, C) + Sum(debit, C)
  BY <1>14, <1>15, SumPlus
<1>17. Sum(net, C) \in Int /\ Sum(debit, C) \in Int
  BY <1>14, SumType
<1>18. Sum(credit, C) - Sum(debit, C) = Sum(net, C)
  BY <1>16, <1>17
<1>19. QED
  BY <1>8, <1>9, <1>10, <1>11, <1>12, <1>13, <1>16, <1>17

-----------------------------------------------------------------------------
(* What the accounts of a currency hold together.                          *)

FiniteAccounts == IsFiniteSet(DOMAIN accounts)

LEMMA NextKeepsFinite ==
    ASSUME IInv, FiniteAccounts, [Next]_vars
    PROVE  FiniteAccounts'
<1>1. CASE AccountStep
  <2>1. ASSUME NEW a \in Account, NEW c \in Currency, NEW amount \in 0 .. MaxAmount,
               NEW d \in Day, CreateAccount(a, c, amount, d)
        PROVE  FiniteAccounts'
    <3>1. DOMAIN accounts' = DOMAIN accounts \cup {a}
      BY <2>1 DEF CreateAccount, Put
    <3>2. QED
      BY <3>1, FS_AddElement DEF FiniteAccounts
  <2>2. ASSUME NEW a \in Account, ArchiveAccount(a)
        PROVE  FiniteAccounts'
    <3>1. DOMAIN accounts' = DOMAIN accounts
      BY <2>2 DEF ArchiveAccount
    <3>2. QED
      BY <3>1 DEF FiniteAccounts
  <2>3. ASSUME NEW a \in Account, RemoveAccount(a)
        PROVE  FiniteAccounts'
    <3>1. DOMAIN accounts' = DOMAIN accounts \ {a}
      BY <2>3 DEF RemoveAccount
    <3>2. QED
      BY <3>1, FS_RemoveElement DEF FiniteAccounts
  <2>4. QED
    BY <1>1, <2>1, <2>2, <2>3 DEF AccountStep
<1>2. CASE MovementStep \/ TransferStep
  <2>1. accounts' = accounts
    BY <1>2, MovementIsRowStep, TransferIsRowStep DEF RowStep
  <2>2. QED
    BY <2>1 DEF FiniteAccounts
<1>3. CASE UNCHANGED vars
  BY <1>3 DEF vars, FiniteAccounts
<1>4. QED
  BY <1>1, <1>2, <1>3 DEF Next

(* What the theorems of this module follow from.                           *)
Foundation == IInv /\ TransfersSound /\ FiniteAccounts

LEMMA FoundationHolds == Spec => []Foundation
<1>1. Init => FiniteAccounts
  BY FS_EmptySet DEF Init, FiniteAccounts
<1>2. IInv /\ FiniteAccounts /\ [Next]_vars => FiniteAccounts'
  BY NextKeepsFinite
<1>3. IInv /\ TransfersSound /\ FiniteAccounts => Foundation
  BY DEF Foundation
<1>4. QED
  BY <1>1, <1>2, <1>3, LedgerInvariant, TransfersStaySound, PTL DEF Spec

LEMMA HoldersFinite ==
    ASSUME Foundation, NEW c, NEW day
    PROVE  IsFiniteSet(Holders(c, day))
<1>1. Holders(c, day) \in SUBSET DOMAIN accounts
  BY DEF Holders
<1>2. QED
  BY <1>1, FS_Subset DEF Foundation, FiniteAccounts

(* What row r brings the holders of currency c together.                   *)
BroughtTogether(r, c, day) ==
    Sum([a \in Holders(c, day) |-> Brings(rows, r, a, day)], Holders(c, day))

(* The holders' balances are what they opened with and the sum, over the   *)
(* rows, of what each brings them together.                                *)
LEMMA HoldersHold ==
    ASSUME Foundation, NEW c, NEW day \in Day
    PROVE  LET H == Holders(c, day)
               together == [r \in DOMAIN rows |-> BroughtTogether(r, c, day)]
           IN  /\ Sum([a \in H |-> Balance(accounts, rows, a, day)], H) =
                    Sum([a \in H |-> accounts[a].initialAmount], H)
                        + Sum(together, DOMAIN rows)
               /\ Numeric([a \in H |-> Balance(accounts, rows, a, day)], H)
               /\ Numeric(together, DOMAIN rows)
<1> DEFINE H == Holders(c, day)
           D == DOMAIN rows
<1>1. TypeOK /\ IsFiniteSet(H) /\ IsFiniteSet(D)
  BY HoldersFinite, RowsFinite DEF Foundation, IInv
<1>2. \A a \in H : a \in DOMAIN accounts /\ ~(day < accounts[a].openedAt)
  <2>1. \A a \in DOMAIN accounts : accounts[a].openedAt \in Int
    BY <1>1, TypeFacts, LedgerAssumption
  <2>2. day \in Int
    BY LedgerAssumption
  <2>3. QED
    BY <2>1, <2>2 DEF Holders
<1>3. PICK balance, opening, F, G, brought, together :
        /\ balance = [a \in H |-> Balance(accounts, rows, a, day)]
        /\ opening = [a \in H |-> accounts[a].initialAmount]
        /\ F = [a \in H |-> BroughtTo(a, day)]
        /\ G = [r \in D |-> [a \in H |-> Brings(rows, r, a, day)]]
        /\ brought = [a \in H |-> Sum(BroughtTo(a, day), D)]
        /\ together = [r \in D |-> BroughtTogether(r, c, day)]
  OBVIOUS
<1>4. ASSUME NEW a \in H
      PROVE  /\ balance[a] = opening[a] + brought[a]
             /\ opening[a] \in Int /\ brought[a] \in Int
             /\ Numeric(F[a], D)
             /\ brought[a] = Sum(F[a], D)
  <2>1. /\ Balance(accounts, rows, a, day) =
                accounts[a].initialAmount + Sum(BroughtTo(a, day), D)
        /\ accounts[a].initialAmount \in Int
        /\ Numeric(BroughtTo(a, day), D)
    BY <1>1, <1>2, BalanceIsSum
  <2>2. Sum(BroughtTo(a, day), D) \in Int
    BY <2>1, SumType
  <2>3. QED
    BY <1>3, <2>1, <2>2
<1>5. \A r \in D : together[r] = Sum(G[r], H)
  BY <1>3 DEF BroughtTogether
<1>6. \A a \in H, r \in D : F[a][r] \in Int /\ G[r][a] = F[a][r]
  BY <1>3, <1>4 DEF BroughtTo, Numeric
<1> HIDE DEF H, D
<1>7. Sum(brought, H) = Sum(together, D)
  <2>1. Transposed(F, G, H, D)
    BY <1>6 DEF Transposed
  <2>2. SumsUp(brought, F, H, D) /\ SumsUp(together, G, D, H)
    BY <1>4, <1>5 DEF SumsUp
  <2>3. QED
    BY <1>1, <2>1, <2>2, SumSwap
<1>8. Numeric(opening, H) /\ Numeric(brought, H) /\ Numeric(balance, H)
  BY <1>1, <1>4 DEF Numeric
<1>9. Sum(balance, H) = Sum(opening, H) + Sum(brought, H)
  BY <1>4, <1>8, SumPlus
<1>10. Numeric(together, D)
  <2>1. \A r \in D : Numeric(G[r], H)
    BY <1>1, <1>6 DEF Numeric
  <2>2. QED
    BY <1>1, <1>5, <2>1, SumType DEF Numeric
<1>11. QED
  BY <1>3, <1>7, <1>8, <1>9, <1>10 DEF H, D

(* What a row moves into a currency, less what it moves out of it.         *)
Net(c, row) ==
    (IF accounts[row.account].currency # c THEN 0
     ELSE IF row.type = "income" THEN row.amount ELSE 0 - row.amount)
    + (IF row.type = "transfer" /\ accounts[row.destination].currency = c
       THEN row.received ELSE 0)

(* Its holders get just that from it, once its date has come: the accounts *)
(* it moves money on were open by then.                                    *)
LEMMA BroughtIsNet ==
    ASSUME Foundation, NEW c, NEW day \in Day, NEW r \in DOMAIN rows
    PROVE  /\ BroughtTogether(r, c, day) =
                IF rows[r].state = "active" /\ rows[r].date <= day
                THEN Net(c, rows[r]) ELSE 0
           /\ Net(c, rows[r]) \in Int
<1> DEFINE H == Holders(c, day)
<1>1. PICK row : row = rows[r]
  OBVIOUS
<1>2. /\ row \in RowDocument /\ row.amount \in Int /\ row.received \in Int
      /\ row.account \in Account /\ row.destination \in Account
      /\ row.type \in {"income", "expense", "transfer"} /\ row.date \in Int
  <2>1. row \in RowDocument
    BY <1>1, TypeFacts DEF Foundation, IInv
  <2>2. /\ row.amount \in Amount /\ row.received \in Amount /\ row.date \in Day
        /\ row.account \in Account /\ row.destination \in Account
        /\ row.type \in {"income", "expense", "transfer"}
    BY <2>1 DEF RowDocument
  <2>3. Amount \subseteq Int /\ Day \subseteq Int
    BY LedgerAssumption DEF Amount
  <2>4. QED
    BY <2>1, <2>2, <2>3
<1>3. IsFiniteSet(H) /\ day \in Int
  BY HoldersFinite, LedgerAssumption
<1>4. PICK brings : brings = [a \in H |-> Brings(rows, r, a, day)]
  OBVIOUS
<1>5. BroughtTogether(r, c, day) = Sum(brings, H)
  BY <1>4 DEF BroughtTogether
<1>6. PICK out, into :
        /\ out = IF row.type = "income" THEN row.amount ELSE 0 - row.amount
        /\ into = IF row.type = "transfer" THEN row.received ELSE 0
  OBVIOUS
<1>7. out \in Int /\ into \in Int
  BY <1>2, <1>6
<1>8. Net(c, row) = (IF accounts[row.account].currency = c THEN out ELSE 0)
                        + (IF accounts[row.destination].currency = c THEN into ELSE 0)
  BY <1>2, <1>6 DEF Net
<1>9. Net(c, row) \in Int
  BY <1>7, <1>8
<1>10. CASE row.state = "active" /\ row.date <= day
  <2>1. PICK f, g : /\ f = [a \in H |-> IF a = row.account THEN out ELSE 0]
                    /\ g = [a \in H |-> IF a = row.destination THEN into ELSE 0]
    OBVIOUS
  <2>2. Numeric(f, H) /\ Numeric(g, H)
    BY <1>3, <1>7, <2>1 DEF Numeric
  <2>3. row.type = "transfer" => row.account # row.destination
    BY <1>1 DEF Foundation, TransfersSound, SoundRow
  <2>4. ASSUME NEW a \in H
        PROVE  brings[a] = f[a] + g[a]
    <3>1. brings[a] = IF Involves(row, a) THEN Credit(row, a) - Debit(row, a) ELSE 0
      BY <1>1, <1>4, <1>10 DEF Brings, Counted
    <3>2. CASE row.type = "transfer"
      BY <1>2, <1>6, <2>1, <2>3, <3>1, <3>2 DEF Involves, Credit, Debit
    <3>3. CASE row.type # "transfer"
      <4>1. into = 0 /\ g[a] = 0
        BY <1>6, <2>1, <3>3
      <4>2. f[a] = IF Involves(row, a) THEN Credit(row, a) - Debit(row, a) ELSE 0
        BY <1>2, <1>6, <2>1, <3>3 DEF Involves, Credit, Debit
      <4>3. f[a] \in Int
        BY <1>7, <2>1
      <4>4. QED
        BY <3>1, <4>1, <4>2, <4>3
    <3>4. QED
      BY <3>2, <3>3
  <2>5. Sum(brings, H) = Sum(f, H) + Sum(g, H)
    BY <2>2, <2>4, SumPlus
  <2>6. Sum(f, H) = IF row.account \in H THEN out ELSE 0
    BY <1>3, <1>7, <2>1, SumPoint
  <2>7. Sum(g, H) = IF row.destination \in H THEN into ELSE 0
    BY <1>3, <1>7, <2>1, SumPoint
  <2>8. \A a \in Account : Involves(row, a) =>
            (a \in H <=> accounts[a].currency = c)
    <3>1. ASSUME NEW a \in Account, Involves(row, a)
          PROVE  a \in DOMAIN accounts /\ accounts[a].openedAt <= day
      <4>1. a \in DOMAIN accounts /\ accounts[a].openedAt <= row.date
        BY <1>1, <3>1 DEF Foundation, IInv, ReferencesHold
      <4>2. accounts[a].openedAt \in Int
        BY <4>1, TypeFacts, LedgerAssumption DEF Foundation, IInv
      <4>3. QED
        BY <1>2, <1>3, <1>10, <4>1, <4>2
    <3>2. QED
      BY <3>1 DEF Holders
  <2>9. row.account \in H <=> accounts[row.account].currency = c
    BY <1>2, <2>8 DEF Involves
  <2>10. row.type = "transfer" =>
            (row.destination \in H <=> accounts[row.destination].currency = c)
    BY <1>2, <2>8 DEF Involves
  <2>11. row.type # "transfer" => into = 0
    BY <1>6
  <2> HIDE DEF H
  <2>12. Sum(brings, H) = Net(c, row)
    BY <1>8, <2>5, <2>6, <2>7, <2>9, <2>10, <2>11
  <2>13. QED
    BY <1>1, <1>5, <1>9, <1>10, <2>12
<1>11. CASE ~(row.state = "active" /\ row.date <= day)
  <2>1. \A a \in H : brings[a] = 0
    BY <1>1, <1>4, <1>11 DEF Brings, Counted
  <2>2. Numeric(brings, H) /\ {} \in SUBSET H
    BY <1>3, <2>1 DEF Numeric
  <2> HIDE DEF H
  <2>3. Sum(brings, H) = 0
    BY <2>1, <2>2, SumWithoutZeros, SumEmpty
  <2>4. QED
    BY <1>1, <1>5, <1>9, <1>11, <2>3
<1>12. QED
  BY <1>10, <1>11

-----------------------------------------------------------------------------
(* Money is conserved.                                                     *)

(* Brought and BroughtTogether sum up the same.                            *)
LEMMA BroughtIsTogether ==
    ASSUME Foundation, NEW c, NEW day \in Day, NEW r \in Outer(c, day)
    PROVE  Brought(r, Holders(c, day)) = BroughtTogether(r, c, day)
<1> DEFINE H == Holders(c, day)
           T == {b \in H : Involves(rows[r], b)}
<1>1. /\ r \in DOMAIN rows /\ rows[r] \in RowDocument
      /\ rows[r].state = "active" /\ rows[r].date <= day
  BY TypeFacts DEF Outer, Foundation, IInv
<1>2. PICK f, g : /\ f = [a \in T |-> Credit(rows[r], a) - Debit(rows[r], a)]
                  /\ g = [a \in H |-> Brings(rows, r, a, day)]
  OBVIOUS
<1>3. T \in SUBSET H /\ IsFiniteSet(H)
  BY HoldersFinite
<1>4. \A a \in T : f[a] \in Int
  <2>1. \A a \in T : /\ Credit(rows[r], a) \in Int
                     /\ Debit(rows[r], a) \in Int
    <3>1. \A a : Credit(rows[r], a) \in 0 .. MaxAmount /\ Debit(rows[r], a) \in 0 .. MaxAmount
      BY <1>1, LegTypes
    <3>2. QED
      BY <3>1
  <2>2. QED
    BY <1>2, <2>1
<1>5. \A a \in H : g[a] = IF a \in T THEN f[a] ELSE 0
  BY <1>1, <1>2 DEF Brings, Counted
<1>6. Brought(r, H) = Sum(f, T)
  <2>1. Brought(r, H) = SumFunction(f)
    BY <1>2 DEF Brought
  <2>2. DOMAIN f = T
    BY <1>2
  <2> HIDE DEF T
  <2>3. QED
    BY <2>1, <2>2, SumOfFunction
<1>7. BroughtTogether(r, c, day) = Sum(g, H)
  BY <1>2 DEF BroughtTogether
<1> HIDE DEF H, T
<1>8. Sum(f, T) = Sum(g, H)
  BY <1>3, <1>4, <1>5, SumOver
<1>9. QED
  BY <1>6, <1>7, <1>8 DEF H

LEMMA FoundationConserves ==
    ASSUME Foundation
    PROVE  MoneyConserved
<1> SUFFICES ASSUME NEW c \in Currency, NEW day \in Day
             PROVE  SumFunction([a \in Holders(c, day) |-> Balance(accounts, rows, a, day)])
                      = SumFunction([a \in Holders(c, day) |-> accounts[a].initialAmount])
                          + SumFunction([r \in Outer(c, day) |-> Brought(r, Holders(c, day))])
  BY DEF MoneyConserved
<1> DEFINE H == Holders(c, day)
           D == DOMAIN rows
           O == Outer(c, day)
<1>1. PICK balance, opening, together, brought :
        /\ balance = [a \in H |-> Balance(accounts, rows, a, day)]
        /\ opening = [a \in H |-> accounts[a].initialAmount]
        /\ together = [r \in D |-> BroughtTogether(r, c, day)]
        /\ brought = [r \in O |-> Brought(r, H)]
  OBVIOUS
<1>2. Sum(balance, H) = Sum(opening, H) + Sum(together, D) /\ Numeric(together, D)
  BY <1>1, HoldersHold
<1>3. O \in SUBSET D
  BY DEF Outer
<1>4. \A r \in D \ O : together[r] = 0
  <2> SUFFICES ASSUME NEW r \in D \ O
               PROVE  together[r] = 0
    OBVIOUS
  <2>1. together[r] = IF rows[r].state = "active" /\ rows[r].date <= day
                      THEN Net(c, rows[r]) ELSE 0
    BY <1>1, BroughtIsNet
  <2>2. CASE StaysIn(c, rows[r])
    <3>1. SoundRow(rows[r]) /\ rows[r].type = "transfer"
      BY <2>2 DEF Foundation, TransfersSound, StaysIn
    <3>2. rows[r].amount = rows[r].received
      BY <2>2, <3>1 DEF SoundRow, ValidAmounts, StaysIn
    <3>3. rows[r].amount \in Int
      <4>1. rows[r] \in RowDocument
        BY TypeFacts DEF Foundation, IInv
      <4>2. rows[r].amount \in Amount
        BY <4>1 DEF RowDocument
      <4>3. QED
        BY <4>2, LedgerAssumption DEF Amount
    <3>4. Net(c, rows[r]) = 0
      BY <2>2, <3>1, <3>2, <3>3 DEF Net, StaysIn
    <3>5. QED
      BY <2>1, <3>4
  <2>3. CASE ~StaysIn(c, rows[r])
    BY <2>1, <2>3 DEF Outer
  <2>4. QED
    BY <2>2, <2>3
<1>5. \A r \in O : brought[r] = together[r]
  BY <1>1, <1>3, BroughtIsTogether
<1>6. DOMAIN balance = H /\ DOMAIN opening = H /\ DOMAIN brought = O
  BY <1>1
<1> HIDE DEF H, D, O
<1>7. Sum(together, D) = Sum(together, O)
  BY <1>2, <1>3, <1>4, SumWithoutZeros
<1>8. Sum(brought, O) = Sum(together, O)
  <2>1. Numeric(together, O)
    BY <1>2, <1>3, NumericSubset
  <2>2. QED
    BY <1>5, <2>1, SumSame
<1>9. SumFunction(balance) = SumFunction(opening) + SumFunction(brought)
  <2>1. /\ SumFunction(balance) = Sum(balance, H)
        /\ SumFunction(opening) = Sum(opening, H)
        /\ SumFunction(brought) = Sum(brought, O)
    BY <1>6, SumOfFunction
  <2>2. QED
    BY <1>2, <1>7, <1>8, <2>1
<1>10. QED
  BY <1>1, <1>9 DEF H, D, O

(* On every day the balances of a currency add up to the opening balances  *)
(* and what incomes, expenses and exchanges brought: no sequence of        *)
(* backdated edits and deletions makes money or loses any.                 *)
THEOREM MoneyIsConserved == Spec => []MoneyConserved
<1>1. Foundation => MoneyConserved
  BY FoundationConserves
<1>2. QED
  BY <1>1, FoundationHolds, PTL

-----------------------------------------------------------------------------
(* Reports add up.                                                         *)

(* What row r adds to the line of period e: its net movement, if it counts *)
(* there.                                                                  *)
InLine(r, c, e) ==
    IF rows[r].state = "active" /\ MonthEnd[rows[r].date] = e
    THEN Net(c, rows[r]) ELSE 0

(* A line nets what the rows of its period move.                           *)
LEMMA LineIsSum ==
    ASSUME Foundation, NEW c, NEW e
    PROVE  /\ LineNet(c, e) = Sum([r \in DOMAIN rows |-> InLine(r, c, e)], DOMAIN rows)
           /\ Numeric([r \in DOMAIN rows |-> InLine(r, c, e)], DOMAIN rows)
<1> DEFINE D == DOMAIN rows
           incomes == CountedIn(e, {"income"}) \cap SourceIn(c)
           expenses == CountedIn(e, {"expense"}) \cap SourceIn(c)
           outs == CountedIn(e, {"transfer"}) \cap SourceIn(c)
           ins == CountedIn(e, {"transfer"}) \cap DestinationIn(c)
<1>1. \A r \in D : /\ rows[r].amount \in Int /\ rows[r].received \in Int
                   /\ rows[r].type \in {"income", "expense", "transfer"}
  <2>1. \A r \in D : rows[r] \in RowDocument
    BY TypeFacts DEF Foundation, IInv
  <2>2. \A r \in D : /\ rows[r].amount \in Amount /\ rows[r].received \in Amount
                     /\ rows[r].type \in {"income", "expense", "transfer"}
    BY <2>1 DEF RowDocument
  <2>3. Amount \subseteq Int
    BY LedgerAssumption DEF Amount
  <2>4. QED
    BY <2>2, <2>3
<1>2. IsFiniteSet(D)
  BY RowsFinite DEF Foundation, IInv
<1>3. PICK amount, received :
        /\ amount = [r \in D |-> rows[r].amount]
        /\ received = [r \in D |-> rows[r].received]
  OBVIOUS
<1>4. PICK i, x, o, n :
        /\ i = [r \in D |-> IF r \in incomes THEN amount[r] ELSE 0]
        /\ x = [r \in D |-> IF r \in expenses THEN amount[r] ELSE 0]
        /\ o = [r \in D |-> IF r \in outs THEN amount[r] ELSE 0]
        /\ n = [r \in D |-> IF r \in ins THEN received[r] ELSE 0]
  OBVIOUS
<1>5. PICK line : line = [r \in D |-> InLine(r, c, e)]
  OBVIOUS
<1>6. /\ incomes \in SUBSET D /\ expenses \in SUBSET D
      /\ outs \in SUBSET D /\ ins \in SUBSET D
  BY DEF CountedIn
<1>7. \A r \in D : amount[r] \in Int /\ received[r] \in Int
  BY <1>1, <1>3
<1>8. /\ Financial("income", c, e) = Sum(amount, incomes)
      /\ Financial("expense", c, e) = Sum(amount, expenses)
      /\ MovedOut(c, e) = Sum(amount, outs)
      /\ MovedIn(c, e) = Sum(received, ins)
  <2>1. ASSUME NEW S \in SUBSET D
        PROVE  Amounts(S) = Sum(amount, S)
    <3>1. PICK f : f = [r \in S |-> rows[r].amount]
      OBVIOUS
    <3>2. \A r \in S : f[r] = amount[r]
      BY <1>3, <3>1
    <3>3. Numeric(amount, S)
      BY <1>2, <1>7, FS_Subset DEF Numeric
    <3>4. SumFunction(f) = Sum(f, S)
      BY <3>1, SumOfFunction
    <3>5. Sum(f, S) = Sum(amount, S)
      BY <3>2, <3>3, SumSame
    <3>6. QED
      BY <3>1, <3>4, <3>5 DEF Amounts
  <2>2. MovedIn(c, e) = Sum(received, ins)
    <3>1. PICK f : f = [r \in ins |-> rows[r].received]
      OBVIOUS
    <3>2. \A r \in ins : f[r] = received[r]
      BY <1>3, <1>6, <3>1
    <3>3. Numeric(received, ins)
      BY <1>2, <1>6, <1>7, FS_Subset DEF Numeric
    <3>4. DOMAIN f = ins /\ MovedIn(c, e) = SumFunction(f)
      BY <3>1 DEF MovedIn
    <3> HIDE DEF ins
    <3>5. QED
      BY <3>2, <3>3, <3>4, SumSame, SumOfFunction
  <2>3. QED
    BY <1>6, <2>1, <2>2 DEF Financial, MovedOut
<1>9. \A r \in D : /\ i[r] = IF r \in incomes THEN amount[r] ELSE 0
                   /\ x[r] = IF r \in expenses THEN amount[r] ELSE 0
                   /\ o[r] = IF r \in outs THEN amount[r] ELSE 0
                   /\ n[r] = IF r \in ins THEN received[r] ELSE 0
  BY <1>4
<1>10. PICK gain, loss : /\ gain = [r \in D |-> i[r] + n[r]]
                         /\ loss = [r \in D |-> x[r] + o[r]]
  OBVIOUS
<1>11. ASSUME NEW r \in D
       PROVE  gain[r] = line[r] + loss[r] /\ line[r] \in Int
  <2>1. PICK row : row = rows[r]
    OBVIOUS
  <2>2. /\ row.amount \in Int /\ row.received \in Int
        /\ amount[r] = row.amount /\ received[r] = row.received
        /\ row.type \in {"income", "expense", "transfer"}
    BY <1>1, <1>3, <2>1
  <2>3. line[r] = IF row.state = "active" /\ MonthEnd[row.date] = e
                  THEN Net(c, row) ELSE 0
    BY <1>5, <2>1 DEF InLine
  <2>4. gain[r] = i[r] + n[r] /\ loss[r] = x[r] + o[r]
    BY <1>10
  <2>5. CASE row.state = "active" /\ MonthEnd[row.date] = e
    <3>1. /\ r \in incomes <=> row.type = "income" /\ accounts[row.account].currency = c
          /\ r \in expenses <=> row.type = "expense" /\ accounts[row.account].currency = c
          /\ r \in outs <=> row.type = "transfer" /\ accounts[row.account].currency = c
          /\ r \in ins <=> row.type = "transfer" /\ accounts[row.destination].currency = c
      BY <2>1, <2>5 DEF CountedIn, SourceIn, DestinationIn
    <3> HIDE DEF incomes, expenses, outs, ins
    <3>2. /\ i[r] = IF row.type = "income" /\ accounts[row.account].currency = c
                    THEN row.amount ELSE 0
          /\ x[r] = IF row.type = "expense" /\ accounts[row.account].currency = c
                    THEN row.amount ELSE 0
          /\ o[r] = IF row.type = "transfer" /\ accounts[row.account].currency = c
                    THEN row.amount ELSE 0
          /\ n[r] = IF row.type = "transfer" /\ accounts[row.destination].currency = c
                    THEN row.received ELSE 0
      BY <1>9, <2>2, <3>1
    <3>3. line[r] = Net(c, row)
      BY <2>3, <2>5
    <3>4. QED
      BY <2>2, <2>4, <3>2, <3>3 DEF Net
  <2>6. CASE ~(row.state = "active" /\ MonthEnd[row.date] = e)
    <3>1. r \notin incomes /\ r \notin expenses /\ r \notin outs /\ r \notin ins
      BY <2>1, <2>6 DEF CountedIn
    <3>2. i[r] = 0 /\ x[r] = 0 /\ o[r] = 0 /\ n[r] = 0
      BY <1>9, <3>1
    <3>3. QED
      BY <2>3, <2>4, <2>6, <3>2
  <2>7. QED
    BY <2>5, <2>6
<1>12. Numeric(line, D)
  BY <1>2, <1>11 DEF Numeric
<1>13. \A r \in D : gain[r] = i[r] + n[r] /\ loss[r] = x[r] + o[r]
  BY <1>10
<1> HIDE DEF D, incomes, expenses, outs, ins
<1>14. /\ Sum(amount, incomes) = Sum(i, D) /\ Numeric(i, D)
       /\ Sum(amount, expenses) = Sum(x, D) /\ Numeric(x, D)
       /\ Sum(amount, outs) = Sum(o, D) /\ Numeric(o, D)
       /\ Sum(received, ins) = Sum(n, D) /\ Numeric(n, D)
  <2>1. ASSUME NEW T \in SUBSET D, NEW f, \A r \in D : f[r] \in Int,
               NEW g, \A r \in D : g[r] = IF r \in T THEN f[r] ELSE 0
        PROVE  Sum(f, T) = Sum(g, D) /\ Numeric(g, D)
    BY <1>2, <2>1, SumOver
  <2>2. Sum(amount, incomes) = Sum(i, D) /\ Numeric(i, D)
    <3>1. incomes \in SUBSET D /\ \A r \in D : amount[r] \in Int
      BY <1>6, <1>7
    <3>2. \A r \in D : i[r] = IF r \in incomes THEN amount[r] ELSE 0
      BY <1>9
    <3>3. QED
      BY <2>1, <3>1, <3>2
  <2>3. Sum(amount, expenses) = Sum(x, D) /\ Numeric(x, D)
    <3>1. expenses \in SUBSET D /\ \A r \in D : amount[r] \in Int
      BY <1>6, <1>7
    <3>2. \A r \in D : x[r] = IF r \in expenses THEN amount[r] ELSE 0
      BY <1>9
    <3>3. QED
      BY <2>1, <3>1, <3>2
  <2>4. Sum(amount, outs) = Sum(o, D) /\ Numeric(o, D)
    <3>1. outs \in SUBSET D /\ \A r \in D : amount[r] \in Int
      BY <1>6, <1>7
    <3>2. \A r \in D : o[r] = IF r \in outs THEN amount[r] ELSE 0
      BY <1>9
    <3>3. QED
      BY <2>1, <3>1, <3>2
  <2>5. Sum(received, ins) = Sum(n, D) /\ Numeric(n, D)
    <3>1. ins \in SUBSET D /\ \A r \in D : received[r] \in Int
      BY <1>6, <1>7
    <3>2. \A r \in D : n[r] = IF r \in ins THEN received[r] ELSE 0
      BY <1>9
    <3>3. QED
      BY <2>1, <3>1, <3>2
  <2>6. QED
    BY <2>2, <2>3, <2>4, <2>5
<1>15. Sum(gain, D) = Sum(i, D) + Sum(n, D) /\ Sum(loss, D) = Sum(x, D) + Sum(o, D)
  BY <1>13, <1>14, SumPlus
<1>16. Sum(gain, D) = Sum(line, D) + Sum(loss, D)
  <2>1. Numeric(loss, D)
    BY <1>13, <1>14 DEF Numeric
  <2>2. QED
    BY <1>11, <1>12, <2>1, SumPlus
<1>17. /\ Sum(i, D) \in Int /\ Sum(n, D) \in Int /\ Sum(x, D) \in Int
       /\ Sum(o, D) \in Int /\ Sum(line, D) \in Int
  BY <1>12, <1>14, SumType
<1>18. LineNet(c, e) = Sum(i, D) - Sum(x, D) + Sum(n, D) - Sum(o, D)
  BY <1>8, <1>14 DEF LineNet, Totals, D, incomes, expenses, outs, ins
<1>19. LineNet(c, e) = Sum(line, D)
  BY <1>15, <1>16, <1>17, <1>18
<1>20. QED
  BY <1>5, <1>12, <1>19 DEF D

(* The periods of a report are finitely many, and a row that is not        *)
(* earlier than the report falls into one of them, unless it is later than *)
(* the last.                                                               *)
LEMMA PeriodsFacts ==
    ASSUME NEW from \in Day, NEW period \in MonthEnds
    PROVE  /\ IsFiniteSet(Periods(from, period))
           /\ \A d \in Day : from <= d =>
                (MonthEnd[d] \in Periods(from, period) <=> d <= period)
<1>1. from \in Int /\ period \in Int /\ MonthEnd[period] = period
      /\ \A d \in Day : d \in Int /\ MonthEnd[d] \in Int /\ d <= MonthEnd[d]
  BY LedgerAssumption, MonthEndFacts
<1>2. \A d \in Day : d <= period => MonthEnd[d] <= period
  BY MonthEndFacts
<1>3. \A d \in Day : from <= d /\ d <= period => MonthEnd[d] \in from .. period
  BY <1>1, <1>2
<1>4. Periods(from, period) \in SUBSET (from .. period)
  BY <1>3 DEF Periods
<1>5. IsFiniteSet(Periods(from, period))
  BY <1>1, <1>4, FS_Interval, FS_Subset
<1>6. ASSUME NEW d \in Day, from <= d
      PROVE  MonthEnd[d] \in Periods(from, period) <=> d <= period
  <2>1. d <= period => MonthEnd[d] \in Periods(from, period)
    BY <1>6 DEF Periods
  <2>2. MonthEnd[d] \in Periods(from, period) => MonthEnd[d] <= period
    BY <1>1, <1>4
  <2>3. QED
    BY <1>1, <2>1, <2>2
<1>7. QED
  BY <1>5, <1>6

(* The accounts not yet opened add nothing to what a period closes with.   *)
LEMMA ClosingIsHeld ==
    ASSUME Foundation, NEW c, NEW period \in Day
    PROVE  Closing(c, period) =
             Sum([a \in Holders(c, period) |-> Balance(accounts, rows, a, period)],
                 Holders(c, period))
<1> DEFINE B == {b \in DOMAIN accounts : accounts[b].currency = c}
           H == Holders(c, period)
<1>1. PICK f, g : /\ f = [a \in B |-> Balance(accounts, rows, a, period)]
                  /\ g = [a \in H |-> Balance(accounts, rows, a, period)]
  OBVIOUS
<1>2. H \in SUBSET B
  BY DEF Holders
<1>3. Numeric(f, B)
  <2>1. B \in SUBSET DOMAIN accounts
    OBVIOUS
  <2>2. IsFiniteSet(B)
    BY <2>1, FS_Subset DEF Foundation, FiniteAccounts
  <2>3. ASSUME NEW a \in B
        PROVE  f[a] \in Int
    <3>1. DOMAIN rows \subseteq Row /\ accounts[a].initialAmount \in Int
      BY TypeFacts DEF Foundation, IInv
    <3>2. QED
      BY <1>1, <3>1, BalanceType
  <2>4. QED
    BY <2>2, <2>3 DEF Numeric
<1>4. \A a \in B \ H : f[a] = 0
  <2>1. \A a \in B \ H : period < accounts[a].openedAt
    <3>1. period \in Int /\ \A a \in DOMAIN accounts : accounts[a].openedAt \in Int
      BY TypeFacts, LedgerAssumption DEF Foundation, IInv
    <3>2. QED
      BY <3>1 DEF Holders
  <2>2. QED
    BY <1>1, <2>1 DEF Balance
<1>5. \A a \in H : g[a] = f[a]
  BY <1>1, <1>2
<1>6. Closing(c, period) = SumFunction(f) /\ DOMAIN f = B
  BY <1>1 DEF Closing
<1> HIDE DEF B, H
<1>7. Sum(f, B) = Sum(f, H)
  BY <1>2, <1>3, <1>4, SumWithoutZeros
<1>8. Numeric(f, H)
  BY <1>2, <1>3, NumericSubset
<1>9. Sum(g, H) = Sum(f, H)
  BY <1>5, <1>8, SumSame
<1>10. QED
  BY <1>1, <1>6, <1>7, <1>9, SumOfFunction DEF H

LEMMA FoundationAddsUp ==
    ASSUME Foundation
    PROVE  ReportsAddUp
<1> SUFFICES ASSUME NEW c \in Currency, NEW from \in Day, NEW period \in MonthEnds,
                    \A r \in DOMAIN rows : from <= rows[r].date
             PROVE  Closing(c, period) = OpenedWith(c, period)
                        + SumFunction([e \in Periods(from, period) |-> LineNet(c, e)])
  BY DEF ReportsAddUp
<1> DEFINE H == Holders(c, period)
           D == DOMAIN rows
           P == Periods(from, period)
<1>1. /\ period \in Day /\ IsFiniteSet(D) /\ IsFiniteSet(P)
      /\ \A r \in D : rows[r].date \in Day
  BY MonthEndFacts, RowsFinite, PeriodsFacts, TypeFacts DEF Foundation, IInv
<1>2. PICK balance, opening, together, lines, F, G :
        /\ balance = [a \in H |-> Balance(accounts, rows, a, period)]
        /\ opening = [a \in H |-> accounts[a].initialAmount]
        /\ together = [r \in D |-> BroughtTogether(r, c, period)]
        /\ lines = [e \in P |-> LineNet(c, e)]
        /\ F = [e \in P |-> [r \in D |-> InLine(r, c, e)]]
        /\ G = [r \in D |-> [e \in P |-> InLine(r, c, e)]]
  OBVIOUS
<1>3. Closing(c, period) = Sum(balance, H)
  BY <1>1, <1>2, ClosingIsHeld
<1>4. Sum(balance, H) = Sum(opening, H) + Sum(together, D)
  BY <1>1, <1>2, HoldersHold
<1>5. OpenedWith(c, period) = Sum(opening, H)
  <2>1. OpenedWith(c, period) = SumFunction(opening) /\ DOMAIN opening = H
    BY <1>2 DEF OpenedWith
  <2> HIDE DEF H
  <2>2. QED
    BY <2>1, SumOfFunction
<1>6. SumsUp(lines, F, P, D)
  BY <1>2, LineIsSum DEF SumsUp
<1>7. SumsUp(together, G, D, P)
  <2> SUFFICES ASSUME NEW r \in D
               PROVE  together[r] = Sum(G[r], P)
    BY DEF SumsUp
  <2>1. PICK v, p : /\ v = IF rows[r].state = "active" THEN Net(c, rows[r]) ELSE 0
                    /\ p = MonthEnd[rows[r].date]
    OBVIOUS
  <2>2. /\ together[r] = IF rows[r].date <= period THEN v ELSE 0
        /\ v \in Int
    BY <1>1, <1>2, <2>1, BroughtIsNet
  <2>3. \A e \in P : G[r][e] = IF e = p THEN v ELSE 0
    BY <1>2, <2>1 DEF InLine
  <2>4. p \in P <=> rows[r].date <= period
    BY <1>1, <2>1, PeriodsFacts
  <2>5. Sum(G[r], P) = IF p \in P THEN v ELSE 0
    BY <1>1, <2>2, <2>3, SumPoint
  <2>6. QED
    BY <2>2, <2>4, <2>5
<1>8. Transposed(F, G, P, D)
  <2>1. \A e \in P, r \in D : F[e][r] = InLine(r, c, e) /\ G[r][e] = InLine(r, c, e)
    BY <1>2
  <2>2. \A e \in P : \A r \in D : InLine(r, c, e) \in Int
    BY <1>1, BroughtIsNet DEF InLine
  <2>3. QED
    BY <2>1, <2>2 DEF Transposed
<1>9. SumFunction(lines) = Sum(lines, P)
  <2>1. DOMAIN lines = P
    BY <1>2
  <2> HIDE DEF P
  <2>2. QED
    BY <2>1, SumOfFunction
<1>10. Sum(lines, P) = Sum(together, D)
  <2> HIDE DEF P, D
  <2>1. QED
    BY <1>1, <1>6, <1>7, <1>8, SumSwap
<1>11. QED
  BY <1>2, <1>3, <1>4, <1>5, <1>9, <1>10

(* The balances a period closes with are what the lines of every report    *)
(* from before the first row say: aggregating the rows by period and       *)
(* summing them up account by account come to the same.                    *)
THEOREM ReportsAlwaysAddUp == Spec => []ReportsAddUp
<1>1. Foundation => ReportsAddUp
  BY FoundationAddsUp
<1>2. QED
  BY <1>1, FoundationHolds, PTL

=============================================================================
