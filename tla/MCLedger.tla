------------------------------ MODULE MCLedger ------------------------------
(***************************************************************************)
(* Small instances of Ledger for TLC: a month of two days and one of one.  *)
(***************************************************************************)
EXTENDS Reports, TLC

MCDay == 1 .. 3

MCMonthEnd == [d \in MCDay |-> IF d <= 2 THEN 2 ELSE 3]

Ids == Permutations(Account) \cup Permutations(Row) \cup Permutations(Currency)
=============================================================================
