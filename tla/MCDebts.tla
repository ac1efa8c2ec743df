------------------------------ MODULE MCDebts -------------------------------
(* A space of an owner and one more member who may not manage the rows of  *)
(* others, a wallet in one of two currencies, and a debt of up to two      *)
(* minor units in either.                                                  *)
EXTENDS Debts, TLC

CONSTANTS usd, wallet

MCCurrencyOf == wallet :> usd

MCOpenedAt == wallet :> 1

Ids == Permutations(Repayment) \cup Permutations(Income)
=============================================================================
