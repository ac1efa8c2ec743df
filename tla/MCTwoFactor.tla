---------------------------- MODULE MCTwoFactor -----------------------------
(* Two requests in flight over one credential.                             *)
EXTENDS TwoFactor, TLC

Ids == Permutations(Request) \cup Permutations(Challenge)
=============================================================================
