----------------------------- MODULE MCPlanning -----------------------------
(* A space with one wallet, two categories, two currencies and two days,   *)
(* whose owner alone holds the three permissions.                          *)
EXTENDS Planning, TLC

CONSTANTS usd, wallet, owner

MCCurrencyOf == wallet :> usd

MCOpenedAt == wallet :> 1

MCManager == [p \in {"transactions", "categories", "limits"} |-> {owner}]

Ids ==
    Permutations(Category) \cup Permutations(Name) \cup Permutations(Expense)
        \cup Permutations(Limit) \cup Permutations(Plan)
=============================================================================
