------------------------------ MODULE DebtBook ------------------------------
(***************************************************************************)
(* What the debts of a space promise, without documents: a debt has an     *)
(* amount lent, an amount still owed, and a life.  While it is `untouched` *)
(* it may be restated or struck out; from its first payment on it is       *)
(* `touched` for ever, and `final` debts never move again.                 *)
(***************************************************************************)
EXTENDS Integers

CONSTANTS Debt, MaxAmount

VARIABLE book      \* debt -> [principal, owed, life]; "none" when NotLent

NotLent == [principal |-> 0, owed |-> 0, life |-> "none"]

Entry(principal, owed, life) ==
    [principal |-> principal, owed |-> owed, life |-> life]

Init == book = [d \in Debt |-> NotLent]

Lend(d, principal) ==
    /\ book[d].life = "none"
    /\ book' = [book EXCEPT ![d] = Entry(principal, principal, "untouched")]

Restate(d, principal) ==
    /\ book[d].life = "untouched"
    /\ book' = [book EXCEPT ![d] = Entry(principal, principal, "untouched")]

StrikeOut(d) ==
    /\ book[d].life = "untouched"
    /\ book' = [book EXCEPT ![d] = NotLent]

Pay(d, amount) ==
    /\ book[d].life \in {"untouched", "touched"}
    /\ amount <= book[d].owed
    /\ book' = [book EXCEPT ![d] =
            Entry(@.principal, @.owed - amount, "touched")]

TakeBack(d, amount) ==
    /\ book[d].life = "touched"
    /\ book[d].owed + amount <= book[d].principal
    /\ book' = [book EXCEPT ![d].owed = @ + amount]

Finish(d) ==
    /\ book[d].life \in {"untouched", "touched"}
    /\ book' = [book EXCEPT ![d].life = "final"]

Next ==
    \E d \in Debt :
        \/ \E amount \in 1 .. MaxAmount :
               Lend(d, amount) \/ Restate(d, amount)
                   \/ Pay(d, amount) \/ TakeBack(d, amount)
        \/ StrikeOut(d)
        \/ Finish(d)

Spec == Init /\ [][Next]_book
=============================================================================
