------------------------------ MODULE Reports -------------------------------
(***************************************************************************)
(* The period reports of a space (ReportsService, SpaceReportsService):    *)
(* for each period and currency what came in, what was spent, what         *)
(* transfers moved, and the balance the accounts close with.  A report     *)
(* reads the stored rows and accounts of module Ledger and changes         *)
(* nothing.  Categories and the split into balance and saving accounts     *)
(* only divide the sums further and are left out.                          *)
(***************************************************************************)
EXTENDS Ledger

(* The periods from the month of `from` to the month of `to`, each known   *)
(* by its end, and the rows that count in one of them.                     *)
Periods(from, to) ==
    {MonthEnd[d] : d \in {e \in Day : from <= e /\ e <= to}}

CountedIn(period, types) ==
    {r \in DOMAIN rows :
        rows[r].state = "active" /\ rows[r].type \in types
            /\ MonthEnd[rows[r].date] = period}

SourceIn(c) == {r \in DOMAIN rows : accounts[rows[r].account].currency = c}

DestinationIn(c) == {r \in DOMAIN rows : accounts[rows[r].destination].currency = c}

Amounts(S) == SumFunction([r \in S |-> rows[r].amount])

(* aggregateFinancial: the rows of one type and currency in the period.    *)
(* A row carries the currency of its account.                              *)
Financial(type, c, period) == Amounts(CountedIn(period, {type}) \cap SourceIn(c))

(* aggregateTransfers splits a transfer into a movement out of the source  *)
(* and one into the destination, each in the currency of its own account.  *)
MovedOut(c, period) == Amounts(CountedIn(period, {"transfer"}) \cap SourceIn(c))

(* Mutant of MovedIn: the movement in carries the amount that left.        *)
MovedInAsSent(c, period) ==
    Amounts(CountedIn(period, {"transfer"}) \cap DestinationIn(c))

MovedIn(c, period) ==
    SumFunction([r \in CountedIn(period, {"transfer"}) \cap DestinationIn(c) |->
        rows[r].received])

(* toTotals: what one line of the report sums up.                          *)
Totals(c, period) ==
    [incomes |-> Financial("income", c, period),
     expenses |-> Financial("expense", c, period),
     transfersIn |-> MovedIn(c, period),
     transfersOut |-> MovedOut(c, period)]

(* buildForBudget: the balances the accounts of the currency close with.   *)
Closing(c, period) ==
    SumFunction([a \in {b \in DOMAIN accounts : accounts[b].currency = c} |->
        Balance(accounts, rows, a, period)])

-----------------------------------------------------------------------------
LineNet(c, period) ==
    LET total == Totals(c, period)
    IN  total.incomes - total.expenses + total.transfersIn - total.transfersOut

OpenedWith(c, period) ==
    SumFunction([a \in Holders(c, period) |-> accounts[a].initialAmount])

(* Reports add up: in every currency the balance a period closes with is   *)
(* the opening balances of the accounts opened so far plus all that the    *)
(* lines up to that period say came in and went out, in a report that      *)
(* begins before the first row.  The two halves of a line are computed     *)
(* apart, balances account by account, totals by aggregation, over rows    *)
(* edited and deleted in any order.                                        *)
ReportsAddUp ==
    \A c \in Currency, from \in Day, period \in MonthEnds :
        (\A r \in DOMAIN rows : from <= rows[r].date) =>
            Closing(c, period) = OpenedWith(c, period)
                + SumFunction([e \in Periods(from, period) |-> LineNet(c, e)])
=============================================================================
