----------------------------- MODULE AccountBook -----------------------------
(***************************************************************************)
(* What the ledger promises its users, without rows, snapshots or          *)
(* recomputation: a book of running balances.  An entry is posted once,    *)
(* may be amended while it stands, and is reversed at most once; each of   *)
(* these moves the balances by the difference it makes, from the entry's   *)
(* date on and at no earlier day.                                          *)
(***************************************************************************)
EXTENDS Integers

CONSTANTS Account, Row, Day

VARIABLES
    book,       \* account -> day -> balance at the end of that day
    entries     \* row -> what stands posted for it

vars == <<book, entries>>

Blank == [state |-> "blank"]

Standing(r) == entries[r].state = "active"

Moved(entry, a) == IF entry.state = "active" THEN entry.moved[a] ELSE 0

Init ==
    /\ book = [a \in Account |-> [day \in Day |-> 0]]
    /\ entries = [r \in Row |-> Blank]

(* The balances move by the difference between the two entries.            *)
Move(before, after, date) ==
    book' = [a \in Account |-> [day \in Day |->
        IF day < date THEN book[a][day]
        ELSE book[a][day] + Moved(after, a) - Moved(before, a)]]

Post(r) ==
    /\ entries[r] = Blank
    /\ entries'[r].state = "active"
    /\ Move(entries[r], entries'[r], entries'[r].date)

Amend(r) ==
    /\ Standing(r)
    /\ entries'[r].state = "active"
    /\ entries'[r].date = entries[r].date
    /\ Move(entries[r], entries'[r], entries[r].date)

Reverse(r) ==
    /\ Standing(r)
    /\ entries'[r] = [entries[r] EXCEPT !.state = "deleted"]
    /\ Move(entries[r], entries'[r], entries[r].date)

Entries ==
    \E r \in Row :
        /\ Post(r) \/ Amend(r) \/ Reverse(r)
        /\ \A other \in Row \ {r} : entries'[other] = entries[other]

(* An account that no standing entry moves may be opened with an amount    *)
(* from a day on, or be struck out when it is empty on every day.          *)
Untouched(a) == \A r \in Row : Moved(entries[r], a) = 0

Open(a) ==
    /\ Untouched(a)
    /\ \E first \in Day : \A day \in Day :
        book'[a][day] = IF day < first THEN 0 ELSE book'[a][first]

Accounts ==
    /\ \E a \in Account :
        /\ Open(a)
        /\ \A day \in Day : book[a][day] = 0
        /\ \A other \in Account \ {a} : book'[other] = book[other]
    /\ UNCHANGED entries

Next == Entries \/ Accounts

Spec == Init /\ [][Next]_vars
=============================================================================
