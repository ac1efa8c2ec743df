---------------------------- MODULE SerialSpace -----------------------------
(***************************************************************************)
(* What the write path of a space promises: requests take effect one at a  *)
(* time, a financial write only by a user who is a member at that moment   *)
(* of a space that is not deleted at that moment.                          *)
(***************************************************************************)
EXTENDS Integers

CONSTANTS User, Owner

VARIABLES
    alive,      \* the space is not deleted
    member,     \* its active members
    written     \* the number of financial writes

Init == alive = TRUE /\ member \in {s \in SUBSET User : Owner \in s} /\ written = 0

Write(u) ==
    /\ alive /\ u \in member
    /\ written' = written + 1
    /\ UNCHANGED <<alive, member>>

Join(u) ==
    /\ alive /\ u \notin member
    /\ member' = member \cup {u}
    /\ UNCHANGED <<alive, written>>

Leave(u) ==
    /\ alive /\ u \in member \ {Owner}
    /\ member' = member \ {u}
    /\ UNCHANGED <<alive, written>>

Delete ==
    /\ alive
    /\ alive' = FALSE /\ member' = {}
    /\ UNCHANGED written

Next == (\E u \in User : Write(u) \/ Join(u) \/ Leave(u)) \/ Delete

Spec == Init /\ [][Next]_<<alive, member, written>>
=============================================================================
