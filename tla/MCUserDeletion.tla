--------------------------- MODULE MCUserDeletion ---------------------------
(***************************************************************************)
(* Small instances of UserDeletion for TLC.                                *)
(***************************************************************************)
EXTENDS UserDeletion, TLC

Ids == Permutations(User) \cup Permutations(Worker)
=============================================================================
