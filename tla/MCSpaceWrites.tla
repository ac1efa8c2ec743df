--------------------------- MODULE MCSpaceWrites ----------------------------
(***************************************************************************)
(* Small instances of SpaceWrites for TLC.                                 *)
(***************************************************************************)
EXTENDS SpaceWrites, TLC

Ids == Permutations(Request)
=============================================================================
