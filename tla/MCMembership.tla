---------------------------- MODULE MCMembership ----------------------------
(***************************************************************************)
(* Small instances of Membership for TLC.                                  *)
(***************************************************************************)
EXTENDS Membership, TLC

Ids == Permutations(User) \cup Permutations(Invitation) \cup Permutations(Permission)
=============================================================================
