----------------------------- MODULE MCWritePath -----------------------------
(* Small instances of WritePath for TLC. *)
EXTENDS WritePathInvariant, TLC

UserSymmetry == Permutations(Users)
=============================================================================
