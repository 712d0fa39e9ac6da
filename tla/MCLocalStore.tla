----------------------------- MODULE MCLocalStore -----------------------------
(* LocalStore for TLC.                                                         *)
EXTENDS LocalStore, TLC

CONSTANTS q1, q2, k1, k2

MCContents == {{}, {q1, q2}}

MCKeySymmetry == Permutations(Keys)
===============================================================================
