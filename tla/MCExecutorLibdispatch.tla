------------------------ MODULE MCExecutorLibdispatch ------------------------
(* ExecutorLibdispatch for TLC.                                              *)
EXTENDS ExecutorLibdispatch, TLC

MCAddressSymmetry == Permutations(Addresses)
==============================================================================
