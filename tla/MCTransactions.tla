---------------------------- MODULE MCTransactions ----------------------------
(* Transactions for TLC.                                                       *)
EXTENDS Transactions, TLC
===============================================================================
