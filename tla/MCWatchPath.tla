----------------------------- MODULE MCWatchPath -----------------------------
(* Small instances of WatchPath for TLC. *)
EXTENDS WatchPath

WatchSymmetry == Permutations(Targets) \cup Permutations(Docs)
=============================================================================
