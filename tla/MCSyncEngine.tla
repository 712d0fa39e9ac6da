----------------------------- MODULE MCSyncEngine -----------------------------
(* SyncEngine for TLC.                                                         *)
EXTENDS SyncEngine, TLC

CONSTANTS everything, ones, l1, l2

\* `everything' matches every document, `ones' those with the content 1.
MCMatches(q, v) == q = everything \/ v = 1

MCQuiet == [documentMetadata |-> FALSE, queryMetadata |-> FALSE, waitForSync |-> FALSE]
MCEager == [documentMetadata |-> TRUE, queryMetadata |-> TRUE, waitForSync |-> TRUE]

MCOptionsOf == [l \in Listeners |-> IF l = l1 THEN MCQuiet ELSE MCEager]
MCLimitOne == [q \in Queries |-> IF q = everything THEN 1 ELSE NoLimit]
===============================================================================
