------------------------------ MODULE MCStream ------------------------------
(* Every sequence of three events; a heartbeat shorter than an odds update *)
(* and longer than a comment, so that its stale cut can fall into the next *)
(* event, behind it, or into the one after; one retry, two fixtures.       *)
EXTENDS Ingestion

MCLength == [k \in Kinds |-> CASE k = "odds" -> 3 [] k = "heartbeat" -> 2 [] k = "other" -> 1]
=============================================================================
