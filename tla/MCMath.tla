------------------------------- MODULE MCMath -------------------------------
(* Every two-way market and every three-way market with odds from 0.5 to   *)
(* MaxOdds halves.                                                         *)
EXTENDS ConsistencyMath

CONSTANT MaxOdds

MCVectors == [1 .. 2 -> 1 .. MaxOdds] \cup [1 .. 3 -> 1 .. MaxOdds]
=============================================================================
