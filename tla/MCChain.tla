------------------------------ MODULE MCChain ------------------------------
(* Two checks of one fixture that contradict each other, a fixture without *)
(* checks, the workers' key and another one, margins on both sides of the  *)
(* limit, and limits low enough for both counters to reach theirs.         *)
EXTENDS TrustChain

CONSTANTS f1, f2, backend, other

MCFixtures == {f1, f2}
MCPubkeys  == {backend, other}
MCMargins  == {-2, 0, 1}
MCChecks   == {[fixture |-> f1, consistent |-> TRUE, margin |-> 1],
               [fixture |-> f1, consistent |-> FALSE, margin |-> 0]}
=============================================================================
