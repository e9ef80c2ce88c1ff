---------------------------- MODULE MCDetection ----------------------------
(* Two fixtures, two deliveries from the stream and one from the replay,   *)
(* of two updates: one quotes match_winner, which puts that set on the     *)
(* list twice, and over_under; the other one flagged market of a fixture   *)
(* that the fixtures table may not hold.  The replay's connection breaks.  *)
EXTENDS DetectionPipeline, TLC

CONSTANTS f1, f2, h1, d1, d2, r1

MCFixtures   == {f1, f2}
MCHashes     == {h1}
MCSingle     == <<{"match_winner"}>>
MCCovering   == <<{"match_winner"}, {"over_under"}>>
MCFlagged    == {<<f1, {"match_winner"}, h1>>, <<f2, {"over_under"}, h1>>}
MCUpdates    ==
  {[fixture |-> f1, hash |-> h1, types |-> {"match_winner", "over_under"}],
   [fixture |-> f2, hash |-> h1, types |-> {"over_under"}]}
MCDeliveries == {d1, d2, r1}
MCTwo        == {d1, r1}
MCReplays    == {r1}

(* d1 and d2 are interchangeable. *)
StreamSymmetry == Permutations({d1, d2})
=============================================================================
