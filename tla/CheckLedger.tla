---------------------------- MODULE CheckLedger ----------------------------
(***************************************************************************)
(* What the detection pipeline promises its readers, with nothing of how   *)
(* it keeps the promise: a (fixture, market set, snapshot hash) is claimed *)
(* once, then gets one row, then that row's one job, and nothing is taken  *)
(* back.  A failure may leave a key where it stands for ever.              *)
(***************************************************************************)

CONSTANTS Keys, Rows

VARIABLES claimed, row, job

vars == <<claimed, row, job>>

Init ==
  /\ claimed = {}
  /\ row = [k \in Keys |-> {}]
  /\ job = [k \in Keys |-> {}]

Claim(k) ==
  /\ k \notin claimed
  /\ claimed' = claimed \cup {k}
  /\ UNCHANGED <<row, job>>

Record(k, r) ==
  /\ k \in claimed
  /\ row[k] = {}
  /\ row' = [row EXCEPT ![k] = {r}]
  /\ UNCHANGED <<claimed, job>>

Queue(k) ==
  /\ row[k] # {}
  /\ job[k] = {}
  /\ job' = [job EXCEPT ![k] = row[k]]
  /\ UNCHANGED <<claimed, row>>

Next == \E k \in Keys : Claim(k) \/ (\E r \in Rows : Record(k, r)) \/ Queue(k)

Spec == Init /\ [][Next]_vars
=============================================================================
