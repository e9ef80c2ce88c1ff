------------------------------ MODULE WebWorker ------------------------------
(***************************************************************************)
(* The web application's own detection and submission: the worker process  *)
(* that hears the stream, the webhook and the consistency route that store *)
(* the same rows, the submission queue, and the route that submits by      *)
(* hand.  It shares no code with the backend, and remembers in a Set of    *)
(* its process, not in Redis, which odds it has seen.                      *)
(*                                                                         *)
(* A job of the queue is run by a slot of the worker process, which is     *)
(* told nothing when the job's lock lapses: a stalled job may run in two   *)
(* slots.  The route runs the same two calls, without a job.               *)
(*                                                                         *)
(* Its INSERTs do not fit the tables its own migrations make.              *)
(***************************************************************************)
EXTENDS Integers, Sequences, SequencesExt

CONSTANTS
  Calls,        \* updates and requests that come in
  Slots,        \* concurrency: 5, the processors of the queue's worker
  Loads,        \* what they may bring: functions to via, fixture, odds, flagged, covered
  CacheSize,    \* maxCacheSize, 10000
  Evicted,      \* 1000, how many entries are deleted when it is exceeded
  MaxAttempts,  \* attempts: 5
  MaxStalledCount, \* BullMQ's maxStalledCount, which the code leaves at 1
  Modes,        \* is the oracle client configured?
  Schemas,      \* which tables may be adapted to the INSERTs, not as the migrations make them
  MaxFaults,    \* bound: calls that fail for a reason of their own, locks that lapse, deaths
  None

VARIABLES
  update,       \* what each call brings
  adapted, configured,
  pc,           \* where each call stands in the pipeline or its route
  processed,    \* processedSnapshots, in the order of insertion
  snaps, checks, announced, \* the calls that stored or published theirs
  job, attempts, stalls, lock, \* the queue: the job of each call, and the slot that locks it
  at, of, tx,   \* each runner's await, the call it runs for, its signature (0: unsubmitted)
  sent,         \* transactions sent for a call
  proofs,       \* rows of proof_log: the call and the signature
  faults

inputs == <<update, adapted, configured>>
rows   == <<snaps, checks, announced>>
bull   == <<job, attempts, stalls, lock>>
runs   == <<at, of, tx>>
chain  == <<sent, proofs>>
vars   == <<inputs, pc, processed, rows, bull, runs, chain, faults>>

Inserting == {"snapshot", "check"}
Handling  == {"load", "publish", "enqueue"} \cup Inserting
Finished  == {"completed", "failed"}

Via(c) == update[c].via

(* What can await the two calls of a submission: a slot, or the handler of *)
(* a request to the route.                                                 *)
Runners == Slots \cup Calls

Init ==
  /\ update \in Loads
  /\ adapted \in Schemas /\ configured \in Modes
  /\ pc = [c \in Calls |-> "new"] /\ processed = <<>>
  /\ snaps = {} /\ checks = {} /\ announced = {} /\ proofs = {}
  /\ job = [c \in Calls |-> "none"] /\ lock = [c \in Calls |-> None]
  /\ attempts = [c \in Calls |-> 0] /\ stalls = [c \in Calls |-> 0]
  /\ at = [p \in Runners |-> "idle"] /\ of = [p \in Runners |-> None]
  /\ tx = [p \in Runners |-> None] /\ sent = [c \in Calls |-> 0]
  /\ faults = 0

Goto(c, label) == pc' = [pc EXCEPT ![c] = label]
Fault == faults < MaxFaults /\ faults' = faults + 1

-----------------------------------------------------------------------------
(* What the migrations make of each table, which of its columns an INSERT  *)
(* must name, and the columns the INSERTs of this program name.            *)

ColumnsOf ==
  [odds_snapshots |-> {"id", "fixture_id", "market_type", "raw_odds", "implied_probabilities",
     "bookmaker_margin", "snapshot_hash", "txline_proof_ref", "txline_timestamp", "ingested_at",
     "markets", "proof_ref"},
   consistency_checks |-> {"id", "fixture_id", "market_set", "summed_implied_probability",
     "is_consistent", "margin", "optimal_stakes", "odds_snapshot_hash", "txline_proof_ref",
     "on_chain_tx", "on_chain_status", "created_at", "margin_bps"},
   proof_log |-> {"id", "check_id", "fixture_id", "consensus", "margin", "on_chain_slot",
     "on_chain_tx", "summary", "logged_at", "action", "slot", "signature", "metadata"}]

RequiredOf ==
  [odds_snapshots |-> {"fixture_id", "market_type", "raw_odds", "implied_probabilities",
     "snapshot_hash"},
   consistency_checks |-> {"fixture_id", "market_set", "summed_implied_probability",
     "is_consistent", "odds_snapshot_hash"},
   proof_log |-> {"check_id", "fixture_id", "consensus"}]

InsertedInto ==
  [odds_snapshots |-> {"fixture_id", "snapshot_hash", "markets", "proof_ref", "created_at"},
   consistency_checks |-> {"fixture_id", "is_consistent", "margin_bps", "market_set",
     "odds_snapshot_hash", "txline_proof_ref"},
   proof_log |-> {"fixture_id", "action", "signature", "slot", "block_time", "metadata"}]

Takes(table) ==
  \/ table \in adapted
  \/ RequiredOf[table] \subseteq InsertedInto[table] /\ InsertedInto[table] \subseteq ColumnsOf[table]

-----------------------------------------------------------------------------
(* DetectionPipeline.processOddsUpdate                                     *)

(* A Set iterates in insertion order: the oldest go first.                 *)
Remember(odds) ==
  LET added == Append(processed, odds) IN
  IF Len(added) > CacheSize
    THEN SubSeq(added, (IF Evicted < Len(added) THEN Evicted ELSE Len(added)) + 1, Len(added))
    ELSE added

(* Without a fixture or markets it is nothing.  The hash is of the odds    *)
(* alone, whatever fixture they are of, and is remembered before anything  *)
(* is stored.                                                              *)
Malformed(c) == update[c].odds = None

Receive(c) ==
  /\ pc[c] = "new" /\ Via(c) = "stream"
  /\ \/ Malformed(c) /\ Goto(c, "ignored") /\ UNCHANGED processed
     \/ /\ ~Malformed(c) /\ update[c].odds \in Range(processed)
        /\ Goto(c, "skipped") /\ UNCHANGED processed
     \/ /\ ~Malformed(c) /\ update[c].odds \notin Range(processed)
        /\ Goto(c, "load") /\ processed' = Remember(update[c].odds)
  /\ UNCHANGED <<inputs, rows, bull, runs, chain, faults>>

(* The covering sets come from oracle_config or, failing that, from the    *)
(* code; the first that the update covers is checked, and no other.        *)
LoadCoveringSets(c) ==
  /\ pc[c] = "load"
  /\ Goto(c, IF update[c].covered THEN "snapshot" ELSE "ignored")
  /\ UNCHANGED <<inputs, processed, rows, bull, runs, chain, faults>>

(* The webhook stores what it is sent as often as it is sent, and checks   *)
(* it when it has two markets.                                             *)
Webhook(c) ==
  /\ pc[c] = "new" /\ Via(c) = "webhook"
  /\ Goto(c, "snapshot")
  /\ UNCHANGED <<inputs, processed, rows, bull, runs, chain, faults>>

(* POST /api/consistency: a check without a snapshot.                      *)
ConsistencyRoute(c) ==
  /\ pc[c] = "new" /\ Via(c) = "check"
  /\ Goto(c, "check")
  /\ UNCHANGED <<inputs, processed, rows, bull, runs, chain, faults>>

InsertSnapshot(c) ==
  /\ pc[c] = "snapshot" /\ Takes("odds_snapshots")
  /\ snaps' = snaps \cup {c}
  /\ Goto(c, IF Via(c) = "stream" \/ update[c].covered THEN "check" ELSE "done")
  /\ UNCHANGED <<inputs, processed, checks, announced, bull, runs, chain, faults>>

InsertCheck(c) ==
  /\ pc[c] = "check" /\ Takes("consistency_checks")
  /\ checks' = checks \cup {c}
  /\ Goto(c, IF update[c].flagged /\ Via(c) # "check" THEN "publish" ELSE "done")
  /\ UNCHANGED <<inputs, processed, snaps, announced, bull, runs, chain, faults>>

(* Every rejection is caught: the pipeline answers null and the routes 500.*)
InsertFails(c) ==
  /\ pc[c] \in Inserting
  /\ Goto(c, "failed")
  /\ IF Takes(IF pc[c] = "snapshot" THEN "odds_snapshots" ELSE "consistency_checks")
       THEN Fault ELSE UNCHANGED faults
  /\ UNCHANGED <<inputs, processed, rows, bull, runs, chain>>

PublishMutant(c) ==
  /\ pc[c] = "publish"
  /\ announced' = announced \cup {c}
  /\ Goto(c, "done")
  /\ UNCHANGED <<inputs, processed, snaps, checks, bull, runs, chain, faults>>

Publish(c) ==
  /\ pc[c] = "publish"
  /\ announced' = announced \cup {c}
  /\ Goto(c, IF Via(c) = "stream" THEN "enqueue" ELSE "done")
  /\ UNCHANGED <<inputs, processed, snaps, checks, bull, runs, chain, faults>>

(* The check is stored, and the null the pipeline answers keeps it out of  *)
(* the queue.                                                              *)
PublishFails(c) ==
  /\ pc[c] = "publish" /\ Fault /\ Goto(c, "failed")
  /\ UNCHANGED <<inputs, processed, rows, bull, runs, chain>>

(* worker.ts: the result is inconsistent, and nobody awaits the queue.     *)
Enqueue(c) ==
  /\ pc[c] = "enqueue"
  /\ job' = [job EXCEPT ![c] = "wait"]
  /\ Goto(c, "done")
  /\ UNCHANGED <<inputs, processed, rows, attempts, stalls, lock, runs, chain, faults>>

EnqueueFails(c) ==
  /\ pc[c] = "enqueue" /\ Fault /\ Goto(c, "failed")
  /\ UNCHANGED <<inputs, processed, rows, bull, runs, chain>>

-----------------------------------------------------------------------------
(* The queue's processor, and POST /api/oracle/submit which runs the same  *)
(* two calls once and answers 500 when one of them fails.                  *)

Begin(p, c) ==
  /\ at[p] = "idle"
  /\ at' = [at EXCEPT ![p] = "submit"] /\ of' = [of EXCEPT ![p] = c]
  /\ UNCHANGED tx

(* A slot takes a waiting job and locks it.                                *)
Take(s, c) ==
  /\ job[c] = "wait" /\ Begin(s, c)
  /\ job' = [job EXCEPT ![c] = "active"] /\ lock' = [lock EXCEPT ![c] = s]
  /\ UNCHANGED <<inputs, pc, processed, rows, attempts, stalls, chain, faults>>

SubmitRoute(c) ==
  /\ pc[c] = "new" /\ Via(c) = "submit"
  /\ Goto(c, "submitted") /\ Begin(c, c)
  /\ UNCHANGED <<inputs, processed, rows, bull, chain, faults>>

(* rpc() sends the transaction and waits until it is confirmed.            *)
Submit(p) ==
  /\ at[p] = "submit"
  /\ IF configured
       THEN /\ sent' = [sent EXCEPT ![of[p]] = @ + 1] /\ tx' = [tx EXCEPT ![p] = sent'[of[p]]]
       ELSE /\ tx' = [tx EXCEPT ![p] = 0] /\ UNCHANGED sent
  /\ at' = [at EXCEPT ![p] = "prove"]
  /\ UNCHANGED <<inputs, pc, processed, rows, bull, of, proofs, faults>>

(* The await at "finish" is the answer to the INSERT.                      *)
InsertProof(p) ==
  /\ at[p] = "prove" /\ Takes("proof_log")
  /\ proofs' = proofs \cup {<<of[p], tx[p]>>}
  /\ at' = [at EXCEPT ![p] = "finish"]
  /\ UNCHANGED <<inputs, pc, processed, rows, bull, of, tx, sent, faults>>

(* The runner is over; the route answers 200 or 500.                       *)
Leave(p, outcome) ==
  /\ at' = [at EXCEPT ![p] = "idle"] /\ of' = [of EXCEPT ![p] = None]
  /\ tx' = [tx EXCEPT ![p] = None]
  /\ IF p \in Slots THEN UNCHANGED pc ELSE Goto(p, outcome)

(* BullMQ moves a job only for the slot that holds its lock.               *)
HoldsLock(p) == lock[of[p]] = p

AttemptsLeftMutant(c) == TRUE
AttemptsLeft(c) == attempts[c] + 1 < MaxAttempts

(* The call throws: BullMQ tries the whole job again, or the route gives   *)
(* up.                                                                     *)
Throw(p) ==
  /\ IF HoldsLock(p)
       THEN /\ attempts' = [attempts EXCEPT ![of[p]] = @ + 1]
            /\ job' = [job EXCEPT ![of[p]] = IF AttemptsLeft(of[p]) THEN "wait" ELSE "failed"]
            /\ lock' = [lock EXCEPT ![of[p]] = None]
            /\ UNCHANGED stalls
       ELSE UNCHANGED bull
  /\ Leave(p, "failed")

(* rpc() throws before it sends, or after: its confirmation timed out.     *)
SubmitFails(p) ==
  /\ at[p] = "submit" /\ configured /\ Fault
  /\ sent' \in {sent, [sent EXCEPT ![of[p]] = @ + 1]}
  /\ Throw(p)
  /\ UNCHANGED <<inputs, processed, rows, proofs>>

(* What was sent stays sent, and a row whose answer is lost is a row.      *)
InsertProofFails(p) ==
  /\ at[p] \in {"prove", "finish"}
  /\ IF Takes("proof_log") THEN Fault ELSE UNCHANGED faults
  /\ Throw(p)
  /\ UNCHANGED <<inputs, processed, rows, chain>>

Finish(p) ==
  /\ at[p] = "finish"
  /\ IF HoldsLock(p)
       THEN /\ job' = [job EXCEPT ![of[p]] = "completed"] /\ lock' = [lock EXCEPT ![of[p]] = None]
            /\ UNCHANGED <<attempts, stalls>>
       ELSE UNCHANGED bull
  /\ Leave(p, "done")
  /\ UNCHANGED <<inputs, processed, rows, chain, faults>>

(* Nobody renewed the lock in time; the slot knows nothing of it.          *)
LoseLock(c) ==
  /\ lock[c] # None /\ Fault /\ lock' = [lock EXCEPT ![c] = None]
  /\ UNCHANGED <<inputs, pc, processed, rows, job, attempts, stalls, runs, chain>>

RecoverStalled(c) ==
  /\ job[c] = "active" /\ lock[c] = None
  /\ stalls' = [stalls EXCEPT ![c] = @ + 1]
  /\ job' = [job EXCEPT ![c] = IF stalls[c] < MaxStalledCount THEN "wait" ELSE "failed"]
  /\ UNCHANGED <<inputs, pc, processed, rows, attempts, lock, runs, chain, faults>>

(* The worker dies and starts again with an empty Set; the locks of its    *)
(* slots lapse.  The routes live in another process.                       *)
Crash ==
  /\ Fault /\ processed' = <<>>
  /\ pc' = [c \in Calls |-> IF Via(c) = "stream" /\ pc[c] \in Handling THEN "failed" ELSE pc[c]]
  /\ at' = [p \in Runners |-> IF p \in Slots THEN "idle" ELSE at[p]]
  /\ of' = [p \in Runners |-> IF p \in Slots THEN None ELSE of[p]]
  /\ tx' = [p \in Runners |-> IF p \in Slots THEN None ELSE tx[p]]
  /\ lock' = [c \in Calls |-> None]
  /\ UNCHANGED <<inputs, rows, job, attempts, stalls, chain>>

Pipeline(c) ==
  \/ Receive(c) \/ LoadCoveringSets(c) \/ Webhook(c) \/ ConsistencyRoute(c)
  \/ InsertSnapshot(c) \/ InsertCheck(c) \/ InsertFails(c)
  \/ Publish(c) \/ PublishFails(c) \/ Enqueue(c) \/ EnqueueFails(c)

Submission(p) ==
  \/ Submit(p) \/ SubmitFails(p) \/ InsertProof(p) \/ InsertProofFails(p) \/ Finish(p)

Queue(c) == SubmitRoute(c) \/ LoseLock(c) \/ RecoverStalled(c) \/ \E s \in Slots : Take(s, c)

Next ==
  \/ Crash
  \/ \E c \in Calls : Pipeline(c) \/ Queue(c)
  \/ \E p \in Runners : Submission(p)

Spec == Init /\ [][Next]_vars

-----------------------------------------------------------------------------
(* A runner has a call exactly when it is busy; a lock is of an active job *)
(* and held by a slot that runs it.                                        *)
TypeOK ==
  /\ Len(processed) <= CacheSize
  /\ \A c \in Calls :
       /\ pc[c] \in {"new", "skipped", "ignored", "failed", "done", "submitted"} \cup Handling
       /\ job[c] \in {"none", "wait", "active"} \cup Finished
       /\ lock[c] # None => lock[c] \in Slots /\ of[lock[c]] = c /\ job[c] = "active"
  /\ \A p \in Runners : /\ at[p] \in {"idle", "submit", "prove", "finish"}
                        /\ at[p] = "idle" <=> of[p] = None

Recorded(c) == c \in checks
AtWork(c)   == pc[c] \in {"load"} \cup Inserting

(* An update of the stream is left out of the table only for one of the    *)
(* causes the code has: no covering set, the same odds of an update of the *)
(* stream (another fixture's, it may be) recorded or being recorded, a     *)
(* failing statement, or the death of the worker.  And one that is recorded*)
(* and flagged is in the queue, unless its announcement or its job failed. *)
LeftOutForCause ==
  {"odds_snapshots", "consistency_checks"} \subseteq adapted /\ faults = 0 =>
    \A c \in Calls : Via(c) = "stream" =>
      /\ pc[c] = "skipped" =>
           \E d \in Calls : /\ Via(d) = "stream" /\ update[d].odds = update[c].odds
                            /\ Recorded(d) \/ AtWork(d) \/ pc[d] = "ignored"
      /\ pc[c] = "done" /\ update[c].flagged => Recorded(c) /\ job[c] # "none"

(* A job is of a flagged check that is recorded and announced, a row of    *)
(* proof_log shows a transaction sent for its own check, and a completed   *)
(* job has a row.  However often the queue repeats a submission whose row  *)
(* it could not write, beside whatever runs outlived their locks, a check  *)
(* is sent at most once per attempt and once per tolerated stall; one      *)
(* submitted by hand is sent once.                                         *)
ProofsFollowSubmissions ==
  /\ \A c \in Calls : job[c] # "none" => c \in snaps \cap checks \cap announced /\ update[c].flagged
  /\ \A row \in proofs : row[2] \in 0 .. sent[row[1]]
  /\ \A c \in Calls : job[c] = "completed" => \E row \in proofs : row[1] = c
  /\ \A c \in Calls :
       sent[c] <= IF Via(c) = "submit" THEN 1 ELSE MaxAttempts + MaxStalledCount

(* The web page says that every check produces a proof committed to Solana *)
(* (app/page.tsx): the check of an update the stream brought goes on to    *)
(* the queue unless something failed.  On the tables the migrations make   *)
(* its first INSERT fails, and the answer null ends it.                    *)
ChecksAreSubmitted ==
  faults = 0 =>
    \A c \in Calls : Via(c) = "stream" /\ pc[c] \in {"failed", "done"} => job[c] # "none"
=============================================================================
