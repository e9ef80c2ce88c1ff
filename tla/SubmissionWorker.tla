-------------------------- MODULE SubmissionWorker --------------------------
(***************************************************************************)
(* The on-chain submission worker: the job processor of                    *)
(* apps/backend/src/chain/queue.ts with the OracleClient it calls and the  *)
(* two tables it updates, on a BullMQ queue that runs several jobs at once,*)
(* retries a processor that throws, and runs again a job whose lock nobody *)
(* renewed: at least once, never exactly once.                             *)
(*                                                                         *)
(* A slot is one of the worker's concurrent processors.  pc names the      *)
(* await it stands at.  A transaction is <<job, n>>, the n-th that the RPC *)
(* node accepted for the job; <<job, 0>> is the job's "sim:" signature.    *)
(***************************************************************************)
EXTENDS Naturals

CONSTANTS
  Jobs,             \* one per consistency check
  Slots,            \* concurrency: 5 in the code
  FlaggedJobs,      \* jobs whose check has a proof_log row
  Modes,            \* is SOLANA_ORACLE_PROGRAM_ID set? FALSE is simulation
  ConfigRoles,      \* roles the client may give the config account: 2 in the code
  MaxAttempts,      \* attempts: 5 in the code
  MaxStalledCount,  \* BullMQ's maxStalledCount, which the code leaves at 1
  MaxFaults,        \* bound: failed or unanswered calls, missed renewals
  MaxCrashes,       \* bound: restarts of the worker
  None

ASSUME WorkerAssumption ==
  /\ FlaggedJobs \subseteq Jobs
  /\ Modes \subseteq BOOLEAN
  /\ ConfigRoles \subseteq 0 .. 3
  /\ MaxAttempts \in Nat \ {0}
  /\ MaxStalledCount \in Nat /\ MaxFaults \in Nat /\ MaxCrashes \in Nat
  /\ None \notin Jobs /\ None \notin Slots /\ None \notin Jobs \X Nat

VARIABLES
  queue, attempts, stalls, lock,  \* BullMQ, per job
  pc, job, sig,                   \* per slot: its await, its job, the signature
  status, checkTx, logTx,         \* per job: on_chain_status, on_chain_tx twice
  sent,                           \* per job: transactions the RPC node accepted
  live, role,                     \* the process's mode and its config role
  faults, crashes

queueVars == <<queue, attempts, stalls, lock>>
slotVars  == <<pc, job, sig>>
rowVars   == <<status, checkTx, logTx>>
envVars   == <<live, role>>
vars      == <<queueVars, slotVars, rowVars, sent, envVars, faults, crashes>>

Finished == {"completed", "failed"}
Queue    == {"wait", "active", "delayed"} \cup Finished
PCs      == {"idle", "submit", "updateCheck", "updateLog", "finish", "markFailed", "rethrow"}
Txs      == Jobs \X Nat

-----------------------------------------------------------------------------
Init ==
  /\ queue    = [j \in Jobs |-> "wait"]
  /\ attempts = [j \in Jobs |-> 0]
  /\ stalls   = [j \in Jobs |-> 0]
  /\ lock     = [j \in Jobs |-> None]
  /\ pc  = [s \in Slots |-> "idle"]
  /\ job = [s \in Slots |-> None]
  /\ sig = [s \in Slots |-> None]
  /\ status  = [j \in Jobs |-> "pending"]
  /\ checkTx = [j \in Jobs |-> None]
  /\ logTx   = [j \in Jobs |-> None]
  /\ sent = [j \in Jobs |-> 0]
  /\ live \in Modes /\ role \in ConfigRoles
  /\ faults = 0 /\ crashes = 0

Goto(s, label) == pc' = [pc EXCEPT ![s] = label]

Fault == faults < MaxFaults /\ faults' = faults + 1

TakeMutant(s, j) ==
  /\ pc[s] = "idle"
  /\ queue[j] \in {"wait", "active"}
  /\ queue' = [queue EXCEPT ![j] = "active"]
  /\ lock'  = [lock EXCEPT ![j] = s]
  /\ job'   = [job EXCEPT ![s] = j]
  /\ Goto(s, "submit")
  /\ UNCHANGED <<attempts, stalls, sig, rowVars, sent, envVars, faults, crashes>>

(* The slot takes a waiting job and locks it for lockDuration. *)
Take(s, j) ==
  /\ pc[s] = "idle"
  /\ queue[j] = "wait"
  /\ queue' = [queue EXCEPT ![j] = "active"]
  /\ lock'  = [lock EXCEPT ![j] = s]
  /\ job'   = [job EXCEPT ![s] = j]
  /\ Goto(s, "submit")
  /\ UNCHANGED <<attempts, stalls, sig, rowVars, sent, envVars, faults, crashes>>

-----------------------------------------------------------------------------
(* OracleClient.submitConsistencyCheck *)

Simulate(s) ==
  /\ pc[s] = "submit" /\ ~live
  /\ sig' = [sig EXCEPT ![s] = <<job[s], 0>>]
  /\ Goto(s, "updateCheck")
  /\ UNCHANGED <<queueVars, job, rowVars, sent, envVars, faults, crashes>>

(* An AccountRole of web3.js is two bits: 2 for a signer, 1 for writable.  *)
(* The config account is the program's own and has no key to sign with, so *)
(* as a signer it fails the signing; and submit_check declares it mut, so  *)
(* read-only it fails the preflight simulation.  Either way nothing is     *)
(* sent, and the client throws.                                            *)
ConfigSigns    == role \in {2, 3}
ConfigWritable == role \in {1, 3}
AccountsMatch  == ~ConfigSigns /\ ConfigWritable

WrongAccounts(s) ==
  /\ pc[s] = "submit" /\ live
  /\ ~AccountsMatch
  /\ Goto(s, "markFailed")
  /\ UNCHANGED <<queueVars, job, sig, rowVars, sent, envVars, faults, crashes>>

(* sendTransaction: the node took the transaction.  Nothing waits for it   *)
(* to land.                                                                *)
Accepted(s) ==
  /\ pc[s] = "submit" /\ live /\ AccountsMatch
  /\ sent' = [sent EXCEPT ![job[s]] = @ + 1]

Send(s) ==
  /\ Accepted(s)
  /\ sig' = [sig EXCEPT ![s] = <<job[s], sent'[job[s]]>>]
  /\ Goto(s, "updateCheck")
  /\ UNCHANGED <<queueVars, job, rowVars, envVars, faults, crashes>>

(* The node took it and the answer was lost: the client throws. *)
SendUnanswered(s) ==
  /\ Accepted(s)
  /\ Goto(s, "markFailed")
  /\ Fault
  /\ UNCHANGED <<queueVars, job, sig, rowVars, envVars, crashes>>

SubmitErrorMutant(s) ==
  /\ pc[s] = "submit" /\ live
  /\ Goto(s, "updateCheck")
  /\ Fault
  /\ UNCHANGED <<queueVars, job, sig, rowVars, sent, envVars, crashes>>

(* No payer key, no blockhash, a preflight the program refuses for another *)
(* reason (config not initialised, another signer), or a refused send.     *)
SubmitError(s) ==
  /\ pc[s] = "submit" /\ live
  /\ Goto(s, "markFailed")
  /\ Fault
  /\ UNCHANGED <<queueVars, job, sig, rowVars, sent, envVars, crashes>>

-----------------------------------------------------------------------------
(* The rest of the processor *)

UpdateCheckMutant(s) ==
  /\ pc[s] = "updateCheck"
  /\ checkTx' = [checkTx EXCEPT ![job[s]] = sig[s]]
  /\ status'  = [status EXCEPT ![job[s]] = "confirmed"]
  /\ Goto(s, "finish")
  /\ UNCHANGED <<queueVars, job, sig, logTx, sent, envVars, faults, crashes>>

UpdateCheck(s) ==
  /\ pc[s] = "updateCheck"
  /\ checkTx' = [checkTx EXCEPT ![job[s]] = sig[s]]
  /\ status'  = [status EXCEPT ![job[s]] = "confirmed"]
  /\ Goto(s, "updateLog")
  /\ UNCHANGED <<queueVars, job, sig, logTx, sent, envVars, faults, crashes>>

UpdateLog(s) ==
  /\ pc[s] = "updateLog"
  /\ logTx' = IF job[s] \in FlaggedJobs THEN [logTx EXCEPT ![job[s]] = sig[s]] ELSE logTx
  /\ Goto(s, "finish")
  /\ UNCHANGED <<queueVars, job, sig, status, checkTx, sent, envVars, faults, crashes>>

(* Either UPDATE throws inside the try, whether or not it took effect: the *)
(* await at "finish" is the answer to the second one.                      *)
DbError(s) ==
  /\ pc[s] \in {"updateCheck", "updateLog", "finish"}
  /\ Goto(s, "markFailed")
  /\ Fault
  /\ UNCHANGED <<queueVars, job, sig, rowVars, sent, envVars, crashes>>

(* The catch block *)
MarkFailed(s) ==
  /\ pc[s] = "markFailed"
  /\ status' = [status EXCEPT ![job[s]] = "failed"]
  /\ Goto(s, "rethrow")
  /\ UNCHANGED <<queueVars, job, sig, checkTx, logTx, sent, envVars, faults, crashes>>

MarkFailedError(s) ==
  /\ pc[s] = "markFailed"
  /\ Goto(s, "rethrow")
  /\ Fault
  /\ UNCHANGED <<queueVars, job, sig, rowVars, sent, envVars, crashes>>

-----------------------------------------------------------------------------
(* BullMQ: it moves a job only for the slot that holds the job's lock. *)

FreeMutant(s) ==
  /\ pc' = [pc EXCEPT ![s] = "idle"]
  /\ UNCHANGED <<job, sig>>

Free(s) ==
  /\ pc'  = [pc EXCEPT ![s] = "idle"]
  /\ job' = [job EXCEPT ![s] = None]
  /\ sig' = [sig EXCEPT ![s] = None]

HoldsLockMutant(s) == TRUE

HoldsLock(s) == lock[job[s]] = s

Complete(s) ==
  /\ pc[s] = "finish"
  /\ IF HoldsLock(s)
       THEN /\ queue' = [queue EXCEPT ![job[s]] = "completed"]
            /\ lock'  = [lock EXCEPT ![job[s]] = None]
       ELSE UNCHANGED <<queue, lock>>
  /\ Free(s)
  /\ UNCHANGED <<attempts, stalls, rowVars, sent, envVars, faults, crashes>>

AttemptsLeftMutant(j) == attempts[j] < MaxAttempts

AttemptsLeft(j) == attempts[j] + 1 < MaxAttempts

Rethrow(s) ==
  /\ pc[s] = "rethrow"
  /\ IF HoldsLock(s)
       THEN /\ attempts' = [attempts EXCEPT ![job[s]] = @ + 1]
            /\ queue' = [queue EXCEPT ![job[s]] =
                           IF AttemptsLeft(job[s]) THEN "delayed" ELSE "failed"]
            /\ lock'  = [lock EXCEPT ![job[s]] = None]
       ELSE UNCHANGED <<attempts, queue, lock>>
  /\ Free(s)
  /\ UNCHANGED <<stalls, rowVars, sent, envVars, faults, crashes>>

BackoffOver(j) ==
  /\ queue[j] = "delayed"
  /\ queue' = [queue EXCEPT ![j] = "wait"]
  /\ UNCHANGED <<attempts, stalls, lock, slotVars, rowVars, sent, envVars, faults, crashes>>

(* The worker is too busy, or too far from Redis, to renew the lock; the   *)
(* processor knows nothing of it and goes on.                              *)
LoseLock(j) ==
  /\ lock[j] # None
  /\ lock' = [lock EXCEPT ![j] = None]
  /\ Fault
  /\ UNCHANGED <<queue, attempts, stalls, slotVars, rowVars, sent, envVars, crashes>>

RecoverStalledMutant(j) ==
  /\ queue[j] = "active" /\ lock[j] = None
  /\ stalls[j] < MaxStalledCount
  /\ stalls' = [stalls EXCEPT ![j] = @ + 1]
  /\ queue'  = [queue EXCEPT ![j] = "wait"]
  /\ UNCHANGED <<attempts, lock, slotVars, rowVars, sent, envVars, faults, crashes>>

RecoverStalled(j) ==
  /\ queue[j] = "active" /\ lock[j] = None
  /\ stalls' = [stalls EXCEPT ![j] = @ + 1]
  /\ queue'  = [queue EXCEPT ![j] = IF stalls[j] < MaxStalledCount THEN "wait" ELSE "failed"]
  /\ UNCHANGED <<attempts, lock, slotVars, rowVars, sent, envVars, faults, crashes>>

(* The process dies in any of its awaits and starts again, perhaps with    *)
(* another environment; its locks expire.                                  *)
Crash ==
  /\ crashes < MaxCrashes
  /\ crashes' = crashes + 1
  /\ pc'  = [s \in Slots |-> "idle"]
  /\ job' = [s \in Slots |-> None]
  /\ sig' = [s \in Slots |-> None]
  /\ lock' = [j \in Jobs |-> None]
  /\ live' \in Modes
  /\ UNCHANGED <<queue, attempts, stalls, rowVars, sent, role, faults>>

-----------------------------------------------------------------------------
Step(s) ==
  \/ Simulate(s) \/ WrongAccounts(s) \/ Send(s)
  \/ UpdateCheck(s) \/ UpdateLog(s) \/ Complete(s)
  \/ MarkFailed(s) \/ Rethrow(s)

FaultyStep(s) ==
  \/ SendUnanswered(s) \/ SubmitError(s) \/ DbError(s) \/ MarkFailedError(s)

Next ==
  \/ \E s \in Slots : Step(s) \/ FaultyStep(s) \/ (\E j \in Jobs : Take(s, j))
  \/ \E j \in Jobs : BackoffOver(j) \/ LoseLock(j) \/ RecoverStalled(j)
  \/ Crash

Spec == Init /\ [][Next]_vars

(* The processors run, an idle slot takes a waiting job, and BullMQ's      *)
(* timers for backoff and stalled jobs fire.                               *)
Fairness ==
  /\ \A s \in Slots : WF_vars(Step(s))
  /\ \A j \in Jobs : /\ WF_vars(\E s \in Slots : Take(s, j))
                     /\ WF_vars(BackoffOver(j))
                     /\ WF_vars(RecoverStalled(j))

FairSpec == Spec /\ Fairness

-----------------------------------------------------------------------------
(* Every variable holds what its column or queue field may hold; a slot    *)
(* has a job exactly when it is busy, and a signature once it needs one.   *)
TypeOK ==
  /\ queue \in [Jobs -> Queue]
  /\ attempts \in [Jobs -> 0 .. MaxAttempts]
  /\ stalls \in [Jobs -> 0 .. MaxStalledCount + 1]
  /\ lock \in [Jobs -> Slots \cup {None}]
  /\ pc \in [Slots -> PCs]
  /\ job \in [Slots -> Jobs \cup {None}]
  /\ sig \in [Slots -> Txs \cup {None}]
  /\ status \in [Jobs -> {"pending", "confirmed", "failed"}]
  /\ checkTx \in [Jobs -> Txs \cup {None}]
  /\ logTx \in [Jobs -> Txs \cup {None}]
  /\ sent \in [Jobs -> Nat]
  /\ live \in Modes /\ role \in ConfigRoles
  /\ faults \in 0 .. MaxFaults /\ crashes \in 0 .. MaxCrashes
  /\ \A s \in Slots :
       /\ pc[s] = "idle" <=> job[s] = None
       /\ pc[s] \in {"updateCheck", "updateLog", "finish"} => sig[s] \in Txs

(* A transaction of the job: its own "sim:" signature, or one the RPC node *)
(* accepted for this very job.                                             *)
Issued(j, tx) == tx[1] = j /\ tx[2] \in 0 .. sent[j]

(* No row ever shows a signature that was not produced for its own check,  *)
(* and a check is confirmed only with one, however runs of the same and of *)
(* other jobs interleave, fail half-way and are run again.                 *)
RowsShowOwnTransactions ==
  \A j \in Jobs :
    /\ checkTx[j] # None => Issued(j, checkTx[j])
    /\ logTx[j] # None => checkTx[j] # None /\ Issued(j, logTx[j])
    /\ status[j] = "confirmed" => checkTx[j] # None

(* Retries and stalled runs together submit a check at most once per       *)
(* attempt and once per tolerated stall: what the code allows instead of   *)
(* the single submission a check needs.                                    *)
SubmissionsBounded ==
  \A j \in Jobs : sent[j] <= MaxAttempts + MaxStalledCount

(* Two slots never process the same job unless its lock was lost: what     *)
(* keeps the two UPDATEs of one run from interleaving with another's.      *)
OneRunPerJob ==
  \A s, t \in Slots : s # t /\ job[s] = job[t] /\ job[s] # None => stalls[job[s]] > 0

(* A job that completes without ever having stalled leaves its rows in     *)
(* agreement: confirmed, with the same signature in both tables, whatever  *)
(* earlier attempts had written there and however far they had come.       *)
CompletedRowsAgree ==
  \A j \in Jobs : queue[j] = "completed" /\ stalls[j] = 0 =>
    /\ status[j] = "confirmed"
    /\ j \in FlaggedJobs => logTx[j] = checkTx[j]

(* A run that outlived its lock cannot take a job out of its final state.  *)
FinishedIsFinal ==
  [][\A j \in Jobs : queue[j] \in Finished => queue'[j] = queue[j]]_vars

(* Every job is settled in the end: retries, stalls and restarts are       *)
(* bounded, and no interleaving of the slots leaves a job active for ever. *)
JobsSettle == \A j \in Jobs : <>(queue[j] \in Finished)

(* oracle.ts says of the live mode that the client builds, signs and sends *)
(* the transaction; no fault and no restart stands in the way here.        *)
LiveSubmissionIsSent == \A j \in Jobs : <>(sent[j] > 0)
=============================================================================
