----------------------- MODULE SubmissionWorker_proofs -----------------------
(***************************************************************************)
(* The safety properties of the submission worker for any jobs, slots,     *)
(* retry limits and faults, and either role of the config account.         *)
(*                                                                         *)
(* One invariant per question:                                             *)
(*   QueueInv   locks, attempts and stalls of a job, and who runs it       *)
(*   RowsInv    where the signatures in the rows come from                 *)
(*   AgreeInv   what a run that alone has its job has written (on QueueInv)*)
(*   SentInv    how often a job may still be submitted (on QueueInv)       *)
(***************************************************************************)
EXTENDS SubmissionWorker, FiniteSetTheorems, TLAPS

-----------------------------------------------------------------------------
(* The queue.  A job that can still run has attempts and stalls left; a    *)
(* lock is held by the slot that runs the job; and a run whose job never   *)
(* stalled still is the job's one run.                                     *)

TriesLeft ==
  \A j \in Jobs :
    IF queue[j] = "failed" THEN attempts[j] + stalls[j] <= MaxAttempts + MaxStalledCount
    ELSE attempts[j] < MaxAttempts /\ stalls[j] <= MaxStalledCount

LockHeld ==
  \A j \in Jobs : lock[j] # None => job[lock[j]] = j /\ queue[j] = "active"

RunIsActive ==
  \A s \in Slots : job[s] # None /\ stalls[job[s]] = 0 =>
    queue[job[s]] = "active" /\ lock[job[s]] \in {s, None}

QueueInv == TypeOK /\ TriesLeft /\ LockHeld /\ RunIsActive /\ OneRunPerJob

(* At the start every job waits and every slot is idle. *)
LEMMA QueueInit == Init => QueueInv
  BY WorkerAssumption
  DEF Init, QueueInv, TypeOK, TriesLeft, LockHeld, RunIsActive, OneRunPerJob, Finished, Queue, PCs

(* A busy slot has a job, and nothing else looks like one. *)
LEMMA BusySlots ==
  ASSUME TypeOK, NEW s \in Slots
  PROVE  pc[s] # "idle" => job[s] \in Jobs
  BY DEF TypeOK

(* Within a run only the slot's own program counter and signature, the rows*)
(* and the count of transactions change: never the queue.                  *)
WithinRun(s) ==
  /\ UNCHANGED <<queueVars, job, live, role, crashes>>
  /\ pc[s] \notin {"idle"}
  /\ pc' \in [Slots -> PCs] /\ pc' = [pc EXCEPT ![s] = pc'[s]] /\ pc'[s] # "idle"
  /\ sig' \in [Slots -> Txs \cup {None}]
  /\ pc'[s] \in {"updateCheck", "updateLog", "finish"} => sig'[s] \in Txs
  /\ \A t \in Slots \ {s} : sig'[t] = sig[t]
  /\ status' \in [Jobs -> {"pending", "confirmed", "failed"}]
  /\ checkTx' \in [Jobs -> Txs \cup {None}]
  /\ logTx' \in [Jobs -> Txs \cup {None}]
  /\ sent' \in [Jobs -> Nat]
  /\ faults' \in 0 .. MaxFaults

(* The actions of a run from its start to the answer BullMQ waits for. *)
RunStep(s) ==
  \/ Simulate(s) \/ WrongAccounts(s) \/ Send(s)
  \/ UpdateCheck(s) \/ UpdateLog(s) \/ MarkFailed(s) \/ FaultyStep(s)

(* They are such steps. *)
LEMMA RunSteps ==
  ASSUME TypeOK, NEW s \in Slots, RunStep(s)
  PROVE  WithinRun(s)
<1> USE WorkerAssumption DEF RunStep, TypeOK, PCs, Goto, envVars, rowVars, WithinRun
<1>1. job[s] \in Jobs /\ pc[s] # "idle"
  BY DEF Simulate, WrongAccounts, Send, Accepted, UpdateCheck, UpdateLog, MarkFailed,
         FaultyStep, SendUnanswered, SubmitError, DbError, MarkFailedError
<1>2. \A n \in Nat : <<job[s], n>> \in Txs
  BY <1>1 DEF Txs
<1>3. CASE Simulate(s)
  BY <1>1, <1>2, <1>3 DEF Simulate
<1>4. CASE WrongAccounts(s)
  BY <1>4 DEF WrongAccounts
<1>5. CASE Send(s)
  BY <1>1, <1>2, <1>5 DEF Send, Accepted
<1>6. CASE UpdateCheck(s)
  BY <1>1, <1>6 DEF UpdateCheck
<1>7. CASE UpdateLog(s)
  BY <1>1, <1>7 DEF UpdateLog
<1>8. CASE MarkFailed(s)
  BY <1>1, <1>8 DEF MarkFailed
<1>9. CASE FaultyStep(s)
  BY <1>1, <1>9 DEF FaultyStep, SendUnanswered, Accepted, SubmitError, DbError, MarkFailedError, Fault
<1> QED BY <1>3, <1>4, <1>5, <1>6, <1>7, <1>8, <1>9

(* The other actions, which belong to the queue. *)
QueueStep ==
  \/ \E s \in Slots : Complete(s) \/ Rethrow(s) \/ (\E j \in Jobs : Take(s, j))
  \/ \E j \in Jobs : BackoffOver(j) \/ LoseLock(j) \/ RecoverStalled(j)
  \/ Crash

(* A step is one of a run, one of the queue, or a stutter. *)
LEMMA StepKinds ==
  ASSUME TypeOK, [Next]_vars
  PROVE  \/ \E s \in Slots : WithinRun(s) /\ RunStep(s)
         \/ QueueStep
         \/ UNCHANGED vars
  BY RunSteps DEF Next, Step, QueueStep, RunStep

LEMMA QueueNext == QueueInv /\ [Next]_vars => QueueInv'
<1> SUFFICES ASSUME QueueInv, [Next]_vars PROVE QueueInv'
  OBVIOUS
<1> USE WorkerAssumption DEF QueueInv
<1>1. ASSUME NEW s \in Slots, WithinRun(s) PROVE QueueInv'
  <2>1. TypeOK'
    <3>1. \A t \in Slots :
            /\ pc'[t] = "idle" <=> job[t] = None
            /\ pc'[t] \in {"updateCheck", "updateLog", "finish"} => sig'[t] \in Txs
      BY <1>1 DEF WithinRun, TypeOK
    <3> QED BY <1>1, <3>1 DEF WithinRun, TypeOK, queueVars
  <2>2. (TriesLeft /\ LockHeld /\ RunIsActive /\ OneRunPerJob)'
    BY <1>1 DEF WithinRun, queueVars, TriesLeft, LockHeld, RunIsActive, OneRunPerJob
  <2> QED BY <2>1, <2>2
<1>2. ASSUME NEW s \in Slots, NEW j \in Jobs, Take(s, j) PROVE QueueInv'
  <2> USE <1>2 DEF Take, Goto, rowVars, envVars
  <2>1. TypeOK'
    BY DEF TypeOK, PCs, Queue
  <2>2. job[s] = None /\ lock[j] = None /\ \A t \in Slots : job[t] = j => stalls[j] > 0
    BY DEF TypeOK, LockHeld, RunIsActive
  <2>3. TriesLeft' /\ LockHeld'
    BY <2>2 DEF TypeOK, TriesLeft, LockHeld, Finished
  <2>4. RunIsActive'
    BY <2>2 DEF TypeOK, RunIsActive
  <2>5. OneRunPerJob'
    BY <2>2 DEF TypeOK, OneRunPerJob
  <2> QED BY <2>1, <2>3, <2>4, <2>5
<1>3. ASSUME NEW s \in Slots, Complete(s) \/ Rethrow(s) PROVE QueueInv'
  <2> USE <1>3 DEF Free, HoldsLock, AttemptsLeft, Complete, Rethrow, rowVars, envVars
  <2> DEFINE j == job[s]
  <2>1. /\ j \in Jobs /\ pc' = [pc EXCEPT ![s] = "idle"]
        /\ job' = [job EXCEPT ![s] = None] /\ sig' = [sig EXCEPT ![s] = None]
    BY DEF TypeOK
  <2>2. CASE ~HoldsLock(s)
    <3>1. UNCHANGED <<queueVars, rowVars, sent, envVars, faults, crashes>>
      BY <2>2 DEF queueVars
    <3>2. TypeOK'
      BY <2>1, <3>1 DEF queueVars, TypeOK, PCs
    <3>3. (TriesLeft /\ LockHeld /\ RunIsActive /\ OneRunPerJob)'
      BY <2>1, <2>2, <3>1
      DEF queueVars, TypeOK, TriesLeft, LockHeld, RunIsActive, OneRunPerJob
    <3> QED BY <3>2, <3>3
  <2>3. CASE HoldsLock(s)
    <3>1. /\ lock' = [lock EXCEPT ![j] = None] /\ stalls' = stalls
          /\ queue[j] = "active" /\ attempts[j] < MaxAttempts /\ stalls[j] <= MaxStalledCount
          /\ UNCHANGED <<rowVars, sent, envVars, faults, crashes>>
      BY <2>1, <2>3 DEF LockHeld, TriesLeft, Finished
    <3>2. PICK q \in Queue :
            /\ queue' = [queue EXCEPT ![j] = q]
            /\ \/ attempts' = attempts /\ q = "completed"
               \/ /\ attempts' = [attempts EXCEPT ![j] = @ + 1]
                  /\ q = "failed" \/ (q = "delayed" /\ attempts[j] + 1 < MaxAttempts)
      BY <2>3 DEF Queue, Finished
    <3>3. TypeOK'
      BY <2>1, <3>1, <3>2 DEF TypeOK, PCs, rowVars, envVars
    <3>4. TriesLeft'
      BY <2>1, <3>1, <3>2 DEF TypeOK, TriesLeft, Finished
    <3>5. LockHeld'
      BY <2>1, <3>1, <3>2 DEF TypeOK, LockHeld
    <3>6. \A t \in Slots \ {s} : job[t] = j => stalls[j] > 0
      BY <2>1 DEF OneRunPerJob
    <3>7. RunIsActive' /\ OneRunPerJob'
      BY <2>1, <3>1, <3>2, <3>6 DEF TypeOK, RunIsActive, OneRunPerJob
    <3> QED BY <3>3, <3>4, <3>5, <3>7
  <2> QED BY <2>2, <2>3
<1>4. ASSUME NEW j \in Jobs, BackoffOver(j) PROVE QueueInv'
  <2> USE <1>4 DEF BackoffOver, slotVars, rowVars, envVars
  <2>1. TypeOK' /\ TriesLeft'
    BY DEF TypeOK, Queue, TriesLeft, Finished
  <2>2. (LockHeld /\ RunIsActive /\ OneRunPerJob)'
    BY DEF TypeOK, LockHeld, RunIsActive, OneRunPerJob
  <2> QED BY <2>1, <2>2
<1>5. ASSUME NEW j \in Jobs, LoseLock(j) PROVE QueueInv'
  <2> USE <1>5 DEF LoseLock, Fault, slotVars, rowVars, envVars
  <2>1. TypeOK' /\ TriesLeft'
    BY DEF TypeOK, TriesLeft
  <2>2. (LockHeld /\ RunIsActive /\ OneRunPerJob)'
    BY DEF TypeOK, LockHeld, RunIsActive, OneRunPerJob
  <2> QED BY <2>1, <2>2
<1>6. ASSUME NEW j \in Jobs, RecoverStalled(j) PROVE QueueInv'
  <2> USE <1>6 DEF RecoverStalled, slotVars, rowVars, envVars
  <2>1. stalls[j] \in Nat /\ stalls[j] <= MaxStalledCount
    BY DEF TypeOK, TriesLeft, Finished
  <2>2. PICK q \in {"wait", "failed"} :
          /\ queue' = [queue EXCEPT ![j] = q]
          /\ q = "wait" => stalls[j] < MaxStalledCount
    OBVIOUS
  <2>3. TypeOK' /\ TriesLeft'
    BY <2>1, <2>2 DEF TypeOK, Queue, TriesLeft, Finished
  <2>4. LockHeld'
    BY <2>2 DEF TypeOK, LockHeld
  <2>5. RunIsActive' /\ OneRunPerJob'
    BY <2>1, <2>2 DEF TypeOK, RunIsActive, OneRunPerJob
  <2> QED BY <2>3, <2>4, <2>5
<1>7. ASSUME Crash PROVE QueueInv'
  <2> USE <1>7 DEF Crash, rowVars
  <2>1. TypeOK' /\ TriesLeft'
    BY DEF TypeOK, PCs, TriesLeft
  <2>2. (LockHeld /\ RunIsActive /\ OneRunPerJob)'
    BY DEF LockHeld, RunIsActive, OneRunPerJob
  <2> QED BY <2>1, <2>2
<1>8. CASE UNCHANGED vars
  BY <1>8 DEF vars, queueVars, slotVars, rowVars, envVars, TypeOK, TriesLeft, LockHeld,
              RunIsActive, OneRunPerJob
<1> QED BY <1>1, <1>2, <1>3, <1>4, <1>5, <1>6, <1>7, <1>8, StepKinds DEF QueueStep

(* The invariant of the queue holds in every reachable state. *)
LEMMA QueueHolds == Spec => []QueueInv
  BY QueueInit, QueueNext, PTL DEF Spec

(* The rows, the queue and the slots keep to their types. *)
THEOREM TypeCorrect == Spec => []TypeOK
  BY QueueHolds, PTL DEF QueueInv

(* Two slots process one job at once only after its lock was lost. *)
THEOREM OneRun == Spec => []OneRunPerJob
  BY QueueHolds, PTL DEF QueueInv

(* A job that is completed or failed stays so: only the holder of its lock *)
(* or a stalled check of an active job can move it.                        *)
THEOREM FinishedStays == Spec => FinishedIsFinal
<1>1. QueueInv /\ [Next]_vars =>
        [\A j \in Jobs : queue[j] \in Finished => queue'[j] = queue[j]]_vars
  <2> SUFFICES ASSUME QueueInv, [Next]_vars, NEW j \in Jobs, queue[j] \in Finished
               PROVE  queue'[j] = queue[j]
    OBVIOUS
  <2> USE DEF Finished
  <2>1. CASE (\E s \in Slots : WithinRun(s)) \/ UNCHANGED vars
    BY <2>1 DEF WithinRun, queueVars, vars
  <2>2. ASSUME NEW s \in Slots, Complete(s) \/ Rethrow(s) PROVE queue'[j] = queue[j]
    BY <2>2, WorkerAssumption DEF Complete, Rethrow, HoldsLock, QueueInv, LockHeld, TypeOK
  <2>3. CASE QueueStep /\ ~\E s \in Slots : Complete(s) \/ Rethrow(s)
    BY <2>3 DEF QueueStep, Take, BackoffOver, LoseLock, RecoverStalled, Crash, QueueInv, TypeOK
  <2> QED BY <2>1, <2>2, <2>3, StepKinds DEF QueueInv
<1> QED BY <1>1, QueueHolds, PTL DEF Spec, FinishedIsFinal

-----------------------------------------------------------------------------
(* The rows.  A signature a slot holds was issued for the slot's job, and  *)
(* a run past its first UPDATE has left a signature in consistency_checks. *)

RowsInv ==
  /\ TypeOK /\ RowsShowOwnTransactions
  /\ \A s \in Slots :
       /\ sig[s] # None => pc[s] # "idle" /\ Issued(job[s], sig[s])
       /\ pc[s] \in {"updateLog", "finish"} => checkTx[job[s]] # None

(* At the start no row shows a signature. *)
LEMMA RowsInit == Init => RowsInv
<1> SUFFICES ASSUME Init PROVE RowsInv
  OBVIOUS
<1>1. TypeOK
  BY QueueInit DEF QueueInv
<1> QED BY <1>1 DEF Init, RowsInv, RowsShowOwnTransactions

(* The queue's own steps touch no row; they leave a slot as it is, idle,   *)
(* or at the start of a run.                                               *)
LEMMA QueueStepKeepsRows ==
  ASSUME TypeOK, QueueStep
  PROVE  /\ UNCHANGED <<rowVars, sent>>
         /\ \A s \in Slots :
              \/ pc'[s] = pc[s] /\ job'[s] = job[s] /\ sig'[s] = sig[s]
              \/ pc'[s] = "idle" /\ sig'[s] = None
              \/ pc[s] = "idle" /\ pc'[s] = "submit" /\ sig'[s] = sig[s]
  BY DEF QueueStep, Take, Complete, Rethrow, Free, Goto, BackoffOver, LoseLock, RecoverStalled,
         Crash, slotVars, rowVars, TypeOK

(* What a step of a run does to its own signature and to its job's rows. *)
LEMMA RunWrites ==
  ASSUME TypeOK, NEW s \in Slots, RunStep(s)
  PROVE  LET j == job[s] IN
         /\ j \in Jobs
         /\ sent[j] \in Nat /\ sent' = [sent EXCEPT ![j] = sent'[j]] /\ sent'[j] >= sent[j]
         /\ \/ sig' = sig
            \/ sig' = [sig EXCEPT ![s] = <<j, sent'[j]>>]
            \/ sig' = [sig EXCEPT ![s] = <<j, 0>>]
         /\ \/ /\ pc[s] = "updateCheck" /\ pc'[s] = "updateLog"
               /\ checkTx' = [checkTx EXCEPT ![j] = sig[s]]
               /\ status' = [status EXCEPT ![j] = "confirmed"]
               /\ UNCHANGED <<sig, logTx>>
            \/ /\ pc[s] = "updateLog" /\ pc'[s] = "finish"
               /\ logTx' = IF j \in FlaggedJobs THEN [logTx EXCEPT ![j] = sig[s]] ELSE logTx
               /\ UNCHANGED <<sig, checkTx, status>>
            \/ /\ pc'[s] \notin {"updateLog", "finish"}
               /\ status' \in {status, [status EXCEPT ![j] = "failed"]}
               /\ UNCHANGED <<checkTx, logTx>>
<1> USE DEF RunStep, TypeOK, PCs, Goto, rowVars
<1>1. job[s] \in Jobs /\ sent[job[s]] \in Nat /\ pc[s] # "idle"
  BY DEF Simulate, WrongAccounts, Send, Accepted, UpdateCheck, UpdateLog, MarkFailed,
         FaultyStep, SendUnanswered, SubmitError, DbError, MarkFailedError
<1>2. CASE Simulate(s) \/ WrongAccounts(s)
  BY <1>1, <1>2 DEF Simulate, WrongAccounts
<1>3. CASE Send(s)
  BY <1>1, <1>3 DEF Send, Accepted
<1>4. CASE UpdateCheck(s)
  BY <1>1, <1>4 DEF UpdateCheck
<1>5. CASE UpdateLog(s)
  BY <1>1, <1>5 DEF UpdateLog
<1>6. CASE MarkFailed(s)
  BY <1>1, <1>6 DEF MarkFailed
<1>7. CASE FaultyStep(s)
  BY <1>1, <1>7 DEF FaultyStep, SendUnanswered, Accepted, SubmitError, DbError, MarkFailedError
<1> QED BY <1>2, <1>3, <1>4, <1>5, <1>6, <1>7

(* Every step leaves each row with signatures of its own check only. *)
LEMMA RowsNext == RowsInv /\ QueueInv /\ [Next]_vars => RowsInv'
<1> SUFFICES ASSUME RowsInv, QueueInv, [Next]_vars PROVE RowsInv'
  OBVIOUS
<1>1. TypeOK /\ TypeOK'
  BY QueueNext DEF QueueInv
<1>2. ASSUME NEW s \in Slots, WithinRun(s), RunStep(s) PROVE RowsInv'
  <2> DEFINE j == job[s]
             IssuedThen(i, tx) == tx[1] = i /\ tx[2] \in 0 .. sent'[i]
  <2>1. \A i \in Jobs : \A tx : Issued(i, tx) => IssuedThen(i, tx)
    <3>1. \A i \in Jobs : sent[i] \in Nat /\ sent'[i] \in Nat /\ sent[i] <= sent'[i]
      BY <1>1, <1>2, RunWrites DEF TypeOK
    <3> QED BY <3>1 DEF Issued
  <2>2. /\ j \in Jobs /\ job' = job
        /\ \A t \in Slots \ {s} : pc'[t] = pc[t] /\ sig'[t] = sig[t]
    BY <1>1, <1>2, RunWrites DEF WithinRun, TypeOK
  <2>3. sig'[s] # None => IssuedThen(j, sig'[s])
    <3>1. CASE sig' = sig
      BY <1>1, <2>1, <2>2, <3>1 DEF RowsInv
    <3>2. CASE sig' = [sig EXCEPT ![s] = <<j, sent'[j]>>] \/ sig' = [sig EXCEPT ![s] = <<j, 0>>]
      <4>1. sent'[j] \in Nat /\ sig'[s] \in {<<j, sent'[j]>>, <<j, 0>>}
        BY <1>1, <2>2, <3>2 DEF TypeOK
      <4> QED BY <4>1
    <3> QED BY <1>1, <1>2, <3>1, <3>2, RunWrites
  <2>4. pc[s] \in {"updateCheck", "updateLog"} => sig[s] # None /\ IssuedThen(j, sig[s])
    BY <1>1, <2>1, <2>2, WorkerAssumption DEF RowsInv, TypeOK, Txs
  <2> DEFINE Shows(check, log, stat) ==
               \A i \in Jobs :
                 /\ check[i] # None => IssuedThen(i, check[i])
                 /\ log[i] # None => check[i] # None /\ IssuedThen(i, log[i])
                 /\ stat[i] = "confirmed" => check[i] # None
             Keeps(check) == \A i \in Jobs : checkTx[i] # None => check[i] # None
  <2>5. Shows(checkTx, logTx, status)
    BY <2>1 DEF RowsInv, RowsShowOwnTransactions
  <2>6. /\ Shows(checkTx', logTx', status') /\ Keeps(checkTx')
        /\ pc'[s] \in {"updateLog", "finish"} => checkTx'[j] # None
    <3>1. CASE pc[s] = "updateCheck" /\ pc'[s] = "updateLog"
      <4>1. /\ checkTx' = [checkTx EXCEPT ![j] = sig[s]] /\ logTx' = logTx
            /\ status' = [status EXCEPT ![j] = "confirmed"]
        BY <1>1, <1>2, <3>1, RunWrites
      <4>2. checkTx'[j] = sig[s] /\ sig[s] # None /\ IssuedThen(j, sig[s])
        BY <1>1, <2>2, <2>4, <3>1, <4>1 DEF TypeOK
      <4>3. \A i \in Jobs \ {j} : checkTx'[i] = checkTx[i] /\ status'[i] = status[i]
        BY <1>1, <4>1 DEF TypeOK
      <4> QED BY <2>5, <4>1, <4>2, <4>3
    <3>2. CASE pc[s] = "updateLog" /\ pc'[s] = "finish"
      <4>1. /\ logTx' \in {logTx, [logTx EXCEPT ![j] = sig[s]]}
            /\ checkTx' = checkTx /\ status' = status /\ checkTx[j] # None
        BY <1>1, <1>2, <3>2, RunWrites DEF RowsInv
      <4>2. \A i \in Jobs : logTx'[i] = logTx[i] \/ (i = j /\ logTx'[i] = sig[s])
        BY <1>1, <4>1 DEF TypeOK
      <4> QED BY <2>4, <2>5, <3>2, <4>1, <4>2
    <3>3. CASE pc'[s] \notin {"updateLog", "finish"}
      <4>1. /\ checkTx' = checkTx /\ logTx' = logTx
            /\ status' \in {status, [status EXCEPT ![j] = "failed"]}
        BY <1>1, <1>2, <3>3, RunWrites
      <4>2. \A i \in Jobs : status'[i] \in {status[i], "failed"}
        BY <1>1, <4>1 DEF TypeOK
      <4> QED BY <2>5, <3>3, <4>1, <4>2
    <3> HIDE DEF Shows, Keeps, j
    <3> QED BY <1>1, <1>2, <3>1, <3>2, <3>3, RunWrites
  <2>7. \A t \in Slots :
           /\ sig'[t] # None => pc'[t] # "idle" /\ IssuedThen(job'[t], sig'[t])
           /\ pc'[t] \in {"updateLog", "finish"} => checkTx'[job'[t]] # None
    <3>1. pc'[s] # "idle"
      BY <1>2 DEF WithinRun
    <3>2. ASSUME NEW t \in Slots \ {s}
          PROVE  /\ sig'[t] # None => pc'[t] # "idle" /\ IssuedThen(job'[t], sig'[t])
                 /\ pc'[t] \in {"updateLog", "finish"} => checkTx'[job'[t]] # None
      <4>1. pc[t] # "idle" => job[t] \in Jobs
        BY <1>1, BusySlots
      <4>2. pc[t] # "idle" /\ sig[t] # None => IssuedThen(job[t], sig[t])
        BY <2>1, <4>1 DEF RowsInv
      <4>3. pc[t] \in {"updateLog", "finish"} => checkTx'[job[t]] # None
        BY <2>6, <4>1 DEF RowsInv
      <4> QED BY <2>2, <4>2, <4>3 DEF RowsInv
    <3> QED BY <2>2, <2>3, <2>6, <3>1, <3>2
  <2> QED BY <1>1, <2>6, <2>7 DEF RowsInv, RowsShowOwnTransactions, Issued
<1>3. CASE QueueStep
  BY <1>1, <1>3, QueueStepKeepsRows DEF RowsInv, RowsShowOwnTransactions, Issued, rowVars
<1>4. CASE UNCHANGED vars
  BY <1>1, <1>4 DEF vars, slotVars, rowVars, RowsInv, RowsShowOwnTransactions, Issued
<1> QED BY <1>1, <1>2, <1>3, <1>4, StepKinds

(* No row ever shows a signature of another check, and a confirmed check   *)
(* shows one.                                                              *)
THEOREM RowsShowOwn == Spec => []RowsShowOwnTransactions
  BY RowsInit, RowsNext, QueueHolds, PTL DEF Spec, RowsInv

-----------------------------------------------------------------------------
(* Completed jobs.  As long as a job has not stalled its one run alone     *)
(* writes its rows, so what the run has written is what the rows show.     *)

Wrote(s) ==
  /\ pc[s] \in {"updateLog", "finish"} =>
       status[job[s]] = "confirmed" /\ checkTx[job[s]] = sig[s]
  /\ pc[s] = "finish" /\ job[s] \in FlaggedJobs => logTx[job[s]] = sig[s]

AgreeInv ==
  /\ QueueInv /\ CompletedRowsAgree
  /\ \A s \in Slots : job[s] # None /\ stalls[job[s]] = 0 => Wrote(s)

(* At the start no job is completed and no slot is busy. *)
LEMMA AgreeInit == Init => AgreeInv
  BY QueueInit DEF Init, AgreeInv, CompletedRowsAgree

(* Every step keeps the rows of jobs that never stalled in agreement. *)
LEMMA AgreeNext == AgreeInv /\ [Next]_vars => AgreeInv'
<1> SUFFICES ASSUME AgreeInv, [Next]_vars PROVE AgreeInv'
  OBVIOUS
<1>1. QueueInv /\ QueueInv' /\ TypeOK
  BY QueueNext DEF AgreeInv, QueueInv
<1>2. ASSUME NEW s \in Slots, WithinRun(s), RunStep(s) PROVE AgreeInv'
  <2> DEFINE j == job[s]
  <2>1. /\ j \in Jobs /\ UNCHANGED <<queue, stalls, job>>
        /\ \A t \in Slots \ {s} : pc'[t] = pc[t] /\ sig'[t] = sig[t]
    BY <1>1, <1>2, RunWrites DEF WithinRun, queueVars, TypeOK
  <2>2. \A i \in Jobs \ {j} :
          status'[i] = status[i] /\ checkTx'[i] = checkTx[i] /\ logTx'[i] = logTx[i]
    BY <1>1, <1>2, <2>1, RunWrites DEF TypeOK
  <2>3. CompletedRowsAgree'
    <3>1. queue[j] = "completed" => stalls[j] # 0
      BY <1>1, <2>1, WorkerAssumption DEF QueueInv, RunIsActive
    <3> QED BY <2>1, <2>2, <3>1 DEF AgreeInv, CompletedRowsAgree
  <2>4. ASSUME stalls[j] = 0 PROVE Wrote(s)'
    <3>1. CASE pc[s] = "updateCheck" /\ pc'[s] = "updateLog"
      <4>1. /\ checkTx' = [checkTx EXCEPT ![j] = sig[s]] /\ sig' = sig
            /\ status' = [status EXCEPT ![j] = "confirmed"]
        BY <1>1, <1>2, <3>1, RunWrites
      <4> QED BY <1>1, <2>1, <3>1, <4>1 DEF Wrote, TypeOK
    <3>2. CASE pc[s] = "updateLog" /\ pc'[s] = "finish"
      <4>1. /\ UNCHANGED <<checkTx, status, sig>>
            /\ logTx' = IF j \in FlaggedJobs THEN [logTx EXCEPT ![j] = sig[s]] ELSE logTx
        BY <1>1, <1>2, <3>2, RunWrites
      <4>2. Wrote(s)
        BY <2>1, <2>4, WorkerAssumption DEF AgreeInv
      <4> QED BY <1>1, <2>1, <3>2, <4>1, <4>2 DEF Wrote, TypeOK
    <3>3. CASE pc'[s] \notin {"updateLog", "finish"}
      BY <3>3 DEF Wrote
    <3> HIDE DEF j
    <3> QED BY <1>1, <1>2, <3>1, <3>2, <3>3, RunWrites
  <2>5. ASSUME NEW t \in Slots \ {s}, job'[t] # None, stalls'[job'[t]] = 0 PROVE Wrote(t)'
    <3>1. job[t] # None /\ stalls[job[t]] = 0 /\ Wrote(t)
      BY <2>1, <2>5 DEF AgreeInv
    <3>2. job[t] \in Jobs \ {j}
      BY <1>1, <2>1, <2>5, <3>1 DEF QueueInv, OneRunPerJob, TypeOK
    <3> QED BY <2>1, <2>2, <3>1, <3>2 DEF Wrote
  <2> QED BY <1>1, <2>1, <2>3, <2>4, <2>5 DEF AgreeInv
<1>3. CASE QueueStep
  <2>1. /\ UNCHANGED <<rowVars, sent>>
        /\ \A s \in Slots :
             \/ pc'[s] = pc[s] /\ job'[s] = job[s] /\ sig'[s] = sig[s]
             \/ pc'[s] \in {"idle", "submit"}
    BY <1>1, <1>3, QueueStepKeepsRows
  <2>2. \A j \in Jobs :
          /\ stalls'[j] = 0 => stalls[j] = 0
          /\ queue'[j] = "completed" =>
               \/ queue[j] = "completed"
               \/ \E s \in Slots : pc[s] = "finish" /\ job[s] = j
    <3>1. ASSUME NEW s \in Slots, Complete(s) \/ Rethrow(s)
          PROVE  /\ stalls' = stalls
                 /\ \A j \in Jobs : queue'[j] = "completed" =>
                      queue[j] = "completed" \/ (pc[s] = "finish" /\ job[s] = j)
      BY <1>1, <3>1 DEF Complete, Rethrow, TypeOK
    <3>2. ASSUME NEW j \in Jobs, RecoverStalled(j)
          PROVE  /\ \A i \in Jobs : stalls'[i] = 0 => stalls[i] = 0
                 /\ \A i \in Jobs : queue'[i] = "completed" => queue[i] = "completed"
      BY <1>1, <3>2 DEF RecoverStalled, TypeOK
    <3>3. ASSUME NEW j \in Jobs,
                 (\E s \in Slots : Take(s, j)) \/ BackoffOver(j) \/ LoseLock(j) \/ Crash
          PROVE  /\ stalls' = stalls
                 /\ \A i \in Jobs : queue'[i] = "completed" => queue[i] = "completed"
      BY <1>1, <3>3 DEF Take, BackoffOver, LoseLock, Crash, TypeOK
    <3> QED BY <1>3, <3>1, <3>2, <3>3 DEF QueueStep
  <2>3. \A s \in Slots : job'[s] # None /\ stalls'[job'[s]] = 0 => Wrote(s)'
    <3>1. \A s \in Slots : job'[s] # None => job'[s] \in Jobs
      BY <1>1 DEF QueueInv, TypeOK
    <3> QED BY <2>1, <2>2, <3>1 DEF Wrote, AgreeInv, rowVars
  <2>4. CompletedRowsAgree'
    <3>1. ASSUME NEW s \in Slots, pc[s] = "finish", stalls[job[s]] = 0
          PROVE  /\ status[job[s]] = "confirmed"
                 /\ job[s] \in FlaggedJobs => logTx[job[s]] = checkTx[job[s]]
      <4>1. job[s] \in Jobs
        BY <1>1, <3>1, BusySlots
      <4> QED BY <3>1, <4>1, WorkerAssumption DEF AgreeInv, Wrote
    <3> QED BY <2>1, <2>2, <3>1 DEF AgreeInv, CompletedRowsAgree, rowVars
  <2> QED BY <1>1, <2>3, <2>4 DEF AgreeInv
<1>4. CASE UNCHANGED vars
  BY <1>1, <1>4 DEF vars, queueVars, slotVars, rowVars, AgreeInv, CompletedRowsAgree, Wrote
<1> QED BY <1>1, <1>2, <1>3, <1>4, StepKinds

(* A job that completes without having stalled is confirmed, with one      *)
(* signature in both tables, whatever its earlier attempts left there.     *)
THEOREM CompletedAgree == Spec => []CompletedRowsAgree
  BY AgreeInit, AgreeNext, PTL DEF Spec, AgreeInv

-----------------------------------------------------------------------------
(* Submissions.  Every run submits at most once, and every run but the     *)
(* last has cost the job an attempt or a stall: transactions sent, and the *)
(* runs that are about to send one, never outnumber attempts, stalls and   *)
(* the one run that may be open.                                           *)

AtSubmit(j) == {s \in Slots : pc[s] = "submit" /\ job[s] = j}
Open(j)     == IF queue[j] \in {"active", "completed"} THEN 1 ELSE 0

SentInv ==
  \A j \in Jobs :
    sent[j] + Cardinality(AtSubmit(j)) <= attempts[j] + stalls[j] + Open(j)

(* What a step of a run does to the counts of a job. *)
LEMMA RunCounts ==
  ASSUME TypeOK, NEW s \in Slots, RunStep(s), WithinRun(s), NEW j \in Jobs
  PROVE  \/ sent'[j] = sent[j] /\ AtSubmit(j)' \subseteq AtSubmit(j)
         \/ /\ sent'[j] = sent[j] + 1
            /\ s \in AtSubmit(j) /\ AtSubmit(j)' = AtSubmit(j) \ {s}
<1>1. job' = job /\ \A t \in Slots \ {s} : pc'[t] = pc[t]
  BY DEF WithinRun, TypeOK
<1>2. pc'[s] # "submit"
  BY DEF RunStep, Simulate, WrongAccounts, Send, UpdateCheck, UpdateLog, MarkFailed, FaultyStep,
         SendUnanswered, SubmitError, DbError, MarkFailedError, Goto, TypeOK
<1>3. AtSubmit(j)' = AtSubmit(j) \ {s}
  BY <1>1, <1>2 DEF AtSubmit
<1>4. CASE Accepted(s) /\ job[s] = j
  BY <1>3, <1>4 DEF Accepted, AtSubmit, TypeOK
<1>5. CASE Accepted(s) /\ job[s] # j
  BY <1>3, <1>5 DEF Accepted, TypeOK
<1>6. CASE sent' = sent
  BY <1>3, <1>6
<1> QED
  BY <1>4, <1>5, <1>6
  DEF RunStep, Simulate, WrongAccounts, Send, UpdateCheck, UpdateLog, MarkFailed, FaultyStep,
      SendUnanswered, SubmitError, DbError, MarkFailedError

(* Every step keeps the count of a job's runs ahead of its transactions. *)
LEMMA SentNext ==
  ASSUME IsFiniteSet(Slots), QueueInv, SentInv, [Next]_vars
  PROVE  SentInv'
<1>1. TypeOK /\ TypeOK'
  BY QueueNext DEF QueueInv
<1>2. \A T \in SUBSET Slots : IsFiniteSet(T) /\ Cardinality(T) \in Nat
  BY FS_Subset, FS_CardinalityType
<1>3. \A j : AtSubmit(j) \in SUBSET Slots /\ AtSubmit(j)' \in SUBSET Slots
  BY DEF AtSubmit
<1>4. \A T \in SUBSET Slots, S \in SUBSET Slots : S \subseteq T => Cardinality(S) <= Cardinality(T)
  BY <1>2, FS_Subset
<1>5. \A j \in Jobs : /\ sent[j] \in Nat /\ attempts[j] \in Nat /\ stalls[j] \in Nat
                       /\ Open(j) \in {0, 1} /\ Cardinality(AtSubmit(j)) \in Nat
                       /\ Cardinality(AtSubmit(j)') \in Nat
  BY <1>1, <1>2, <1>3 DEF TypeOK, Open
<1>6. ASSUME NEW s \in Slots, WithinRun(s), RunStep(s), NEW j \in Jobs
      PROVE  sent'[j] + Cardinality(AtSubmit(j)') <= attempts'[j] + stalls'[j] + Open(j)'
  <2>1. attempts' = attempts /\ stalls' = stalls /\ Open(j)' = Open(j)
    BY <1>6 DEF WithinRun, queueVars, Open
  <2>2. CASE sent'[j] = sent[j] /\ AtSubmit(j)' \subseteq AtSubmit(j)
    BY <1>3, <1>4, <1>5, <2>1, <2>2 DEF SentInv
  <2>3. CASE /\ sent'[j] = sent[j] + 1
             /\ s \in AtSubmit(j) /\ AtSubmit(j)' = AtSubmit(j) \ {s}
    <3>1. Cardinality(AtSubmit(j)') = Cardinality(AtSubmit(j)) - 1
      BY <1>2, <1>3, <2>3, FS_RemoveElement
    <3> QED BY <1>5, <2>1, <2>3, <3>1 DEF SentInv
  <2> QED BY <1>1, <1>6, <2>2, <2>3, RunCounts
<1>7. ASSUME NEW s \in Slots, NEW i \in Jobs, Take(s, i), NEW j \in Jobs
      PROVE  sent'[j] + Cardinality(AtSubmit(j)') <= attempts'[j] + stalls'[j] + Open(j)'
  <2>1. /\ attempts' = attempts /\ stalls' = stalls /\ sent' = sent
        /\ Open(j)' = IF j = i THEN 1 ELSE Open(j)
        /\ Open(i) = 0
        /\ AtSubmit(j)' = IF j = i THEN AtSubmit(j) \cup {s} ELSE AtSubmit(j)
    BY <1>1, <1>7 DEF Take, Goto, Open, AtSubmit, TypeOK
  <2>2. CASE j # i
    BY <2>1, <2>2 DEF SentInv
  <2>3. CASE j = i
    <3>1. Cardinality(AtSubmit(j)') <= Cardinality(AtSubmit(j)) + 1
      BY <1>2, <1>3, <1>5, <2>1, <2>3, FS_AddElement
    <3>2. Open(j) = 0 /\ Open(j)' = 1
      BY <2>1, <2>3
    <3>3. sent[j] + Cardinality(AtSubmit(j)) <= attempts[j] + stalls[j] + Open(j)
      BY DEF SentInv
    <3>4. sent'[j] = sent[j] /\ attempts'[j] = attempts[j] /\ stalls'[j] = stalls[j]
      BY <2>1
    <3> HIDE DEF SentInv
    <3> QED BY <1>5, <3>1, <3>2, <3>3, <3>4
  <2> QED BY <2>2, <2>3
<1>8. ASSUME QueueStep, ~\E s \in Slots, i \in Jobs : Take(s, i), NEW j \in Jobs
      PROVE  /\ sent' = sent /\ AtSubmit(j)' \subseteq AtSubmit(j)
             /\ attempts[j] + stalls[j] + Open(j) <= attempts'[j] + stalls'[j] + Open(j)'
  <2>1. ASSUME NEW s \in Slots, Complete(s) \/ Rethrow(s)
        PROVE  /\ sent' = sent /\ AtSubmit(j)' \subseteq AtSubmit(j)
               /\ attempts[j] + stalls[j] + Open(j) <= attempts'[j] + stalls'[j] + Open(j)'
    <3>1. /\ pc' = [pc EXCEPT ![s] = "idle"] /\ job' = [job EXCEPT ![s] = None]
          /\ sent' = sent /\ stalls' = stalls
      BY <2>1 DEF Complete, Rethrow, Free
    <3>2. AtSubmit(j)' \subseteq AtSubmit(j)
      BY <1>1, <3>1 DEF AtSubmit, TypeOK
    <3>3. attempts[j] + Open(j) <= attempts'[j] + Open(j)'
      BY <1>1, <1>5, <2>1 DEF Complete, Rethrow, Open, TypeOK
    <3>4. attempts'[j] \in Nat /\ Open(j)' \in {0, 1}
      BY <1>1 DEF TypeOK, Open
    <3> QED BY <1>5, <3>1, <3>2, <3>3, <3>4
  <2>2. ASSUME NEW i \in Jobs, BackoffOver(i) \/ LoseLock(i) \/ RecoverStalled(i)
        PROVE  /\ sent' = sent /\ AtSubmit(j)' \subseteq AtSubmit(j)
               /\ attempts[j] + stalls[j] + Open(j) <= attempts'[j] + stalls'[j] + Open(j)'
    <3>1. sent' = sent /\ pc' = pc /\ job' = job /\ attempts' = attempts
      BY <2>2 DEF BackoffOver, LoseLock, RecoverStalled, slotVars
    <3>2. stalls[j] + Open(j) <= stalls'[j] + Open(j)'
      BY <1>1, <1>5, <2>2 DEF BackoffOver, LoseLock, RecoverStalled, Open, TypeOK
    <3>3. stalls'[j] \in Nat /\ Open(j)' \in {0, 1}
      BY <1>1 DEF TypeOK, Open
    <3>4. AtSubmit(j)' = AtSubmit(j)
      BY <3>1 DEF AtSubmit
    <3>5. attempts'[j] = attempts[j]
      BY <3>1
    <3> QED BY <1>5, <3>1, <3>2, <3>3, <3>4, <3>5
  <2>3. CASE Crash
    <3>1. /\ sent' = sent /\ attempts'[j] = attempts[j] /\ stalls'[j] = stalls[j]
          /\ AtSubmit(j)' = {} /\ Open(j)' = Open(j)
      BY <2>3 DEF Crash, AtSubmit, Open
    <3> QED BY <1>5, <3>1
  <2> QED BY <1>8, <2>1, <2>2, <2>3 DEF QueueStep
<1>9. ASSUME QueueStep, ~\E s \in Slots, i \in Jobs : Take(s, i), NEW j \in Jobs
      PROVE  sent'[j] + Cardinality(AtSubmit(j)') <= attempts'[j] + stalls'[j] + Open(j)'
  <2>1. Cardinality(AtSubmit(j)') <= Cardinality(AtSubmit(j))
    BY <1>3, <1>4, <1>8, <1>9
  <2>2. attempts'[j] \in Nat /\ stalls'[j] \in Nat /\ Open(j)' \in Nat
    BY <1>1 DEF TypeOK, Open
  <2> QED BY <1>5, <1>8, <1>9, <2>1, <2>2 DEF SentInv
<1>10. CASE UNCHANGED vars
  BY <1>10 DEF vars, queueVars, slotVars, SentInv, AtSubmit, Open
<1> QED BY <1>1, <1>6, <1>7, <1>9, <1>10, StepKinds DEF SentInv

(* With finitely many slots a check is submitted at most once per attempt  *)
(* and per tolerated stall, whatever answers are lost and whatever stale   *)
(* runs go on beside the current one.                                      *)
THEOREM Bounded ==
  ASSUME IsFiniteSet(Slots)
  PROVE  Spec => []SubmissionsBounded
<1>1. Init => SentInv
  <2> SUFFICES ASSUME Init, NEW j \in Jobs
               PROVE  sent[j] + Cardinality(AtSubmit(j)) <= attempts[j] + stalls[j] + Open(j)
    BY DEF SentInv
  <2>1. AtSubmit(j) = {}
    BY DEF Init, AtSubmit
  <2>2. Cardinality(AtSubmit(j)) = 0
    BY <2>1, FS_EmptySet
  <2>3. sent[j] = 0 /\ attempts[j] = 0 /\ stalls[j] = 0 /\ Open(j) = 0
    BY DEF Init, Open
  <2> QED BY <2>2, <2>3
<1>2. QueueInv /\ SentInv /\ [Next]_vars => SentInv'
  BY SentNext
<1>3. QueueInv /\ SentInv => SubmissionsBounded
  <2> SUFFICES ASSUME QueueInv, SentInv, NEW j \in Jobs
               PROVE  sent[j] <= MaxAttempts + MaxStalledCount
    BY DEF SubmissionsBounded
  <2>1. Cardinality(AtSubmit(j)) \in Nat
    BY FS_Subset, FS_CardinalityType DEF AtSubmit
  <2>2. /\ sent[j] \in Nat /\ attempts[j] \in Nat /\ stalls[j] \in Nat /\ Open(j) \in {0, 1}
        /\ queue[j] = "failed" => Open(j) = 0
    BY DEF QueueInv, TypeOK, Open
  <2> QED BY <2>1, <2>2, WorkerAssumption DEF SentInv, QueueInv, TriesLeft
<1> QED BY <1>1, <1>2, <1>3, QueueHolds, PTL DEF Spec
=============================================================================
