-------------------------- MODULE TrustChain_proofs --------------------------
(***************************************************************************)
(* The workers and the chain for any checks, concurrency and retries.  The *)
(* composition implements the program, so that what is proved of the       *)
(* program holds with the workers in front of it.  The order of verdicts   *)
(* rests on what a waiting client leaves behind: the last transaction of a *)
(* completed job is no longer on its way.                                  *)
(***************************************************************************)
EXTENDS TrustChain, DataTheorems

(* The on-chain program.  The invariant is the conjunction of the type     *)
(* invariant and of the account invariants: an account cannot precede the  *)
(* config (OnlyBackendWrites), so the one step that resets the totals      *)
(* finds every account still empty.                                        *)
IInv == TypeOK /\ OnlyBackendWrites /\ CountersBoundAccounts

(* Before the config exists there is no trust account. *)
LEMMA InitEstablishes == Init => IInv
  BY ProgramAssumption
  DEF Init, IInv, TypeOK, OnlyBackendWrites, CountersBoundAccounts, Exists, NoTrust

(* Creating the config keeps the invariant: no account has a check yet. *)
LEMMA InitializeKeeps ==
  ASSUME IInv, NEW a \in Pubkeys, NEW b \in Pubkeys, InitializeConfig(a, b)
  PROVE  IInv'
<1> USE ProgramAssumption DEF IInv, InitializeConfig, Initialized, Exists
<1>1. TypeOK'
  BY DEF TypeOK
<1>2. \A f \in Fixtures : trust[f].check_count = 0
  BY DEF TypeOK, OnlyBackendWrites
<1>3. OnlyBackendWrites' /\ CountersBoundAccounts'
  BY <1>2 DEF TypeOK, OnlyBackendWrites, CountersBoundAccounts
<1> QED BY <1>1, <1>3

(* A check that is accepted keeps the invariant. *)
LEMMA SubmitKeeps ==
  ASSUME IInv, NEW f \in Fixtures, NEW s \in Pubkeys, NEW c \in BOOLEAN,
         NEW m \in Margins, SubmitCheck(s, f, c, m)
  PROVE  IInv'
<1> USE ProgramAssumption DEF IInv, SubmitCheck
<1>1. /\ config.total_checks \in 0 .. MaxTotal
      /\ config.total_inconsistencies \in 0 .. MaxTotal
      /\ trust[f].check_count \in 0 .. MaxCheckCount
      /\ m \in -MaxMarginBps .. MaxMarginBps
      /\ trust[f].check_count + 1 <= MaxCheckCount
  BY DEF TypeOK, InRange, CountAllowed
<1>2. /\ config'.total_checks = config.total_checks + 1
      /\ config'.total_inconsistencies =
           IF c THEN config.total_inconsistencies ELSE config.total_inconsistencies + 1
      /\ config'.authority = config.authority
      /\ config'.backend_signer = config.backend_signer
  BY DEF TypeOK
<1>3. /\ trust' = [trust EXCEPT ![f] = trust'[f]]
      /\ trust'[f] = [is_consistent |-> c, margin_bps |-> m,
                      check_count |-> trust[f].check_count + 1]
  BY DEF TypeOK
<1>4. TypeOK'
  <2>1. config' \in [authority : Pubkeys \cup {None}, backend_signer : Pubkeys \cup {None},
                     total_checks : 0 .. MaxTotal, total_inconsistencies : 0 .. MaxTotal]
    <3>1. /\ config.total_checks + 1 \in 0 .. MaxTotal
          /\ ~c => config.total_inconsistencies + 1 \in 0 .. MaxTotal
      BY <1>1
    <3> QED BY <3>1 DEF TypeOK
  <2>2. trust' \in [Fixtures -> [is_consistent : BOOLEAN,
                                 margin_bps : -MaxMarginBps .. MaxMarginBps,
                                 check_count : 0 .. MaxCheckCount]]
    <3>1. trust[f].check_count + 1 \in 0 .. MaxCheckCount
      BY <1>1
    <3> QED BY <1>1, <3>1 DEF TypeOK
  <2>3. writer' \in [Fixtures -> Pubkeys \cup {None}]
    BY DEF TypeOK
  <2> QED BY <2>1, <2>2, <2>3 DEF TypeOK
<1>5. OnlyBackendWrites'
  BY <1>2, <1>3 DEF TypeOK, OnlyBackendWrites, Authorized, Initialized, Exists
<1>6. CountersBoundAccounts'
  BY <1>1, <1>2, <1>3 DEF TypeOK, CountersBoundAccounts, Exists
<1> QED BY <1>4, <1>5, <1>6

(* Every transaction, and every stutter, keeps the invariant. *)
LEMMA NextKeeps == IInv /\ [Next]_vars => IInv'
<1> SUFFICES ASSUME IInv, [Next]_vars PROVE IInv'
  OBVIOUS
<1>1. ASSUME NEW a \in Pubkeys, NEW b \in Pubkeys, InitializeConfig(a, b) PROVE IInv'
  BY <1>1, InitializeKeeps
<1>2. ASSUME NEW f \in Fixtures, NEW s \in Pubkeys, NEW c \in BOOLEAN, NEW m \in Margins,
             SubmitCheck(s, f, c, m)
      PROVE  IInv'
  BY <1>2, SubmitKeeps
<1>3. CASE UNCHANGED <<config, trust, writer>>
  BY <1>3 DEF IInv, TypeOK, OnlyBackendWrites, CountersBoundAccounts, Exists, Initialized
<1> QED BY <1>1, <1>2, <1>3 DEF Next, QueryTrust, TradingAgentCheck, vars

(* The invariant holds in every reachable state of the program. *)
LEMMA InvariantHolds == Spec => []IInv
<1>1. Init => IInv
  BY InitEstablishes
<1>2. IInv /\ [Next]_vars => IInv'
  BY NextKeeps
<1> QED BY <1>1, <1>2, PTL DEF Spec

(* The accounts keep to their types and limits: check_count never passes   *)
(* MAX_CHECK_COUNT, no margin leaves the range, no total overflows.        *)
THEOREM TypeCorrect == Spec => []TypeOK
  BY InvariantHolds, PTL DEF IInv

(* Whatever keys sign transactions, only the backend signer's verdicts are *)
(* on chain.                                                               *)
THEOREM BackendAlone == Spec => []OnlyBackendWrites
  BY InvariantHolds, PTL DEF IInv

(* The totals of the config never contradict the trust accounts. *)
THEOREM CountersBound == Spec => []CountersBoundAccounts
  BY InvariantHolds, PTL DEF IInv

(* The config is created before any account, and a check moves one account *)
(* and the total by one.                                                   *)
LEMMA NextKeepsAgreement == IInv /\ CountersAgree /\ [Next]_vars => CountersAgree'
<1> SUFFICES ASSUME IInv, CountersAgree, [Next]_vars PROVE CountersAgree'
  OBVIOUS
<1> USE ProgramAssumption
<1>1. /\ \A f \in Fixtures : CheckCounts[f] = trust[f].check_count
      /\ \A f \in Fixtures : CheckCounts'[f] = trust'[f].check_count
      /\ \A f \in Fixtures : trust[f].check_count \in Nat
  BY DEF CheckCounts, IInv, TypeOK
<1>2. ASSUME NEW a \in Pubkeys, NEW b \in Pubkeys, InitializeConfig(a, b) PROVE CountersAgree'
  <2>1. \A f \in Fixtures : CheckCounts'[f] = 0
    BY <1>1, <1>2 DEF IInv, OnlyBackendWrites, TypeOK, Exists, InitializeConfig
  <2>2. SumFunctionOnSet(CheckCounts', Fixtures) = 0
    <3>1. PICK g : g = CheckCounts'
      OBVIOUS
    <3>2. \A f \in Fixtures : g[f] = 0
      BY <2>1, <3>1
    <3> QED BY <3>1, <3>2, SumZero
  <2> QED BY <1>2, <2>2 DEF CountersAgree, InitializeConfig
<1>3. ASSUME NEW f \in Fixtures, NEW s \in Pubkeys, NEW c \in BOOLEAN, NEW m \in Margins,
             SubmitCheck(s, f, c, m)
      PROVE  CountersAgree'
  <2>1. /\ config'.total_checks = config.total_checks + 1
        /\ CheckCounts'[f] = CheckCounts[f] + 1
        /\ \A g \in Fixtures \ {f} : CheckCounts'[g] = CheckCounts[g]
    BY <1>1, <1>3 DEF IInv, TypeOK, SubmitCheck
  <2>2. SumFunctionOnSet(CheckCounts', Fixtures) = SumFunctionOnSet(CheckCounts, Fixtures) + 1
    <3>1. PICK h : h = CheckCounts'
      OBVIOUS
    <3>2. PICK g : g = CheckCounts
      OBVIOUS
    <3>3. h[f] = g[f] + 1 /\ \A x \in Fixtures \ {f} : h[x] = g[x]
      BY <2>1, <3>1, <3>2
    <3>4. \A x \in Fixtures : g[x] \in Nat
      BY <1>1, <3>2
    <3>5. SumFunctionOnSet(h, Fixtures) = SumFunctionOnSet(g, Fixtures) + 1
      BY <3>3, <3>4, SumIncrement
    <3> QED BY <3>1, <3>2, <3>5
  <2> QED BY <2>1, <2>2 DEF CountersAgree
<1>4. CASE UNCHANGED <<config, trust>>
  BY <1>4 DEF CountersAgree, CheckCounts
<1> QED BY <1>2, <1>3, <1>4 DEF Next, QueryTrust, TradingAgentCheck, vars

(* The count of all checks is the sum of the counts of the fixtures,       *)
(* however many fixtures there are.                                        *)
THEOREM CountersAddUp == Spec => []CountersAgree
<1>1. Init => CountersAgree
  <2> SUFFICES ASSUME Init PROVE CountersAgree
    OBVIOUS
  <2>1. \A f \in Fixtures : CheckCounts[f] = 0
    BY DEF Init, CheckCounts, NoTrust
  <2>2. SumFunctionOnSet(CheckCounts, Fixtures) = 0
    <3>1. PICK g : g = CheckCounts
      OBVIOUS
    <3> QED BY <2>1, <3>1, SumZero, ProgramAssumption
  <2> QED BY <2>2 DEF Init, CountersAgree
<1> QED BY <1>1, InvariantHolds, NextKeepsAgreement, PTL DEF Spec

(* A step moves one fixture by one check and the totals with it, and never *)
(* replaces the identities in the config.                                  *)
LEMMA StepCountsOnce ==
  ASSUME IInv, [Next]_vars
  PROVE  /\ \A f \in Fixtures : trust'[f] # trust[f] =>
              /\ trust'[f].check_count = trust[f].check_count + 1
              /\ config'.total_checks = config.total_checks + 1
              /\ \A g \in Fixtures \ {f} : trust'[g] = trust[g]
         /\ Initialized => /\ config'.backend_signer = config.backend_signer
                           /\ config'.authority = config.authority
                           /\ config'.total_checks >= config.total_checks
<1> USE DEF IInv, TypeOK
<1>1. CASE UNCHANGED <<config, trust>>
  BY <1>1
<1>2. ASSUME NEW a \in Pubkeys, NEW b \in Pubkeys, InitializeConfig(a, b)
      PROVE  trust' = trust /\ ~Initialized
  BY <1>2 DEF InitializeConfig
<1>3. ASSUME NEW f \in Fixtures, NEW s \in Pubkeys, NEW c \in BOOLEAN, NEW m \in Margins,
             SubmitCheck(s, f, c, m)
      PROVE  /\ trust'[f].check_count = trust[f].check_count + 1
             /\ \A g \in Fixtures \ {f} : trust'[g] = trust[g]
             /\ config'.total_checks = config.total_checks + 1
             /\ config'.backend_signer = config.backend_signer
             /\ config'.authority = config.authority
  BY <1>3 DEF SubmitCheck
<1>4. config.total_checks + 1 >= config.total_checks
  OBVIOUS
<1> QED BY <1>1, <1>2, <1>3, <1>4 DEF Next, QueryTrust, TradingAgentCheck, vars

(* Every transaction the program ever accepts counts exactly once. *)
THEOREM Counted == Spec => CountedOnce
  BY InvariantHolds, StepCountsOnce, PTL DEF Spec, CountedOnce
-----------------------------------------------------------------------------
(* The workers and their transactions. *)

Outcomes == {"pending", "landed", "gone"}
Runs     == {"queued", "sending", "confirming", "completed", "failed"}

JobTypes ==
  /\ waits \in BOOLEAN
  /\ run \in [Checks -> Runs]
  /\ txs \in [Checks -> Seq(Outcomes)]
  /\ earlier \in [Checks -> SUBSET Checks]
  /\ landings \in Seq(Checks)

(* What lands was sent, and what was completed earlier stays completed.    *)
Ordered ==
  /\ \A i \in DOMAIN landings : Len(txs[landings[i]]) > 0
  /\ \A c \in Checks : \A d \in earlier[c] : run[d] = "completed"

(* A client that waits is told of its last transaction.                    *)
Awaited ==
  waits => \A c \in Checks :
    /\ run[c] \in {"confirming", "completed"} => Len(txs[c]) > 0
    /\ run[c] = "completed" => txs[c][Len(txs[c])] = "landed"

ChainInv == JobTypes /\ Ordered /\ Awaited /\ OlderVerdictForCause

LEMMA ChainInitEstablishes == ChainInit => ChainInv
  BY ChainAssumption
  DEF ChainInit, ChainInv, JobTypes, Ordered, Awaited, OlderVerdictForCause, Runs

(* A step that sends nothing and settles nothing, and completes no job.    *)
LEMMA RunStepKeeps ==
  ASSUME ChainInv, UNCHANGED <<waits, txs, landings, earlier>>,
         run' \in [Checks -> Runs],
         \A c \in Checks : run[c] = "completed" <=> run'[c] = "completed",
         \A c \in Checks : run'[c] = "confirming" => run[c] = "confirming"
  PROVE  ChainInv'
<1> USE DEF ChainInv
<1>1. JobTypes' /\ Ordered'
  BY DEF JobTypes, Ordered
<1>2. Awaited' /\ OlderVerdictForCause'
  BY DEF Awaited, OlderVerdictForCause
<1> QED BY <1>1, <1>2

(* The job of a check that is not completed moves to where none is.        *)
LEMMA GotoKeeps ==
  ASSUME ChainInv, UNCHANGED <<waits, txs, landings, earlier>>,
         NEW c \in Checks, run[c] # "completed",
         NEW state \in {"queued", "sending", "failed"}, Goto(c, state)
  PROVE  ChainInv'
<1>1. /\ run'[c] = state /\ \A d \in Checks \ {c} : run'[d] = run[d]
      /\ run' \in [Checks -> Runs]
  BY DEF Goto, ChainInv, JobTypes, Runs
<1> QED BY <1>1, RunStepKeeps

LEMMA ThrowKeeps ==
  ASSUME ChainInv, NEW c \in Checks, run[c] # "completed", Throw(c), UNCHANGED txs
  PROVE  ChainInv'
<1>1. UNCHANGED <<waits, txs, landings, earlier>>
  BY DEF Throw
<1>2. Goto(c, "queued") \/ Goto(c, "failed")
  BY DEF Throw
<1>3. CASE Goto(c, "queued")
  BY <1>1, <1>3, GotoKeeps
<1>4. CASE Goto(c, "failed")
  BY <1>1, <1>4, GotoKeeps
<1> QED BY <1>2, <1>3, <1>4

(* A first run remembers what was completed before it; nothing of its own  *)
(* check has landed yet.                                                   *)
LEMMA TakeKeeps ==
  ASSUME ChainInv, NEW c \in Checks, Take(c)
  PROVE  ChainInv'
<1> USE DEF ChainInv
<1>1. /\ UNCHANGED <<waits, txs, landings>>
      /\ run[c] = "queued" /\ run'[c] = "sending"
      /\ \A d \in Checks \ {c} : run'[d] = run[d] /\ earlier'[d] = earlier[d]
      /\ run' \in [Checks -> Runs]
      /\ earlier' \in [Checks -> SUBSET Checks]
      /\ earlier'[c] = earlier[c] \/ (txs[c] = <<>> /\ earlier'[c] = Completed)
  BY DEF Take, Goto, JobTypes, Runs, Completed
<1>2. JobTypes'
  BY <1>1 DEF JobTypes
<1>3. Ordered'
  BY <1>1 DEF Ordered, JobTypes, Completed
<1>4. Awaited'
  BY <1>1 DEF Awaited
<1>5. OlderVerdictForCause'
  <2>1. \A i \in DOMAIN landings : landings[i] \in Checks /\ Len(txs[landings[i]]) > 0
    BY DEF JobTypes, Ordered
  <2>2. \A i \in DOMAIN landings : earlier'[landings[i]] = earlier[landings[i]]
    BY <2>1, <1>1
  <2> QED BY <2>2, <1>1 DEF OlderVerdictForCause
<1> QED BY <1>2, <1>3, <1>4, <1>5

(* A job that is being sent gains a pending transaction.                   *)
LEMMA SentKeeps ==
  ASSUME ChainInv, NEW c \in Checks, Sent(c), UNCHANGED <<waits, landings, earlier>>,
         NEW state \in Runs, Goto(c, state), waits => state # "completed"
  PROVE  ChainInv'
<1> USE DEF ChainInv
<1>1. /\ run[c] = "sending" /\ run'[c] = state
      /\ \A d \in Checks \ {c} : run'[d] = run[d] /\ txs'[d] = txs[d]
      /\ run' \in [Checks -> Runs]
      /\ txs[c] \in Seq(Outcomes) /\ txs'[c] = Append(txs[c], "pending")
      /\ txs' = [txs EXCEPT ![c] = Append(txs[c], "pending")]
  BY DEF Sent, Goto, JobTypes
<1>2. /\ txs'[c] \in Seq(Outcomes) /\ Len(txs'[c]) = Len(txs[c]) + 1 /\ Len(txs[c]) \in Nat
  BY <1>1 DEF Outcomes
<1>3. txs' \in [Checks -> Seq(Outcomes)]
  BY <1>1, <1>2 DEF JobTypes
<1>4. \A d \in Checks : Len(txs'[d]) \in Nat /\ Len(txs[d]) \in Nat /\ Len(txs'[d]) >= Len(txs[d])
  BY <1>1, <1>2 DEF JobTypes
<1>5. JobTypes'
  BY <1>1, <1>3 DEF JobTypes
<1>6. Ordered'
  <2>1. \A i \in DOMAIN landings : Len(txs'[landings[i]]) > 0
    BY <1>4 DEF Ordered, JobTypes
  <2> QED BY <2>1, <1>1 DEF Ordered, JobTypes
<1>7. Awaited'
  BY <1>1, <1>2, <1>4 DEF Awaited
<1>8. OlderVerdictForCause'
  BY <1>4 DEF OlderVerdictForCause, JobTypes
<1> QED BY <1>5, <1>6, <1>7, <1>8

(* The job of a landed transaction is completed.                           *)
LEMMA ConfirmedKeeps ==
  ASSUME ChainInv, NEW c \in Checks, Confirmed(c)
  PROVE  ChainInv'
<1> USE DEF ChainInv
<1>1. /\ UNCHANGED <<waits, txs, landings, earlier>>
      /\ run[c] = "confirming" /\ run'[c] = "completed" /\ txs[c][Len(txs[c])] = "landed"
      /\ \A d \in Checks \ {c} : run'[d] = run[d]
      /\ run' \in [Checks -> Runs]
  BY DEF Confirmed, Goto, LastTx, JobTypes, Runs
<1>2. JobTypes' /\ Ordered'
  BY <1>1 DEF JobTypes, Ordered
<1>3. Awaited' /\ OlderVerdictForCause'
  BY <1>1 DEF Awaited, OlderVerdictForCause
<1> QED BY <1>2, <1>3

(* What settling a transaction leaves of the lengths and of the others.    *)
LEMMA SettleChanges ==
  ASSUME ChainInv, NEW c \in Checks, NEW n \in DOMAIN txs[c], Pending(c, n),
         NEW outcome \in Outcomes, Settle(c, n, outcome)
  PROVE  /\ txs' \in [Checks -> Seq(Outcomes)]
         /\ \A d \in Checks : Len(txs'[d]) = Len(txs[d]) /\ Len(txs[d]) \in Nat
         /\ \A d \in Checks \ {c} : txs'[d] = txs[d]
         /\ \A m \in DOMAIN txs[c] \ {n} : txs'[c][m] = txs[c][m]
<1>1. txs[c] \in Seq(Outcomes) /\ txs' = [txs EXCEPT ![c] = [txs[c] EXCEPT ![n] = outcome]]
  BY DEF Settle, ChainInv, JobTypes
<1>2. /\ [txs[c] EXCEPT ![n] = outcome] \in Seq(Outcomes)
      /\ Len([txs[c] EXCEPT ![n] = outcome]) = Len(txs[c]) /\ Len(txs[c]) \in Nat
  BY <1>1
<1> QED BY <1>1, <1>2 DEF ChainInv, JobTypes

(* A completed job's last transaction is not the one that settles.         *)
LEMMA SettleKeeps ==
  ASSUME ChainInv, NEW c \in Checks, NEW n \in DOMAIN txs[c], Pending(c, n),
         NEW outcome \in Outcomes, Settle(c, n, outcome), UNCHANGED <<waits, run, earlier>>,
         landings' \in Seq(Checks)
  PROVE  /\ JobTypes'
         /\ Awaited'
         /\ \A d \in Checks : \A e \in earlier[d] : run'[e] = "completed"
         /\ waits /\ run[c] = "completed" => Len(txs[c]) > 1
<1>1. /\ txs' \in [Checks -> Seq(Outcomes)]
      /\ \A d \in Checks : Len(txs'[d]) = Len(txs[d]) /\ Len(txs[d]) \in Nat
      /\ \A d \in Checks \ {c} : txs'[d] = txs[d]
      /\ \A m \in DOMAIN txs[c] \ {n} : txs'[c][m] = txs[c][m]
  BY SettleChanges
<1>2. JobTypes'
  BY <1>1 DEF ChainInv, JobTypes
<1>3. txs[c] \in Seq(Outcomes) /\ n \in 1 .. Len(txs[c]) /\ txs[c][n] = "pending"
  BY DEF Pending, ChainInv, JobTypes
<1>4. ASSUME waits, run[c] = "completed"
      PROVE  Len(txs[c]) > 1 /\ txs'[c][Len(txs'[c])] = "landed"
  <2>1. txs[c][Len(txs[c])] = "landed" /\ Len(txs[c]) > 0
    BY <1>4 DEF ChainInv, Awaited
  <2>2. n # Len(txs[c])
    BY <2>1, <1>3
  <2>3. Len(txs[c]) \in DOMAIN txs[c] \ {n}
    BY <2>1, <2>2, <1>3
  <2> QED BY <2>1, <2>2, <2>3, <1>1, <1>3, SMTT(60)
<1>5. Awaited'
  BY <1>1, <1>4 DEF ChainInv, Awaited
<1>6. \A d \in Checks : \A e \in earlier[d] : run'[e] = "completed"
  BY DEF ChainInv, Ordered
<1> QED BY <1>2, <1>4, <1>5, <1>6

(* A transaction that does not land changes nobody's place.                *)
LEMMA GoneKeeps ==
  ASSUME ChainInv, NEW c \in Checks, NEW n \in DOMAIN txs[c], Pending(c, n),
         Settle(c, n, "gone"), UNCHANGED <<waits, run, earlier, landings>>
  PROVE  ChainInv'
<1>1. "gone" \in Outcomes /\ landings' \in Seq(Checks)
  BY DEF Outcomes, ChainInv, JobTypes
<1>2. \A d \in Checks : Len(txs'[d]) = Len(txs[d])
  BY <1>1, SettleChanges
<1>3. JobTypes' /\ Awaited' /\ \A d \in Checks : \A e \in earlier[d] : run'[e] = "completed"
  BY <1>1, SettleKeeps
<1>4. \A i \in DOMAIN landings : landings[i] \in Checks
  BY DEF ChainInv, JobTypes
<1>5. Ordered' /\ OlderVerdictForCause'
  BY <1>2, <1>3, <1>4 DEF ChainInv, JobTypes, Ordered, OlderVerdictForCause
<1> QED BY <1>3, <1>5 DEF ChainInv

(* The landing of a check whose job is completed is that of an earlier one *)
(* of its transactions.                                                    *)
LEMMA LandKeeps ==
  ASSUME ChainInv, NEW c \in Checks, NEW n \in DOMAIN txs[c], Land(c, n)
  PROVE  ChainInv'
<1>1. /\ Pending(c, n) /\ Settle(c, n, "landed") /\ UNCHANGED <<waits, run, earlier>>
      /\ landings' = Append(landings, c) /\ "landed" \in Outcomes
  BY DEF Land, jobVars, Outcomes
<1>2. /\ landings \in Seq(Checks) /\ landings' \in Seq(Checks)
      /\ Len(landings) \in Nat /\ Len(landings') = Len(landings) + 1
      /\ landings'[Len(landings')] = c
      /\ \A i \in 1 .. Len(landings) : landings'[i] = landings[i]
      /\ DOMAIN landings' = 1 .. Len(landings') /\ DOMAIN landings = 1 .. Len(landings)
  BY <1>1 DEF ChainInv, JobTypes
<1>3. \A d \in Checks : Len(txs'[d]) = Len(txs[d]) /\ Len(txs[d]) \in Nat
  BY <1>1, SettleChanges
<1>4. /\ JobTypes' /\ Awaited' /\ \A d \in Checks : \A e \in earlier[d] : run'[e] = "completed"
      /\ waits /\ run[c] = "completed" => Len(txs[c]) > 1
  BY <1>1, <1>2, SettleKeeps
<1>5. Len(txs[c]) > 0
  <2>1. txs[c] \in Seq(Outcomes)
    BY DEF ChainInv, JobTypes
  <2> QED BY <2>1
<1>6. Ordered'
  <2>1. ASSUME NEW i \in DOMAIN landings' PROVE Len(txs'[landings'[i]]) > 0
    <3>1. CASE i = Len(landings')
      BY <3>1, <1>2, <1>3, <1>5
    <3>2. CASE i # Len(landings')
      <4>1. i \in DOMAIN landings /\ landings'[i] = landings[i] /\ landings[i] \in Checks
        BY <3>2, <1>2
      <4> QED BY <4>1, <1>3 DEF ChainInv, Ordered
    <3> QED BY <3>1, <3>2
  <2> QED BY <2>1, <1>1, <1>4 DEF Ordered
<1>7. OlderVerdictForCause'
  <2> SUFFICES ASSUME waits, NEW i \in DOMAIN landings', NEW j \in DOMAIN landings', i < j,
                      landings'[i].fixture = landings'[j].fixture,
                      landings'[j] \in earlier[landings'[i]]
               PROVE  Len(txs'[landings'[j]]) > 1
    BY <1>1 DEF OlderVerdictForCause
  <2>1. i \in DOMAIN landings /\ landings'[i] = landings[i] /\ landings[i] \in Checks
    BY <1>2
  <2>2. CASE j = Len(landings')
    <3>1. run[c] = "completed"
      BY <2>1, <2>2, <1>2 DEF ChainInv, Ordered
    <3> QED BY <3>1, <2>2, <1>2, <1>3, <1>4
  <2>3. CASE j # Len(landings')
    <3>1. j \in DOMAIN landings /\ landings'[j] = landings[j] /\ landings[j] \in Checks
      BY <2>3, <1>2
    <3> QED BY <2>1, <3>1, <1>3 DEF ChainInv, OlderVerdictForCause
  <2> QED BY <2>2, <2>3
<1> QED BY <1>4, <1>6, <1>7 DEF ChainInv

(* The worker's death takes up its jobs again and completes none.          *)
LEMMA CrashKeeps ==
  ASSUME ChainInv, Crash
  PROVE  ChainInv'
<1>1. /\ UNCHANGED <<waits, txs, landings, earlier>>
      /\ \A c \in Checks : run'[c] = IF c \in Running THEN "queued" ELSE run[c]
      /\ run' \in [Checks -> Runs]
  BY DEF Crash, ChainInv, JobTypes, Runs
<1>2. \A c \in Running : run[c] # "completed"
  BY DEF Running
<1> QED BY <1>1, <1>2, RunStepKeeps DEF Running

LEMMA ChainNextKeeps == ChainInv /\ [ChainNext]_chainVars => ChainInv'
<1> SUFFICES ASSUME ChainInv, [ChainNext]_chainVars PROVE ChainInv'
  OBVIOUS
<1>1. ASSUME NEW c \in Checks, Take(c) PROVE ChainInv'
  BY <1>1, TakeKeeps
<1>2. ASSUME NEW c \in Checks, Send(c) PROVE ChainInv'
  <2>1. CASE waits
    BY <1>2, <2>1, SentKeeps DEF Send, Runs
  <2>2. CASE ~waits
    BY <1>2, <2>2, SentKeeps DEF Send, Runs
  <2> QED BY <2>1, <2>2
<1>3. ASSUME NEW c \in Checks, SendUnanswered(c) PROVE ChainInv'
  <2>1. Sent(c) /\ UNCHANGED <<waits, landings, earlier>>
    BY <1>3 DEF SendUnanswered, Throw
  <2>2. Goto(c, "queued") \/ Goto(c, "failed")
    BY <1>3 DEF SendUnanswered, Throw
  <2>3. {"queued", "failed"} \subseteq Runs
    BY DEF Runs
  <2>4. CASE Goto(c, "queued")
    BY <2>1, <2>3, <2>4, SentKeeps
  <2>5. CASE Goto(c, "failed")
    BY <2>1, <2>3, <2>5, SentKeeps
  <2> QED BY <2>2, <2>4, <2>5
<1>4. ASSUME NEW c \in Checks, Refused(c) PROVE ChainInv'
  BY <1>4, ThrowKeeps DEF Refused
<1>5. ASSUME NEW c \in Checks, Confirmed(c) PROVE ChainInv'
  BY <1>5, ConfirmedKeeps
<1>6. ASSUME NEW c \in Checks, NotConfirmed(c) PROVE ChainInv'
  BY <1>6, ThrowKeeps DEF NotConfirmed
<1>7. ASSUME NEW c \in Checks, NEW n \in DOMAIN txs[c], Land(c, n) PROVE ChainInv'
  BY <1>7, LandKeeps
<1>8. ASSUME NEW c \in Checks, NEW n \in DOMAIN txs[c], FailOnChain(c, n) PROVE ChainInv'
  BY <1>8, GoneKeeps DEF FailOnChain, jobVars
<1>9. ASSUME NEW c \in Checks, NEW n \in DOMAIN txs[c], Expire(c, n) PROVE ChainInv'
  BY <1>9, GoneKeeps DEF Expire, jobVars
<1>10. CASE Crash
  BY <1>10, CrashKeeps
<1>11. CASE UNCHANGED <<jobVars, txs, landings>>
  BY <1>11 DEF jobVars, ChainInv, JobTypes, Ordered, Awaited, OlderVerdictForCause
<1> QED BY <1>1, <1>2, <1>3, <1>4, <1>5, <1>6, <1>7, <1>8, <1>9, <1>10, <1>11
        DEF ChainNext, Others, chainVars

(* With a client that waits for the confirmation, a verdict is overwritten *)
(* by an older one only when that one was sent again or ran beside it.     *)
THEOREM OlderVerdict == ChainSpec => []OlderVerdictForCause
<1>1. ChainInv => OlderVerdictForCause
  BY DEF ChainInv
<1> QED BY <1>1, ChainInitEstablishes, ChainNextKeeps, PTL DEF ChainSpec

-----------------------------------------------------------------------------
(* Every step of the composition is an instruction of the program, or      *)
(* leaves its accounts alone.                                              *)
LEMMA StepIsProgramStep == [ChainNext]_chainVars => [Next]_vars
<1> SUFFICES ASSUME [ChainNext]_chainVars PROVE [Next]_vars
  OBVIOUS
<1>1. ASSUME NEW c \in Checks, Take(c) \/ Send(c) \/ Confirmed(c) PROVE UNCHANGED vars
  BY <1>1 DEF Take, Send, Confirmed
<1>2. ASSUME NEW c \in Checks, SendUnanswered(c) \/ Refused(c) \/ NotConfirmed(c)
      PROVE  UNCHANGED vars
  BY <1>2 DEF SendUnanswered, Refused, NotConfirmed, Throw
<1>3. ASSUME NEW c \in Checks, NEW n \in DOMAIN txs[c], Land(c, n) PROVE Next
  <2>1. /\ SubmitCheck(Backend, c.fixture, c.consistent, c.margin)
        /\ Backend \in Pubkeys /\ c.fixture \in Fixtures
        /\ c.consistent \in BOOLEAN /\ c.margin \in Margins
    BY <1>3, ChainAssumption DEF Land
  <2> QED BY <2>1 DEF Next
<1>4. ASSUME NEW c \in Checks, NEW n \in DOMAIN txs[c], FailOnChain(c, n) \/ Expire(c, n)
      PROVE  UNCHANGED vars
  BY <1>4 DEF FailOnChain, Expire
<1>5. CASE Crash
  BY <1>5 DEF Crash
<1>6. CASE Others
  BY <1>6 DEF Others, Next
<1>7. CASE UNCHANGED chainVars
  BY <1>7 DEF chainVars
<1> QED BY <1>1, <1>2, <1>3, <1>4, <1>5, <1>6, <1>7 DEF ChainNext

(* The workers, their chain and everybody else implement the program       *)
(* alone: what every sequence of instructions keeps, they keep.            *)
THEOREM ChainImplementsProgram == ChainSpec => Spec
<1>1. ChainInit => Init
  BY DEF ChainInit
<1> QED BY <1>1, StepIsProgramStep, PTL DEF ChainSpec, Spec

(* With the workers in front of it, only the configured signer's verdicts  *)
(* are on chain.                                                           *)
THEOREM ChainBackendAlone == ChainSpec => []OnlyBackendWrites
  BY ChainImplementsProgram, BackendAlone, PTL

(* With them, too, the counters of the program and of its accounts agree.  *)
THEOREM ChainCountersAgree == ChainSpec => []CountersAgree
  BY ChainImplementsProgram, CountersAddUp, PTL
=============================================================================
