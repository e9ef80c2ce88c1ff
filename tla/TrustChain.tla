----------------------------- MODULE TrustChain -----------------------------
(***************************************************************************)
(* The submission workers and the program they submit to.  A transaction   *)
(* the RPC node has taken is on its way: it lands, is refused by the       *)
(* program, or expires with its blockhash.  The backend's client returns   *)
(* as soon as the node took it; the web application's rpc() waits until it *)
(* is confirmed, for thirty seconds.  Neither worker orders the checks of  *)
(* a fixture: five jobs run at once and a failed one comes again later.    *)
(***************************************************************************)
EXTENDS OracleProgram, Sequences

CONSTANTS
  Checks,       \* the checks queued, each a record: fixture, consistent, margin
  Backend,      \* the key the workers sign with
  Clients,      \* does the client wait for the confirmation?
  Concurrency,  \* how many jobs run at once: 5
  MaxAttempts,  \* attempts of a job: 5
  MaxFaults,    \* bound: calls that fail or stay unanswered, transactions that expire
  MaxCrashes    \* bound: deaths of the worker

ASSUME ChainAssumption ==
  /\ Checks \subseteq [fixture : Fixtures, consistent : BOOLEAN, margin : Margins]
  /\ Backend \in Pubkeys
  /\ Clients \subseteq BOOLEAN
  /\ Concurrency \in Nat /\ MaxAttempts \in Nat /\ MaxFaults \in Nat /\ MaxCrashes \in Nat

VARIABLES
  waits,     \* which client this is
  run,       \* the job of each check
  attempts,  \* how many of its attempts have failed
  txs,       \* its transactions, in the order they were sent
  landings,  \* history: the checks whose transactions landed, in order
  earlier,   \* history: the checks completed when a check's first run began
  faults, crashes

jobVars   == <<waits, run, attempts, earlier>>
chainVars == <<vars, jobVars, txs, landings, faults, crashes>>

ChainInit ==
  /\ Init
  /\ waits \in Clients
  /\ run = [c \in Checks |-> "queued"] /\ attempts = [c \in Checks |-> 0]
  /\ txs = [c \in Checks |-> <<>>]
  /\ landings = <<>> /\ earlier = [c \in Checks |-> {}]
  /\ faults = 0 /\ crashes = 0

Goto(c, state) == run' = [run EXCEPT ![c] = state]
Fault == faults < MaxFaults /\ faults' = faults + 1

Running   == {c \in Checks : run[c] \in {"sending", "confirming"}}
Completed == {c \in Checks : run[c] = "completed"}

-----------------------------------------------------------------------------
(* The worker                                                              *)

Take(c) ==
  /\ run[c] = "queued" /\ Cardinality(Running) < Concurrency
  /\ earlier' = [earlier EXCEPT ![c] = IF attempts[c] = 0 /\ txs[c] = <<>> THEN Completed ELSE @]
  /\ Goto(c, "sending")
  /\ UNCHANGED <<vars, waits, attempts, txs, landings, faults, crashes>>

(* What the preflight simulation finds of the program's state.             *)
Acceptable(c) ==
  /\ Initialized /\ Authorized(Backend)
  /\ InRange(c.margin) /\ CountAllowed(c.fixture)
  /\ config.total_checks < MaxTotal
  /\ ~c.consistent => config.total_inconsistencies < MaxTotal

Sent(c) ==
  /\ run[c] = "sending" /\ Acceptable(c)
  /\ txs' = [txs EXCEPT ![c] = Append(@, "pending")]

(* The client throws, and BullMQ tries the job again while it has attempts.*)
Throw(c) ==
  /\ attempts' = [attempts EXCEPT ![c] = @ + 1]
  /\ Goto(c, IF attempts[c] + 1 < MaxAttempts THEN "queued" ELSE "failed")
  /\ UNCHANGED <<vars, waits, earlier, landings, crashes>>

SendMutant(c) ==
  /\ Sent(c)
  /\ Goto(c, "completed")
  /\ UNCHANGED <<vars, waits, attempts, earlier, landings, faults, crashes>>

Send(c) ==
  /\ Sent(c)
  /\ Goto(c, IF waits THEN "confirming" ELSE "completed")
  /\ UNCHANGED <<vars, waits, attempts, earlier, landings, faults, crashes>>

SendUnanswered(c) == Sent(c) /\ Fault /\ Throw(c)

Refused(c) ==
  /\ run[c] = "sending"
  /\ IF Acceptable(c) THEN Fault ELSE UNCHANGED faults
  /\ Throw(c) /\ UNCHANGED txs

LastTx(c) == txs[c][Len(txs[c])]

Confirmed(c) ==
  /\ run[c] = "confirming" /\ LastTx(c) = "landed"
  /\ Goto(c, "completed")
  /\ UNCHANGED <<vars, waits, attempts, earlier, txs, landings, faults, crashes>>

(* It failed on chain, or thirty seconds went by: it may still land.       *)
NotConfirmed(c) ==
  /\ run[c] = "confirming"
  /\ IF LastTx(c) = "gone" THEN UNCHANGED faults ELSE Fault
  /\ Throw(c) /\ UNCHANGED txs

(* The worker dies; its jobs are found stalled and run again.              *)
Crash ==
  /\ crashes < MaxCrashes /\ crashes' = crashes + 1
  /\ run' = [c \in Checks |-> IF c \in Running THEN "queued" ELSE run[c]]
  /\ UNCHANGED <<vars, waits, attempts, earlier, txs, landings, faults>>

-----------------------------------------------------------------------------
(* The chain                                                               *)

Pending(c, n) == n \in DOMAIN txs[c] /\ txs[c][n] = "pending"
Settle(c, n, outcome) == txs' = [txs EXCEPT ![c][n] = outcome]

Land(c, n) ==
  /\ Pending(c, n)
  /\ SubmitCheck(Backend, c.fixture, c.consistent, c.margin)
  /\ Settle(c, n, "landed")
  /\ landings' = Append(landings, c)
  /\ UNCHANGED <<jobVars, faults, crashes>>

FailOnChain(c, n) ==
  /\ Pending(c, n) /\ ~Acceptable(c)
  /\ Settle(c, n, "gone")
  /\ UNCHANGED <<vars, jobVars, landings, faults, crashes>>

Expire(c, n) ==
  /\ Pending(c, n) /\ Fault
  /\ Settle(c, n, "gone")
  /\ UNCHANGED <<vars, jobVars, landings, crashes>>

(* Everybody else who signs transactions for the program.                  *)
Others ==
  /\ \/ \E a, b \in Pubkeys : InitializeConfig(a, b)
     \/ \E f \in Fixtures :
          \/ \E s \in Pubkeys \ {Backend}, c \in BOOLEAN, m \in Margins : SubmitCheck(s, f, c, m)
          \/ QueryTrust(f)
          \/ TradingAgentCheck(f)
  /\ UNCHANGED <<jobVars, txs, landings, faults, crashes>>

ChainNext ==
  \/ \E c \in Checks :
       \/ Take(c) \/ Send(c) \/ SendUnanswered(c) \/ Refused(c)
       \/ Confirmed(c) \/ NotConfirmed(c)
       \/ \E n \in DOMAIN txs[c] : Land(c, n) \/ FailOnChain(c, n) \/ Expire(c, n)
  \/ Crash
  \/ Others

ChainSpec == ChainInit /\ [][ChainNext]_chainVars

-----------------------------------------------------------------------------
(* submit_check writes whatever lands last.  When the client waits for the *)
(* confirmation, a check whose job was completed before another one of its *)
(* fixture was taken up overwrites that one only if it was sent more than  *)
(* once; without a resend only jobs that ran together can change places.   *)
(* The backend's client, which does not wait, gives no such order.         *)
OlderVerdictForCause ==
  waits =>
    \A i, j \in DOMAIN landings :
      LET newer == landings[i]  older == landings[j] IN
      i < j /\ newer.fixture = older.fixture /\ older \in earlier[newer] => Len(txs[older]) > 1
=============================================================================
