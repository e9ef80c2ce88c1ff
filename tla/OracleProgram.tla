--------------------------- MODULE OracleProgram ---------------------------
(***************************************************************************)
(* The on-chain program of oddtrust-oracle: the config account, one trust  *)
(* account per fixture, and the four instructions.  A transaction is       *)
(* atomic and Solana runs those that write the same account one at a time, *)
(* so an instruction is one step; one that fails (a require!, an unwrap()  *)
(* or an arithmetic panic) changes nothing and is no step at all.  The     *)
(* slot, the timestamp and the proof reference are data nothing branches   *)
(* on, and are left out.                                                   *)
(***************************************************************************)
EXTENDS Integers, FiniteSetsExt

CONSTANTS
  Fixtures,       \* fixture ids, 32 bytes each
  Pubkeys,        \* who may sign a transaction
  Margins,        \* i32 values a transaction may carry
  MaxMarginBps,   \* MAX_MARGIN_BPS, 10000
  MaxCheckCount,  \* MAX_CHECK_COUNT, 1000000
  MaxTotal,       \* u64::MAX
  None

ASSUME ProgramAssumption ==
  /\ IsFiniteSet(Fixtures)
  /\ Margins \subseteq Int
  /\ MaxMarginBps \in Nat /\ MaxCheckCount \in Nat /\ MaxTotal \in Nat
  /\ None \notin Pubkeys

VARIABLES
  config,  \* the OracleConfig account: its signer and its two counters
  trust,   \* the FixtureTrust accounts; check_count is 0 until one exists
  writer,  \* history: who signed the last check of each fixture
  event    \* the last event emitted

vars == <<config, trust, writer, event>>

NoTrust == [is_consistent |-> FALSE, margin_bps |-> 0, check_count |-> 0]
NoEvent == [kind |-> "none"]

Init ==
  /\ config = [authority |-> None, backend_signer |-> None,
               total_checks |-> 0, total_inconsistencies |-> 0]
  /\ trust  = [f \in Fixtures |-> NoTrust]
  /\ writer = [f \in Fixtures |-> None]
  /\ event  = NoEvent

Initialized == config.backend_signer # None

InitializeConfigMutant(authority, backendSigner) ==
  /\ config' = [authority |-> authority, backend_signer |-> backendSigner,
                total_checks |-> 0, total_inconsistencies |-> 0]
  /\ event' = [kind |-> "initialized"]
  /\ UNCHANGED <<trust, writer>>

(* `init` fails when the account is there: the first call is the only one. *)
InitializeConfig(authority, backendSigner) ==
  /\ ~Initialized
  /\ config' = [authority |-> authority, backend_signer |-> backendSigner,
                total_checks |-> 0, total_inconsistencies |-> 0]
  /\ event' = [kind |-> "initialized"]
  /\ UNCHANGED <<trust, writer>>

AuthorizedMutant(signer) == TRUE

Authorized(signer) == signer = config.backend_signer

(* i32::MIN.abs() panics under overflow-checks: refused like the others. *)
InRange(margin) == margin \in -MaxMarginBps .. MaxMarginBps

CountAllowedMutant(f) == trust[f].check_count <= MaxCheckCount

CountAllowed(f) == trust[f].check_count + 1 <= MaxCheckCount

SubmitCheckMutant(signer, f, consistent, margin) ==
  /\ Initialized
  /\ Authorized(signer)
  /\ InRange(margin)
  /\ CountAllowed(f)
  /\ config.total_checks < MaxTotal
  /\ ~consistent => config.total_inconsistencies < MaxTotal
  /\ trust' = [trust EXCEPT ![f] = [is_consistent |-> consistent, margin_bps |-> margin,
                                    check_count |-> @.check_count + 1]]
  /\ config' = [config EXCEPT !.total_checks = IF consistent THEN @ + 1 ELSE @,
                              !.total_inconsistencies = IF consistent THEN @ ELSE @ + 1]
  /\ writer' = [writer EXCEPT ![f] = signer]
  /\ event' = [kind |-> "submitted", fixture |-> f, is_consistent |-> consistent]

SubmitCheckMutant2(signer, f, consistent, margin) ==
  /\ Initialized
  /\ Authorized(signer)
  /\ InRange(margin)
  /\ CountAllowed(f)
  /\ config.total_checks < MaxTotal
  /\ ~consistent => config.total_inconsistencies < MaxTotal
  /\ trust' = [trust EXCEPT ![f] = [is_consistent |-> consistent, margin_bps |-> margin,
                                    check_count |-> @.check_count]]
  /\ config' = [config EXCEPT !.total_checks = @ + 1,
                              !.total_inconsistencies = IF consistent THEN @ ELSE @ + 1]
  /\ writer' = [writer EXCEPT ![f] = signer]
  /\ event' = [kind |-> "submitted", fixture |-> f, is_consistent |-> consistent]

SubmitCheck(signer, f, consistent, margin) ==
  /\ Initialized
  /\ Authorized(signer)
  /\ InRange(margin)
  /\ CountAllowed(f)
  /\ config.total_checks < MaxTotal
  /\ ~consistent => config.total_inconsistencies < MaxTotal
  /\ trust' = [trust EXCEPT ![f] = [is_consistent |-> consistent, margin_bps |-> margin,
                                    check_count |-> @.check_count + 1]]
  /\ config' = [config EXCEPT !.total_checks = @ + 1,
                              !.total_inconsistencies = IF consistent THEN @ ELSE @ + 1]
  /\ writer' = [writer EXCEPT ![f] = signer]
  /\ event' = [kind |-> "submitted", fixture |-> f, is_consistent |-> consistent]

Exists(f) == trust[f].check_count > 0

QueryTrust(f) ==
  /\ Exists(f)
  /\ event' = [kind |-> "queried", fixture |-> f, is_consistent |-> trust[f].is_consistent]
  /\ UNCHANGED <<config, trust, writer>>

Decision(f) == IF trust[f].is_consistent THEN "Executed" ELSE "Blocked"

TradingAgentCheck(f) ==
  /\ Exists(f)
  /\ event' = [kind |-> "agent", fixture |-> f,
               is_consistent |-> trust[f].is_consistent, decision |-> Decision(f)]
  /\ UNCHANGED <<config, trust, writer>>

Next ==
  \/ \E a, b \in Pubkeys : InitializeConfig(a, b)
  \/ \E f \in Fixtures :
       \/ \E s \in Pubkeys, c \in BOOLEAN, m \in Margins : SubmitCheck(s, f, c, m)
       \/ QueryTrust(f)
       \/ TradingAgentCheck(f)

Spec == Init /\ [][Next]_vars

-----------------------------------------------------------------------------
(* The accounts hold what their Rust types and the program's limits allow. *)
TypeOK ==
  /\ config \in [authority : Pubkeys \cup {None}, backend_signer : Pubkeys \cup {None},
                 total_checks : 0 .. MaxTotal, total_inconsistencies : 0 .. MaxTotal]
  /\ trust \in [Fixtures -> [is_consistent : BOOLEAN,
                             margin_bps : -MaxMarginBps .. MaxMarginBps,
                             check_count : 0 .. MaxCheckCount]]
  /\ writer \in [Fixtures -> Pubkeys \cup {None}]

(* Every verdict on chain was signed by the one backend signer the config  *)
(* was initialised with, and no verdict precedes that initialisation.      *)
OnlyBackendWrites ==
  \A f \in Fixtures : Exists(f) => Initialized /\ writer[f] = config.backend_signer

(* The global counters never contradict the accounts: no more flags than   *)
(* checks, no account with more checks than the program counted, and a     *)
(* fixture that stands flagged was counted as an inconsistency.            *)
CountersBoundAccounts ==
  /\ config.total_inconsistencies <= config.total_checks
  /\ \A f \in Fixtures : trust[f].check_count <= config.total_checks
  /\ \A f \in Fixtures :
       Exists(f) /\ ~trust[f].is_consistent => config.total_inconsistencies > 0

CheckCounts == [f \in Fixtures |-> trust[f].check_count]

(* The two accounts the program never reads together agree: the global     *)
(* count is the sum of the counts of the fixtures.                         *)
CountersAgree ==
  config.total_checks = SumFunctionOnSet(CheckCounts, Fixtures)

(* A transaction moves at most one fixture, by one check, and the totals   *)
(* with it; the config's identities never change once they are set.        *)
CountedOnce ==
  [][/\ \A f \in Fixtures : trust'[f] # trust[f] =>
          /\ trust'[f].check_count = trust[f].check_count + 1
          /\ config'.total_checks = config.total_checks + 1
          /\ \A g \in Fixtures \ {f} : trust'[g] = trust[g]
     /\ Initialized => /\ config'.backend_signer = config.backend_signer
                       /\ config'.authority = config.authority
                       /\ config'.total_checks >= config.total_checks]_vars
=============================================================================
