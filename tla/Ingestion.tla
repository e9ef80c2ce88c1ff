------------------------------ MODULE Ingestion ------------------------------
(***************************************************************************)
(* From start to stream: TxLINEClient asks for a guest token, subscribes   *)
(* and (in the backend) lists the fixtures, each through request() with    *)
(* its retries; the backend then stores the fixtures one by one; only then *)
(* is the stream of OddsStream made, with the tokens obtained.  A step of  *)
(* this start that fails ends it for good: nothing starts it again.        *)
(***************************************************************************)
EXTENDS OddsStream

CONSTANTS
  MaxRetries,  \* MAX_RETRIES, 5
  NumFixtures  \* how many fixtures the server lists

ASSUME IngestionAssumption == MaxRetries \in Nat /\ NumFixtures \in Nat

VARIABLES
  boot,     \* what the start is waiting for
  attempt,  \* `attempt` of the current request()
  subs,     \* subscriptions the server has made
  stored    \* how many fixtures have been upserted

bootVars == <<boot, attempt, subs, stored>>
allVars  == <<vars, bootVars>>

Requests == {"auth", "subscribe", "fixtures"}

IngestionInit ==
  /\ Init
  /\ boot = "auth" /\ attempt = 0 /\ subs = 0 /\ stored = 0

Starting == stop # "exited" /\ UNCHANGED vars

AfterRequestMutant(r) ==
  CASE r = "auth" -> "subscribe" [] r = "subscribe" -> "streaming" [] r = "fixtures" -> "sync"

(* The web worker asks for the fixtures too, but beside the stream and     *)
(* only to log how many there are.                                         *)
AfterRequest(r) ==
  CASE r = "auth"      -> "subscribe"
    [] r = "subscribe" -> IF role = "web" THEN "streaming" ELSE "fixtures"
    [] r = "fixtures"  -> "sync"

Served(r) == subs' = IF r = "subscribe" THEN subs + 1 ELSE subs

Answered ==
  /\ boot \in Requests /\ Starting
  /\ Served(boot)
  /\ boot' = AfterRequest(boot) /\ attempt' = 0
  /\ UNCHANGED stored

RetryMutant ==
  IF attempt <= MaxRetries
    THEN attempt' = attempt + 1 /\ boot' = boot
    ELSE attempt' = 0 /\ boot' = "failed"

(* The catch block: the last attempt throws to the caller, any other is    *)
(* made again.                                                             *)
Retry ==
  IF attempt < MaxRetries
    THEN attempt' = attempt + 1 /\ boot' = boot
    ELSE attempt' = 0 /\ boot' = "failed"

(* fetch rejects before the server acted, or the answer is not ok.         *)
NotServed ==
  /\ boot \in Requests /\ Starting
  /\ Retry
  /\ UNCHANGED <<subs, stored>>

(* The server acted and its answer was lost: the same POST goes out again. *)
AnswerLost ==
  /\ boot \in Requests /\ Starting
  /\ Served(boot)
  /\ Retry
  /\ UNCHANGED stored

(* `return response.json()` is not awaited: a body that does not parse is  *)
(* thrown past the catch block and never retried.                          *)
BadBody ==
  /\ boot \in Requests /\ Starting
  /\ Served(boot)
  /\ boot' = "failed" /\ attempt' = 0
  /\ UNCHANGED stored

Upsert ==
  /\ boot = "sync" /\ stored < NumFixtures /\ Starting
  /\ stored' = stored + 1
  /\ UNCHANGED <<boot, attempt, subs>>

UpsertFailsMutant ==
  /\ boot = "sync" /\ stored < NumFixtures /\ Starting
  /\ stored' = 0
  /\ UNCHANGED <<boot, attempt, subs>>

UpsertFails ==
  /\ boot = "sync" /\ stored < NumFixtures /\ Starting
  /\ boot' = "failed"
  /\ UNCHANGED <<attempt, subs, stored>>

Synced ==
  /\ boot = "sync" /\ stored = NumFixtures /\ Starting
  /\ boot' = "streaming"
  /\ UNCHANGED <<attempt, subs, stored>>

BootStep ==
  \/ Answered \/ NotServed \/ AnswerLost \/ BadBody
  \/ Upsert \/ UpsertFails \/ Synced

(* The server talks to whoever listens; the stream exists once the start   *)
(* is through, and the shutdown may come at any time.                      *)
IngestionNext ==
  \/ BootStep
  \/ /\ boot = "streaming"
     /\ Start \/ ExpireToken \/ StreamStep
     /\ UNCHANGED bootVars
  \/ (Emit \/ Stop \/ Exit) /\ UNCHANGED bootVars

IngestionSpec == IngestionInit /\ [][IngestionNext]_allVars

(* Requests are answered or fail, queries too, and connect() is called.    *)
IngestionFairness ==
  /\ WF_allVars(BootStep)
  /\ WF_allVars(boot = "streaming" /\ Start /\ UNCHANGED bootVars)
  /\ WF_allVars(TimerFires /\ UNCHANGED bootVars)
  /\ SF_allVars(Accepted /\ UNCHANGED bootVars)

FairIngestionSpec == IngestionSpec /\ IngestionFairness

-----------------------------------------------------------------------------
(* Type correctness of the stream and of its start.                        *)
IngestionTypeOK ==
  /\ TypeOK
  /\ boot \in Requests \cup {"sync", "streaming", "failed"}
  /\ attempt \in 0 .. MaxRetries /\ subs \in Nat /\ stored \in 0 .. NumFixtures

(* In the backend no update reaches the pipeline before every listed       *)
(* fixture has its row, which the pipeline's snapshots refer to.           *)
StreamAfterSync ==
  role = "backend" /\ conn # "idle" => boot = "streaming" /\ stored = NumFixtures

(* A start subscribes at most once per attempt, however many answers are   *)
(* lost; one that streams has a subscription of its own.                   *)
SubscriptionsBounded ==
  /\ subs <= MaxRetries + 1
  /\ conn # "idle" => subs > 0

(* The start ends: the stream is made or the start has failed.             *)
StartSettles == <>(boot \in {"streaming", "failed"} \/ stop = "exited")
=============================================================================
