------------------------------- MODULE WebApp -------------------------------
(***************************************************************************)
(* The parts of the two applications that share no variable with the       *)
(* detection pipeline: the reading routes, the proof feed, the rate        *)
(* limiter, the migrations and the web application's worker.  They do not  *)
(* touch each other's state either, so one instance checks them side by    *)
(* side: part, chosen at the start, tells which of them moves.             *)
(***************************************************************************)
EXTENDS Migrations, Integers, FiniteSets

CONSTANTS
  None,
  Fixtures, Scenarios, Limits, MaxChecks, MaxSnaps,              \* the routes
  PageSize, ListCap, MaxRows, FeedTime, MaxLive, MaxFailures,    \* the feed
  Keys, MaxRequests, WindowMs, MaxTime, MaxPerMs,                \* the rate limiter
  Calls, Loads, CacheSize, Evicted, Modes, Schemas, WorkerFaults,
  Slots, MaxAttempts, MaxStalledCount,                           \* the worker
  Parts  \* which parts may move

(* What is asked of the routes, and how many rows they list.               *)
ASSUME ApiAssumption ==
  /\ IsFiniteSet(Fixtures) /\ MaxChecks \in Nat /\ MaxSnaps \in Nat /\ None \notin BOOLEAN
  /\ Limits \in [{"checksOf", "snapsOf", "rows"} -> Nat \ {0}]
  /\ \A s \in Scenarios : \A r \in DOMAIN s :
       s[r] \in [server : {"backend", "web"}, of : Fixtures,
                kind : {"overview", "health", "oracle", "list", "match"},
                filter : {"all", "flagged", "consistent"}]

(* config.ts takes positive limits for the rate limiter.                   *)
ASSUME RateAssumption ==
  /\ MaxRequests \in Nat \ {0} /\ WindowMs \in Nat /\ MaxTime \in Nat
  /\ None \notin [count : Nat \ {0}, resetAt : Nat]

(* The component shows 25 entries of the 100 it keeps.                     *)
ASSUME FeedAssumption ==
  /\ PageSize \in Nat \ {0} /\ ListCap \in Nat /\ ListCap >= PageSize
  /\ MaxRows \in Nat /\ FeedTime \in Nat /\ MaxLive \in Nat

(* The worker remembers 10000 hashes, drops 1000, attempts a job 5 times   *)
(* and lets it stall once, in 5 slots.                                     *)
ASSUME WorkerAssumption ==
  /\ CacheSize \in Nat /\ Evicted \in Nat \ {0}
  /\ MaxAttempts \in Nat \ {0} /\ MaxStalledCount \in Nat
  /\ IsFiniteSet(Slots) /\ IsFiniteSet(Calls) /\ Slots \cap Calls = {}
  /\ None \notin Slots \cup Calls

VARIABLES
  part,
  fixtures, apiSnaps, apiChecks, cache, asked, apiPc, got, answer, began,
  feedNow, rows, published, subscribed, socket, wire,
  entries, loading, cursor, hasMore, request, failures, present, brought, cuts,
  now, store, rateAsked, allowed,
  update, adapted, configured, workerPc, processed, snaps, checks, announced,
  job, attempts, stalls, lock, at, of, tx, sent, proofs, workerFaults

apiVars    == <<fixtures, apiSnaps, apiChecks, cache, asked, apiPc, got, answer, began>>
feedVars   == <<feedNow, rows, published, subscribed, socket, wire,
                entries, loading, cursor, hasMore, request, failures, present, brought, cuts>>
rateVars   == <<now, store, rateAsked, allowed>>
workerVars == <<update, adapted, configured, workerPc, processed, snaps, checks, announced,
                job, attempts, stalls, lock, at, of, tx, sent, proofs, workerFaults>>
webVars    == <<part, vars, apiVars, feedVars, rateVars, workerVars>>

Api    == INSTANCE ApiReads WITH snaps <- apiSnaps, checks <- apiChecks, pc <- apiPc
Feed   == INSTANCE ProofFeed WITH now <- feedNow, MaxTime <- FeedTime
Rate   == INSTANCE RateLimit WITH asked <- rateAsked
Worker == INSTANCE WebWorker WITH pc <- workerPc, faults <- workerFaults, MaxFaults <- WorkerFaults

(* What differs from start to start differs only in the part that moves.   *)
WebInit ==
  /\ part \in Parts
  /\ Api!Init
  /\ part # "api" => fixtures = {} /\ asked = (CHOOSE s \in Scenarios : TRUE)
  /\ Worker!Init
  /\ part # "worker" => /\ adapted = (CHOOSE t \in Schemas : TRUE)
                        /\ configured = (CHOOSE b \in Modes : TRUE)
                        /\ update = (CHOOSE l \in Loads : TRUE)
  /\ Init /\ Feed!Init /\ Rate!Init

WebNext ==
  /\ UNCHANGED part
  /\ \/ part = "api" /\ Api!Next /\ UNCHANGED <<vars, feedVars, rateVars, workerVars>>
     \/ part = "feed" /\ Feed!Next /\ UNCHANGED <<vars, apiVars, rateVars, workerVars>>
     \/ part = "rate" /\ Rate!Next /\ UNCHANGED <<vars, apiVars, feedVars, workerVars>>
     \/ part = "migrations" /\ Next /\ UNCHANGED <<apiVars, feedVars, rateVars, workerVars>>
     \/ part = "worker" /\ Worker!Next /\ UNCHANGED <<vars, apiVars, feedVars, rateVars>>

WebSpec == WebInit /\ [][WebNext]_webVars

-----------------------------------------------------------------------------
(* Every part keeps its types.                                             *)
WebTypeOK == TypeOK /\ Api!TypeOK /\ Feed!TypeOK /\ Rate!TypeOK /\ Worker!TypeOK

(* Stated in ApiReads: answers of several queries do not contradict        *)
(* themselves, and Redis holds whole answers only.                         *)
AnswersCohere          == Api!AnswersCohere
OnlyWholeAnswersCached == Api!OnlyWholeAnswersCached

(* Stated in ProofFeed: which rows paging may leave out, and that the      *)
(* answer to "Load more" is not shown.                                     *)
PagesMissOnlySameMillisecond == Feed!PagesMissOnlySameMillisecond
MoreIsNeverShown             == Feed!MoreIsNeverShown

(* Stated in RateLimit: what gets through in the length of one window.     *)
AtMostTwiceTheLimit == Rate!AtMostTwiceTheLimit

(* Stated in WebWorker: why an update of the stream is not recorded or not *)
(* queued, and what jobs, transactions and rows of proof_log there may be. *)
LeftOutForCause         == Worker!LeftOutForCause
ProofsFollowSubmissions == Worker!ProofsFollowSubmissions

(* Stated in WebWorker: what the page of the web application promises.     *)
ChecksAreSubmitted == Worker!ChecksAreSubmitted
=============================================================================
