------------------------- MODULE DetectionPipeline -------------------------
(***************************************************************************)
(* handleOddsUpdate of apps/backend/src/detection/pipeline.ts, run at once *)
(* by every delivery of an odds update: the SSE stream calls its handlers  *)
(* without awaiting them, and the replay command runs the same function in *)
(* another process over the same Redis and Postgres.                       *)
(*                                                                         *)
(* A delivery is one call of the function.  It stops at every await, and   *)
(* pc names the await it stands at: the server's effect and the code that  *)
(* runs up to the next await are one step.  A rejected promise abandons    *)
(* the call (Abort), and the death of a process abandons all of its calls  *)
(* and the queue.add commands it had not waited for (Crash).               *)
(***************************************************************************)
EXTENDS Naturals, Sequences

CONSTANTS
  Fixtures,           \* fixture ids of TxLINE
  Hashes,             \* snapshot hashes: one names one set of odds
  SingleOutcomeSets,  \* SINGLE_OUTCOME_SETS, a sequence of sets of market types
  CoveringSets,       \* COVERING_SETS, likewise
  Flagged,            \* the keys whose odds sum to less than 1
  Updates,            \* the odds updates TxLINE may send
  Deliveries,         \* calls of handleOddsUpdate
  Replays,            \* those that the replay command makes
  Cut,                \* calls whose Redis connection may break under their SET
  MaxCrashes,         \* bound: processes that die
  MaxExpiries,        \* bound: dedup keys that outlive their 24 hours
  None

Listed(seq) == {seq[i] : i \in DOMAIN seq}
MarketSets  == Listed(SingleOutcomeSets) \cup Listed(CoveringSets)
Keys        == Fixtures \X MarketSets \X Hashes
AllTypes    == UNION MarketSets

ASSUME PipelineAssumption ==
  /\ SingleOutcomeSets \in Seq(MarketSets)
  /\ CoveringSets \in Seq(MarketSets)
  /\ Flagged \subseteq Keys
  /\ Updates \subseteq [fixture : Fixtures, hash : Hashes, types : SUBSET AllTypes]
  /\ Replays \subseteq Deliveries /\ Cut \subseteq Deliveries
  /\ MaxCrashes \in Nat /\ MaxExpiries \in Nat
  /\ None \notin Updates

VARIABLES
  fixtureRows,  \* the fixtures table
  dedup,        \* the Redis keys dedup:<fixture>:<set>:<hash> now alive
  snapshots,    \* odds_snapshots, by its UNIQUE key
  checks,       \* consistency_checks: the ids of its rows
  logged,       \* the checks that have a proof_log row
  published,    \* the checks announced on proof-feed:live
  latest,       \* proof:latest:<fixture>
  oddsLatest,   \* odds:latest:<fixture>
  adding,       \* queue.add calls under way, which nobody awaits
  jobs,         \* the checks whose job is in the BullMQ queue
  lost,         \* history: queue.add calls that died with their process
  dropped,      \* history: claims that their own call took for another's
  pc, upd, pos, \* per delivery: its await, its update, its place in the loop
  crashes, expiries

redisVars == <<dedup, published, latest, oddsLatest>>
tableVars == <<fixtureRows, snapshots, checks, logged>>
queueVars == <<adding, jobs, lost, dropped>>
callVars  == <<pc, upd, pos>>
bounds    == <<crashes, expiries>>
vars      == <<redisVars, tableVars, queueVars, callVars, bounds>>

Awaits  == {"claim", "snapshot", "check", "log", "publish", "latest", "add", "cache"}
PCs     == Awaits \cup {"idle", "done", "aborted"}

-----------------------------------------------------------------------------
(* The market sets an update asks for.  new Set() compares arrays by       *)
(* reference, so a set listed in both constants is visited twice.          *)
SetsToCheckMutant(u) ==
  IF "match_winner" \in u.types THEN SingleOutcomeSets ELSE CoveringSets

SetsToCheck(u) ==
  IF "match_winner" \in u.types THEN SingleOutcomeSets \o CoveringSets
                                ELSE CoveringSets

Available(u) == {i \in DOMAIN SetsToCheck(u) : SetsToCheck(u)[i] \subseteq u.types}

KeyAt(u, i) == <<u.fixture, SetsToCheck(u)[i], u.hash>>

(* A consistency_checks row has a fresh UUID: the call and the place in    *)
(* its loop that insert it.                                                *)
Places     == 1 .. Len(SingleOutcomeSets \o CoveringSets)
Ids        == Deliveries \X Places
Key(d)     == KeyAt(upd[d], pos[d])
Id(d)      == <<d, pos[d]>>
KeyOf(id)  == KeyAt(upd[id[1]], id[2])
Running(d) == pc[d] \in Awaits

(* Move the call to the next await of the same iteration. *)
Goto(d, label) ==
  /\ pc'  = [pc EXCEPT ![d] = label]
  /\ UNCHANGED <<upd, pos>>

(* Move it to the first await of the next iteration that has an available  *)
(* market set, or past the loop.                                           *)
NextSetMutant(d, u, i) ==
  LET rest == {j \in Available(u) : j >= i}
  IN  \/ /\ rest = {}
         /\ pc' = [pc EXCEPT ![d] = "cache"]
         /\ UNCHANGED pos
      \/ \E j \in rest :
           /\ \A k \in rest : j <= k
           /\ pos' = [pos EXCEPT ![d] = j]
           /\ pc'  = [pc EXCEPT ![d] = "claim"]

NextSetMutant2(d, u, i) ==
  LET rest == {j \in DOMAIN SetsToCheck(u) : j > i}
  IN  \/ /\ rest = {}
         /\ pc' = [pc EXCEPT ![d] = "cache"]
         /\ UNCHANGED pos
      \/ \E j \in rest :
           /\ \A k \in rest : j <= k
           /\ pos' = [pos EXCEPT ![d] = j]
           /\ pc'  = [pc EXCEPT ![d] = "claim"]

NextSet(d, u, i) ==
  LET rest == {j \in Available(u) : j > i}
  IN  \/ /\ rest = {}
         /\ pc' = [pc EXCEPT ![d] = "cache"]
         /\ UNCHANGED pos
      \/ \E j \in rest :
           /\ \A k \in rest : j <= k
           /\ pos' = [pos EXCEPT ![d] = j]
           /\ pc'  = [pc EXCEPT ![d] = "claim"]

-----------------------------------------------------------------------------
Init ==
  /\ fixtureRows \in SUBSET Fixtures
  /\ dedup = {} /\ published = {}
  /\ latest     = [f \in Fixtures |-> None]
  /\ oddsLatest = [f \in Fixtures |-> None]
  /\ snapshots = {} /\ checks = {} /\ logged = {}
  /\ adding = {} /\ jobs = {} /\ lost = {} /\ dropped = {}
  /\ pc  = [d \in Deliveries |-> "idle"]
  /\ upd = [d \in Deliveries |-> None]
  /\ pos = [d \in Deliveries |-> 0]
  /\ crashes = 0 /\ expiries = 0

(* The replay loop awaits each of its calls; the stream awaits none.       *)
MayStart(d) == d \in Replays => \A e \in Replays : ~Running(e)

Receive(d, u) ==
  /\ pc[d] = "idle"
  /\ MayStart(d)
  /\ upd' = [upd EXCEPT ![d] = u]
  /\ NextSet(d, u, 0)
  /\ UNCHANGED <<redisVars, tableVars, queueVars, bounds>>

(* redis.set(dedupKey, '1', 'EX', 86400, 'NX') *)
SetNXMutant(k) == TRUE

SetNX(k) == k \notin dedup

Claim(d) ==
  /\ pc[d] = "claim"
  /\ SetNX(Key(d))
  /\ dedup' = dedup \cup {Key(d)}
  /\ Goto(d, "snapshot")
  /\ UNCHANGED <<published, latest, oddsLatest, tableVars, queueVars, bounds>>

Skip(d) ==
  /\ pc[d] = "claim"
  /\ ~SetNX(Key(d))
  /\ NextSet(d, upd[d], pos[d])
  /\ UNCHANGED <<upd, redisVars, tableVars, queueVars, bounds>>

(* The connection breaks after the server has set the key and before it    *)
(* answered.  With maxRetriesPerRequest null ioredis sends the SET again   *)
(* when it has reconnected; the key is there, and the call skips the set   *)
(* as a duplicate of its own.                                              *)
ClaimResent(d) ==
  /\ d \in Cut
  /\ pc[d] = "claim"
  /\ SetNX(Key(d))
  /\ dedup'   = dedup \cup {Key(d)}
  /\ dropped' = dropped \cup {Id(d)}
  /\ NextSet(d, upd[d], pos[d])
  /\ UNCHANGED <<upd, published, latest, oddsLatest, tableVars, adding, jobs, lost, bounds>>

(* ON CONFLICT DO NOTHING: a row that is there already is no error.        *)
InsertSnapshot(d) ==
  /\ pc[d] = "snapshot"
  /\ upd[d].fixture \in fixtureRows
  /\ snapshots' = snapshots \cup {Key(d)}
  /\ Goto(d, "check")
  /\ UNCHANGED <<redisVars, fixtureRows, checks, logged, queueVars, bounds>>

(* The foreign key to fixtures rejects the row, and the call with it. *)
UnknownFixture(d) ==
  /\ pc[d] = "snapshot"
  /\ upd[d].fixture \notin fixtureRows
  /\ Goto(d, "aborted")
  /\ UNCHANGED <<redisVars, tableVars, queueVars, bounds>>

InsertCheckMutant(d) ==
  /\ pc[d] = "check"
  /\ checks' = checks \cup {Id(d)}
  /\ Goto(d, "publish")
  /\ UNCHANGED <<redisVars, fixtureRows, snapshots, logged, queueVars, bounds>>

InsertCheck(d) ==
  /\ pc[d] = "check"
  /\ checks' = checks \cup {Id(d)}
  /\ Goto(d, IF Key(d) \in Flagged THEN "log" ELSE "publish")
  /\ UNCHANGED <<redisVars, fixtureRows, snapshots, logged, queueVars, bounds>>

InsertProofMutant(d) ==
  /\ pc[d] = "log"
  /\ logged' = logged \cup {Id(d)}
  /\ Goto(d, "latest")
  /\ UNCHANGED <<redisVars, fixtureRows, snapshots, checks, queueVars, bounds>>

InsertProof(d) ==
  /\ pc[d] = "log"
  /\ logged' = logged \cup {Id(d)}
  /\ Goto(d, "publish")
  /\ UNCHANGED <<redisVars, fixtureRows, snapshots, checks, queueVars, bounds>>

Publish(d) ==
  /\ pc[d] = "publish"
  /\ published' = published \cup {Id(d)}
  /\ Goto(d, "latest")
  /\ UNCHANGED <<dedup, latest, oddsLatest, tableVars, queueVars, bounds>>

SetLatest(d) ==
  /\ pc[d] = "latest"
  /\ latest' = [latest EXCEPT ![upd[d].fixture] = Id(d)]
  /\ Goto(d, "add")
  /\ UNCHANGED <<dedup, published, oddsLatest, tableVars, queueVars, bounds>>

(* queue.add(...) without await, then on to the next market set *)
QueueAddMutant(d) ==
  /\ pc[d] = "add"
  /\ NextSet(d, upd[d], pos[d])
  /\ UNCHANGED <<upd, redisVars, tableVars, queueVars, bounds>>

QueueAdd(d) ==
  /\ pc[d] = "add"
  /\ adding' = adding \cup {Id(d)}
  /\ NextSet(d, upd[d], pos[d])
  /\ UNCHANGED <<upd, redisVars, tableVars, jobs, lost, dropped, bounds>>

SetOdds(d) ==
  /\ pc[d] = "cache"
  /\ oddsLatest' = [oddsLatest EXCEPT ![upd[d].fixture] = upd[d].hash]
  /\ Goto(d, "done")
  /\ UNCHANGED <<dedup, published, latest, tableVars, queueVars, bounds>>

(* The awaited promise rejects; main.ts and runner.ts catch it and log. *)
Abort(d) ==
  /\ Running(d)
  /\ Goto(d, "aborted")
  /\ UNCHANGED <<redisVars, tableVars, queueVars, bounds>>

-----------------------------------------------------------------------------
(* The environment: BullMQ, Redis, TxLINE's list of fixtures, the host.    *)
JobAdded(id) ==
  /\ id \in adding
  /\ adding' = adding \ {id}
  /\ jobs' = jobs \cup {id}
  /\ UNCHANGED <<redisVars, tableVars, lost, dropped, callVars, bounds>>

(* A process dies: of a failed queue.add (nothing handles the rejection),  *)
(* of a signal or of its host.                                             *)
Crash(calls) ==
  /\ crashes < MaxCrashes
  /\ crashes' = crashes + 1
  /\ \/ \E d \in calls : Running(d)
     \/ \E id \in adding : id[1] \in calls
  /\ pc' = [d \in Deliveries |-> IF d \in calls /\ Running(d) THEN "aborted" ELSE pc[d]]
  /\ adding' = {id \in adding : id[1] \notin calls}
  /\ lost' = lost \cup (adding \ adding')
  /\ UNCHANGED <<redisVars, tableVars, jobs, dropped, upd, pos, expiries>>

ExpireKey(k) ==
  /\ expiries < MaxExpiries
  /\ k \in dedup
  /\ dedup' = dedup \ {k}
  /\ expiries' = expiries + 1
  /\ UNCHANGED <<published, latest, oddsLatest, tableVars, queueVars, callVars, crashes>>

(* syncAllFixtures upserts the fixtures TxLINE lists when a process starts *)
SyncFixture(f) ==
  /\ f \notin fixtureRows
  /\ fixtureRows' = fixtureRows \cup {f}
  /\ UNCHANGED <<redisVars, snapshots, checks, logged, queueVars, callVars, bounds>>

-----------------------------------------------------------------------------
Step(d) ==
  \/ Claim(d) \/ Skip(d)
  \/ InsertSnapshot(d) \/ UnknownFixture(d)
  \/ InsertCheck(d) \/ InsertProof(d)
  \/ Publish(d) \/ SetLatest(d)
  \/ QueueAdd(d) \/ SetOdds(d)

Next ==
  \/ \E d \in Deliveries :
       (\E u \in Updates : Receive(d, u)) \/ Step(d) \/ ClaimResent(d) \/ Abort(d)
  \/ \E id \in adding : JobAdded(id)
  \/ Crash(Replays) \/ Crash(Deliveries \ Replays)
  \/ \E k \in dedup : ExpireKey(k)
  \/ \E f \in Fixtures : SyncFixture(f)

Spec == Init /\ [][Next]_vars

(* Redis and Postgres answer, so every await ends; nothing obliges TxLINE  *)
(* to send anything or a process to fail.                                  *)
Fairness ==
  /\ \A d \in Deliveries : WF_vars(Step(d))
  /\ WF_vars(\E id \in adding : JobAdded(id))

FairSpec == Spec /\ Fairness

-----------------------------------------------------------------------------
(* Every variable holds what its column, key or program counter may hold:  *)
(* a call that is under way has an update, and stands at one of its sets.  *)
TypeOK ==
  /\ fixtureRows \subseteq Fixtures
  /\ dedup \subseteq Keys /\ snapshots \subseteq Keys
  /\ checks \subseteq Ids /\ logged \subseteq Ids /\ published \subseteq Ids
  /\ adding \subseteq Ids /\ jobs \subseteq Ids
  /\ lost \subseteq Ids /\ dropped \subseteq Ids
  /\ latest \in [Fixtures -> Ids \cup {None}]
  /\ oddsLatest \in [Fixtures -> Hashes \cup {None}]
  /\ pc \in [Deliveries -> PCs]
  /\ upd \in [Deliveries -> Updates \cup {None}]
  /\ pos \in [Deliveries -> Nat]
  /\ crashes \in Nat /\ expiries \in Nat
  /\ \A d \in Deliveries :
       /\ pc[d] # "idle" => upd[d] \in Updates
       /\ pc[d] \in Awaits \ {"cache"} => pos[d] \in Available(upd[d])

(* However the calls of the stream and of the replay interleave, fail and  *)
(* restart, one (fixture, market set, snapshot hash) gets one row in       *)
(* consistency_checks, which has no UNIQUE constraint of its own: the      *)
(* Redis key alone keeps the second call out, as long as it lives.         *)
OneCheckPerSnapshot ==
  \A a, b \in checks : KeyOf(a) = KeyOf(b) => a = b

(* A job in the queue, or on its way there, names a check whose row, whose *)
(* snapshot and, if it is flagged, whose proof_log row are in the database *)
(* and which the live feed has announced: what submits the check on chain  *)
(* and updates its rows never runs ahead of them.                          *)
JobIsRecorded ==
  \A id \in adding \cup jobs :
    /\ id \in checks /\ id \in published
    /\ KeyOf(id) \in snapshots
    /\ KeyOf(id) \in Flagged => id \in logged

(* The dedup key is set before anything is stored, so whoever sets it owes *)
(* the check.  Each key has exactly one debtor: a call that still works on *)
(* it, one that failed on it, one that queued its job, or one that took    *)
(* its own key for another's; a call that fails or loses its connection    *)
(* therefore loses the one key it stood at and no other.                   *)
ClaimAccounted ==
  \A k \in dedup : \E d \in Deliveries : upd[d] # None /\ \E i \in Available(upd[d]) :
    /\ KeyAt(upd[d], i) = k
    /\ \/ <<d, i>> \in adding \cup jobs \cup lost \cup dropped
       \/ pos[d] = i /\ pc[d] \in (Awaits \ {"claim", "cache"}) \cup {"aborted"}

(* A call that ran to its end left no market set of its update unexamined, *)
(* whichever call claimed it: every set whose markets the update quotes    *)
(* has its dedup key, also when match_winner selects the longer list.      *)
FinishedIsComplete ==
  \A d \in Deliveries : pc[d] = "done" =>
    \A s \in Listed(CoveringSets) :
      s \subseteq upd[d].types => <<upd[d].fixture, s, upd[d].hash>> \in dedup

(* proof:latest:<fixture> never shows a check the feed has not announced   *)
(* or another fixture's check, with any number of calls writing it.        *)
LatestIsPublished ==
  \A f \in Fixtures : latest[f] # None =>
    /\ latest[f] \in published
    /\ upd[latest[f][1]].fixture = f

(* The ids among S that belong to the key k. *)
Of(S, k) == {id \in S : KeyOf(id) = k}

Ledger == INSTANCE CheckLedger
  WITH Rows    <- Ids,
       claimed <- dedup,
       row     <- [k \in Keys |-> Of(checks, k)],
       job     <- [k \in Keys |-> Of(jobs, k)]

(* The pipeline implements the ledger: each key is claimed once, then gets *)
(* one row, then the job of that very row, and nothing takes it back.      *)
ImplementsLedger == Ledger!Spec

(* Every call ends, and every queue.add nobody awaits reaches the queue or *)
(* dies with its process: no interleaving of calls leaves one waiting.     *)
HandlersSettle ==
  /\ \A d \in Deliveries : Running(d) ~> pc[d] \in {"done", "aborted"}
  /\ \A id \in Ids : (id \in adding) ~> (id \in jobs \cup lost)
=============================================================================
