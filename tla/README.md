# A verification project for OddsTrust

OddsTrust takes live odds from TxLINE, checks whether the implied probabilities
of a market sum to at least 1, stores every check, announces it on a live feed
and submits it to a Solana program, which agents ask whether a fixture can be
trusted. This directory models that system in TLA+, checks the models with TLC
on small instances and proves their main safety properties with TLAPS for every
value of the constants. Paths below are relative to `src/`.

    tlc -workers 2 -config MCDetection.cfg MCDetection      # a run
    tlapm DetectionPipeline_proofs.tla                      # a proof module

## 1. The system

| Part | State | Operations | Talks to |
|---|---|---|---|
| TxLINE client `apps/backend/src/ingestion/client.ts`, `apps/web/lib/worker/txline-client.ts` | tokens, subscription | authenticate, subscribe, requests with retries | TxLINE over HTTP |
| SSE stream `ingestion/stream.ts`, `apps/web/lib/worker/stream.ts` | read buffer, handlers, abort controller | connect, reconnect with backoff, disconnect, parse a block | calls its handlers **without awaiting them** |
| Fixture sync `ingestion/fixtures.ts` | `fixtures` table | syncAllFixtures at start | client, Postgres |
| Detection pipeline `detection/pipeline.ts` | Redis `dedup:*`, `proof:latest:*`, `odds:latest:*`; tables `odds_snapshots`, `consistency_checks`, `proof_log` | handleOddsUpdate | Redis, Postgres, the queue, the live feed |
| Consistency check `detection/consistency.ts`, `market.ts` | none | checkConsistency | called by the pipeline |
| Submission queue and worker `lib/queue.ts`, `chain/queue.ts` | BullMQ jobs; `on_chain_status` and `on_chain_tx` of two tables | the job processor, 5 at once | oracle client, Postgres |
| Oracle client `chain/oracle.ts` | program id | submitConsistencyCheck, simulated or live | a Solana RPC node |
| On-chain program `oddtrust-oracle/programs/oddtrust-oracle` | OracleConfig, one FixtureTrust per fixture | initialize_config, submit_check, query_trust, trading_agent_check | signers, agents |
| Replay command `replay/runner.ts` | none | one update per fixture, in a second process | client, the same Redis and Postgres |
| HTTP API and live feed `api/`, `apps/web/app/api/`, `ws-server.ts` | cached answers, open sockets | overview, network-health, oracle, matches, proof-feed; pub/sub to WebSocket | Redis, Postgres |
| Bootstrap `main.ts`, migrations `lib/postgres.ts` | process lifecycle, `_migrations` | start, migrate, shutdown | everything |
| Web application `apps/web` | a second worker with a memory of odds, a queue and a client over another schema; rate limiter; `oracle_config`, `sync_journal` | `worker.ts`, webhook, consistency and submit routes | its own Redis and Postgres |
| Proof feed view `packages/ui/.../ProofFeed.tsx` | list of entries, cursor | first page, live entries, loadMore | web API, WebSocket |

What is hard, part by part, and what would make the part correct:

* **Pipeline.** Eight awaits per market set, any number of calls at once in two
  processes, a dedup key set before anything is stored, a `queue.add` nobody
  awaits, no transaction around the rows. Correct: one check per (fixture,
  market set, hash); a job never ahead of its rows; a missing check can be put
  down to one failed call or one broken connection; all available sets examined.
* **Worker.** At-least-once execution: retries after an unanswered send, a
  stalled job run beside its first run, two separate UPDATEs. Correct: rows show
  only the check's own transaction and agree after success; submissions are
  bounded; a finished job stays finished; every job ends.
* **Program, and the workers that submit to it.** Accounts that must agree,
  limits, one signer; transactions that land late, twice, out of order or never.
  Correct: only the backend writes, counters count, one fixture per transaction,
  and an older verdict replaces a newer one only for a cause that can be named.
* **Check.** A verdict by comparing a double with 1. Correct: flagged exactly
  when someone can profit, and the reported margin never contradicts it.
* **Start and stream.** Requests repeated after lost answers; chunks that cut
  events anywhere; reconnects racing a shutdown. Correct: whole updates, once,
  in order, none lost without cause, none after the shutdown, and a stream that
  comes back.
* **API, feed and view.** Several reads per answer, caches, a cursor in
  milliseconds. Correct: an answer does not contradict itself, Redis holds whole
  answers, pages leave out no row without cause.
* **Web application.** Odds remembered before they are stored, two writers and a
  queue over tables their INSERTs do not fit, fixed windows. Correct: an update
  left out is left out for a named cause; rows and jobs follow what was sent.
* **Migrations.** Several processes, deaths between a file and its journal row.

`PROJECT.json` lists every part under `components` and every hazard at its line.

## 2. The modules

| Module | Models | Composed with |
|---|---|---|
| `CheckLedger` | what the pipeline promises: claim once, record once, queue that row's job once | refined by `DetectionPipeline` |
| `DetectionPipeline` | handleOddsUpdate under concurrent calls | |
| `SubmissionWorker` | BullMQ, the job processor, the oracle client, both tables | |
| `OracleProgram` | the four instructions; also the abstract view of the chain | refined by `TrustChain` |
| `TrustChain` | submission workers, transactions on their way, other signers | EXTENDS `OracleProgram` |
| `ConsistencyMath` | checkConsistency in IEEE doubles, and the margin sent on chain | |
| `OddsStream` | TxLINEStream, both copies, and the shutdown | |
| `Ingestion` | authenticate, subscribe, sync, then the stream | EXTENDS `OddsStream` |
| `ApiReads` | the routes that answer from several queries | `WebApp` |
| `ProofFeed` | pages, live messages and the component that merges them | `WebApp` |
| `RateLimit` | checkRateLimit and its timer | `WebApp` |
| `Migrations` | runMigrations, raced and cut short | `WebApp` |
| `WebWorker` | the web application's pipeline, queue and writing routes | `WebApp` |
| `WebApp` | the five above side by side, and what is assumed of their constants | INSTANCEs them |
| `DataTheorems` | facts about sums, maxima and induction, without an operator parameter | |
| `*_proofs` | the proofs about a module (`TrustChain_proofs` also holds `OracleProgram`'s, `WebReads_proofs` and `WebApp_proofs` those of `WebApp` and its parts) | EXTENDS it |
| `MC*` | constants for TLC | |

**DetectionPipeline.** A delivery is one call; `pc` names the await it stands at,
`upd` its update, `pos` its place in the loop. The server's effect and the code
up to the next await are one step, so an effect whose answer is lost is the step
followed by `Abort`. `Claim`/`Skip` are the two answers to `SET NX`; `ClaimResent`
is the third: the connection broke after the server had set the key, ioredis
(`maxRetriesPerRequest: null`, `lib/redis.ts:10`) sends the command again, finds
the key and the call skips its own market set. `InsertSnapshot`,
`InsertCheck`, `InsertProof`, `Publish`, `SetLatest`, `QueueAdd`, `SetOdds`
follow the code in its order; `UnknownFixture` is the foreign key. `NextSet` is
the loop: `new Set` of arrays compares references, so the `match_winner` set is
visited twice, as in the code. The environment: `JobAdded` ends an unawaited
`queue.add`, `Crash` kills the stream's or the replay's process, `ExpireKey` ends
the 24 hours, `SyncFixture` adds a fixture. Abstracted: odds are a hash, and
whether a key's odds are inconsistent is the constant `Flagged` (how it is
decided is `ConsistencyMath`); expiry of `proof:latest` and `odds:latest`.

**SubmissionWorker.** A slot is one of the worker's concurrent processors, `pc`
its await. `Simulate` is the mode without a program id; in live mode
`WrongAccounts`, `SubmitError`, `SendUnanswered` and `Send` are the ways
submitConsistencyCheck ends; `UpdateCheck` and `UpdateLog` the two UPDATEs,
`DbError` either of them throwing, before or after it took effect; `MarkFailed`
and `Rethrow` the catch block. BullMQ is external, modelled from the options the
code gives it: `Take`, `Complete`, `Rethrow` (attempts, backoff), `LoseLock`,
`RecoverStalled`, and a slot moves a job only while it holds its lock. `role` is
the account role the client gives the config account. The code says 2, which is
READONLY_SIGNER in web3.js 2, and with it no live transaction can be signed
(section 5); so that the rest of the path is checked as it stands, run `submit`
also takes 1, the role `submit_check` asks for.

**OracleProgram.** One step per instruction: Solana makes it atomic and runs
transactions that write the same account one after the other; a failing one
changes nothing. Guards are the account constraints, the `require!`s and the
checked additions. Slot, time and proof reference are left out.

**TrustChain.** What `SubmissionWorker` leaves open is what becomes of a
transaction once the RPC node has taken it: `Land` is `SubmitCheck` of the
program, `FailOnChain` and `Expire` the other ends, in any order over all
transactions on their way. `waits` tells the two clients apart: the backend's
returns when the node has taken the transaction (`chain/oracle.ts:260`), the web
application's `rpc()` waits until it is confirmed. The job is reduced to what
matters for the order: queued, sending, confirming, completed, failed.
`Acceptable` is the preflight: the program's own guards on the present state.
The account role of section 5 is taken as repaired, else nothing is ever sent.

**ConsistencyMath.** Doubles as four digits of base 2^20, rounded to 53 places,
to nearest and even. Odds are multiples of one half up to 64, so they are exact
and 1/odds is a quotient of small integers; a covering set is one market, of two
or three outcomes (`types.ts:40`). The margin in basis points is the one product
that is not followed to the last bit: at a tie the model rounds it either way
(0.00015 * 10000 is 1.4999999999999998 in JavaScript, and rounds down). The
reference definition is exact: is there a stake vector that wins on every outcome?

**OddsStream, Ingestion.** `role` says which of the two workers runs. `conn` is
where `connect()` stands; `buffer` and `sepAt` are its `buffer` and `separator`.
An event is a number of equal pieces and a blank line; `Read` takes any prefix of
`wire`. `MeetHeartbeat` is the `continue` of `stream.ts:89`: it goes round with
the old `sepAt`. `DeliveredInOrder` speaks of whole updates: a text cut at a stale
separator may name an earlier event again, but hands no update over twice.
`TimerFires` asks `shouldReconnect` in the backend only. `Stop`
is SIGTERM: the web worker detaches its handler and disconnects, the backend
leaves the stream alone. In `Ingestion`, `Answered`, `NotServed`, `AnswerLost`
and `BadBody` are the ways a request ends: the last is `return response.json()`
without await, past the catch block. The backoff's length is left out.

**ApiReads.** A request is a handler record: the batches of queries it awaits
(one by one in the backend, all at once in the web application), whether a Redis
key may answer, and what it replies when something fails; `Due` are the queries
of the first batch that is not whole. Listings stop at their `LIMIT` (`Limits`: 20
checks and 5 snapshots on a match page, `matches.ts:115,123`). Checks and snapshots
are inserted between any two queries, in the pipeline's order: a check of a fixture
comes after a snapshot of it, but neither needs the other. A repeated update adds a
check alone (`ON CONFLICT DO NOTHING`, `pipeline.ts:67`), an update that fails in
between a snapshot alone. (The web consistency route would insert a check with no
snapshot before it, but not on the tables there are: section 5.) `began` remembers
how many checks there were when a request came in, so that `AnswersCohere` can say by
how much two counts may contradict each other: by what was inserted meanwhile.

**ProofFeed.** The table's rows with the millisecond they were logged in, a page
as the route computes it (rows of one millisecond come in any order: the ORDER BY
does not say), the component's five pieces of state, one request at a
time as in the code, and the live channel as one browser sees it. The web
route's `created_at` column (section 5) is taken as present; without it every
request is the step `Fail`.

**WebWorker.** A call is an update of the stream, a webhook, a consistency
request or a manual submission (`Loads`); `processed` is the Set in memory, and
`Malformed` the guard of `pipeline.ts:62`. `ColumnsOf`, `RequiredOf` and
`InsertedInto` are what the migrations make, demand, and what the INSERTs name;
`adapted` says which tables are taken as adapted to the INSERTs, so that the code
behind the first INSERT is checked as well. The queue is that of `SubmissionWorker`:
slots, locks, attempts, stalled jobs, and a run that has lost its lock goes on to
its end beside the next one. `Submit` and `InsertProof` are the two calls of the
processor and of the submit route alike; a runner is a slot or a request.

**Migrations, RateLimit** are direct: one step per query, one per call.

`WebApp` puts the last five side by side. They share no variable, so their
interleavings mean nothing; `part`, chosen at the start, says which one moves,
and each keeps its own state space. `vars` of the parts that rest are unchanged.

## 3. The runs

| Run | Question | States |
|---|---|---|
| `detect` | safety and refinement of the pipeline, without expiry | 289,811 |
| `detect_live` | every call and every `queue.add` ends, with a crash and an expiry | 132,154 |
| `detect_ttl` | violation: a second check after the key expired | - |
| `submit` | safety and liveness of the worker, both modes, both roles | 665,322 |
| `submit_accounts` | violation: the code's account role never sends | - |
| `chain` | workers, transactions and program up to all its limits | 642,622 |
| `math` | verdict and margin against exact arbitrage | 5,880 |
| `math_threshold` | violation: a fair book is flagged | - |
| `stream` | start, framing, reconnects, shutdown; liveness | 225,644 |
| `stream_heartbeat` | violation: an update behind a heartbeat is lost | - |
| `web_app` | API reads, feed, rate limiter, migrations, web worker | 1,698,690 |
| `web_schema` | violation: the web worker submits nothing | - |

Bounds. `detect`: two stream calls and one replay call, so two calls of one
process and of two processes meet on one key; two fixtures, of which either may
lack its row; one update that lists `match_winner` twice and `over_under` once,
one that is flagged in a different set; one process death, and one connection,
the replay's, that may break. Two calls in one process are interchangeable:
hence the symmetry, in the run without liveness properties only. A third call
on one key behaves as the second does (`Skip`), and the proofs cover any number.
`detect_live` drops one stream call and adds an expiry. `submit`: two
slots for two jobs (both on one job, or one each), two attempts and one
tolerated stall (the code: 5 and 1), two faults, one restart: enough for a retry
after an unanswered send to run beside a stalled run. The proofs have no bounds
there. `chain`: two contradicting checks of one fixture, two attempts, two faults
and one death, so that a check can be sent twice and either copy land last;
limits of 1 basis point, 3 checks and 5 in total, so that all are reached by the
other signer or by resends. `math`: all vectors of two and three odds from 0.5
to 7. `stream`: every sequence of three events; a heartbeat is shorter than an
update and longer than a comment, so that the stale cut falls into the next
event, behind it, or into the one after; one retry, two fixtures. `web_app`: two
inserted checks and two snapshots, listed up to two and one (so that more checks than
snapshots are listed, and fewer than there are), and every kind of request, in pairs
where a cache key is shared;
four rows over three milliseconds on pages of two, so that a page ends within a
millisecond and three pages are read; three windows of the rate limiter; two
processes, two files, one written with IF NOT EXISTS, two faults; three calls,
two of them with equal odds of different fixtures, or one of them a request to a
route, a memory of one entry, two slots, two attempts, one tolerated stall and
two faults, each a failing call, a lapsed lock or a death: enough for two runs of a
job at once, and for a job that stalls twice.
Deadlock is not checked: calls, jobs, requests and the single check of `math`
come to an end, and the faults and restarts allowed are finite.

Each property has a mutant, a definition of the code changed the way a bug
would change it, under which TLC finds the property violated.

Fairness. `DetectionPipeline`: every call that stands at an await goes on
(Redis and Postgres answer; the clients reconnect for ever) and BullMQ adds what
was handed to it; nothing obliges TxLINE to send, a process to die or a key to
expire. `SubmissionWorker`: processors run, an idle slot takes a waiting job,
BullMQ's timers for backoff and stalled jobs fire; all faults are optional.
Weak fairness is enough: no other step disables these for ever. `Ingestion`:
requests and queries end one way or the other, connect() is called, a timer runs
out; and a `fetch` that is made again and again with valid tokens is accepted in
the end, which is strong fairness of `Accepted`, because each refusal disables
it. It says of the server no more than that it is not down for ever; without it
nothing could be claimed of a loop that retries.

## 4. The proofs

All theorems hold for any constants that satisfy the module's `ASSUME`, with no
bound on calls, jobs, slots, crashes or retries. The assumptions are what the
code fixes (positive limits and capacities, finite sets of fixtures and slots)
and that the placeholders `None` are not values. Induction is needed in a few
places: the library's theorems take an operator as a parameter, which the provers
cannot instantiate, so `DataTheorems` states it over sets (a set of naturals with
0 and all successors; a set of subsets) and proves from it what
`SumFunctionOnSet` of the library computes and that `Max` of a bounded set is its
greatest member.

* **Pipeline.** `TypeCorrect`; then `CallSteps` and `SetSteps` say once what any
  step does to a call and to the sets of rows, and the invariants are proved from
  them. `RecordedInv` says what a call has stored by the await it stands at; it
  gives `JobsRecorded` and `LatestPublished`. `ClaimInv` adds that a key between
  its claim and its row has one holder and no row: OneCheckPerSnapshot alone is
  not inductive, because nothing in it keeps two calls from both standing before
  the insert. It gives `OneCheck`. `LedgerInv` adds that a check is never on its
  way to the queue twice, and gives `LedgerImplemented`, the refinement.
  `AccountInv` gives `Accounted`; `ExaminedInv` (what lies behind a call in its
  loop is claimed) gives `FinishedComplete`. `OneCheck`, `LedgerImplemented` and
  `FinishedComplete` assume `MaxExpiries = 0`; run `detect_ttl` shows the first
  false without it.
* **Worker.** `QueueInv` ties slots, locks and job states together: a job that can
  still run has attempts and stalls left, a held lock belongs to the slot that runs
  the job and the job is active, and a run whose job never stalled is active with
  the lock its own or lost. It gives
  `OneRun` and `FinishedStays`. `RowsInv` (a signature in a slot or a row was
  issued for its job) gives `RowsShowOwn`; `AgreeInv` (what the rows hold by the
  await of the only run) gives `CompletedAgree`; `SentInv` charges every
  accepted transaction to an attempt or a tolerated stall and gives `Bounded`,
  which assumes a finite number of slots.
* **Program.** Type correctness, `BackendAlone` and `CountersBound` form one
  inductive invariant, `Counted` is a property of its steps. `CountersAddUp`
  takes one check more as one term of the sum more by one.
* **Chain.** `ChainImplementsProgram`: a `Land` is an instruction of the program,
  `Others` are, and nothing else touches the accounts; so the program's theorems
  carry over (`ChainBackendAlone`, `ChainCountersAgree`). `OlderVerdict` needs what a completed job
  leaves behind: with a client that waits its last transaction has landed, and a
  check taken up later has sent nothing before; so a landing of the older check
  behind one of the newer is a second transaction.
* **Start and shutdown.** `BootInv` charges each subscription to an attempt while
  the request is made and orders the steps of the start: `SubscriptionsAreBounded`,
  `StreamFollowsSync`. `LateInv` says that a connection begun after the signal came
  from the timer that was running then, and that none runs afterwards:
  `QuietFollowsDisconnect`.
* **Stream.** `FrameInv` describes the text of one connection: what is read but not
  yet cut and what is on its way is one text, pieces of events in order and each
  to its end, later than all the handlers have had; only the first may lack its
  beginning, and then it was in the buffer when a heartbeat was met. It gives
  `UpdatesInOrder`. `LossInv` in it says where an update received whole and not yet
  delivered can be: in the buffer, or behind a heartbeat; it gives
  `HeartbeatLosesAlone`. `IngestionTypes` needs neither.
* **Migrations.** `JournalFollows` needs that what a process has read of the
  journal is still in it, that one about to write a name has just made its
  tables, and that no two are about to for a file that cannot be repeated
  (`MigrationsInv`).
* **Routes.** `ApiInv` says of every answer, whole or under way, what it owes to
  the tables of this moment: a count read is at most the present one, since rows
  are only inserted, and what the backend reads late is at least what it read
  early, up to the limit of a listing (`LimitLists`). `DueAfterEarlier` is why: a query is only made when the batches before
  it are whole. It gives `AnswersAgree`; `CacheIsWhole` is its part about Redis.
* **Feed.** `FeedInv`: the page on its way covers the rows older than its cursor
  that were there at the first page, down to its last entry, and the pages shown
  cover those newer than the cursor. It gives `PagesCover`, and with it that the
  list is never shorter than a page while there is more: hence `MoreStaysHidden`.
* **Rate limiter.** The bound of twice the limit is not inductive. `RateInv` cuts
  a client's past at the windows: what the open window has let through is at most
  its count and at most the limit, and what was let through in the length of a
  window before it opened is at most the limit. Any stretch as long as a window
  meets at most two such pieces: `LimitHolds`.
* **Web worker.** `WorkerInv` has two halves. `PipeInv` says for each call where it
  can stand and what it has stored by then; `SeenOK` in it, that the odds the Set
  holds, and those it made the worker skip, are of an update of the stream that is
  recorded, on its way to the table, or of a market no set covers: a conclusion about
  skipped calls only would not survive the next update. It gives `NothingLeftOut`.
  `QueueInv` ties slots, locks and jobs together and counts: what was sent for a call
  and the runs still about to send for it are together at most the attempts and
  stalls that are over, and one more while the job is active or has completed
  (`CountOK`, over the set `Submitting` of such runs). A job that is found stalled
  leaves its run behind, and the stall that is counted pays for it. It gives
  `ProofsFollow`, which holds for any number of slots, deaths and lapsed locks.
* **Arithmetic.** Every double of the model has four digits (`RoundDigits`,
  `SummedDigits` along the loop), so a sum below 1 has first digit 0 and a
  million times it a first digit below a million: `MarginsAgree`. `Value` reads the
  digits as a number of units of 2^-60. A division or an addition moves it by at
  most 512 units (`RoundValue`), so for odds o in halves and P their product, P times
  the computed sum is within 4000 P units of P times the exact one (`TwoWaySum`,
  `ThreeWaySum`), which is a multiple of one whole: at odds up to 64, P is at most
  2^21 and the error less than one (`UnitsDoNotBlur`). On the other side, stakes that
  win on every outcome, weighed by P / o and added up, show that the exact sum is
  below 1 (`WinningStake`, `CostsTooMuch`), and proportional stakes win when it is:
  `FlagsAreArbitrage`, for stakes of any size. `IsMarket` collects what both sides
  share.

`WebReads_proofs` and `WebApp_proofs` state the theorems of the last five modules
for `WebSpec`, the specification the run checks: a step of it is a step of one
part and a stutter of the others.

Only model-checked: liveness (`HandlersSettle`, `JobsSettle`, `StartSettles`,
`StreamComesBack`), which is out of the prover's reach. Every safety invariant of
the passing runs has a theorem.

## 5. Findings

Each is a run that ends in a violation.

* `detect_ttl`: `apps/backend/README.md:92` says that replaying an update never
  duplicates checks or submissions; it does after 24 hours, because
  `consistency_checks` has no unique constraint (`pipeline.ts:52`).
* `submit_accounts`: `chain/oracle.ts:224` passes the config account as role 2,
  a signer; it cannot be signed for, and read-only it would fail
  `submit_check.rs:24-29`. No live submission is ever sent.
* `math_threshold`: odds 1.5 / 6 / 6 sum to exactly 1 but to 0.9999999999999999
  in doubles, and are flagged (`consistency.ts:24`).
* `stream_heartbeat`: `continue` on a heartbeat (`ingestion/stream.ts:89`, web copy
  line 90) skips the search for the next separator; an update behind it in the
  same chunk is cut at the old place and lost. `LostOnlyBehindHeartbeat` of run
  `stream` shows that this is the only way the framing loses one.
* `web_schema`: the INSERTs of the web worker do not fit the tables the web
  migrations make; no check is stored, announced or submitted.

Met while modelling, and not runs of their own: `README.md:25-29` blocks above
105%, and so says `apps/web/app/docs/page.tsx:22,87,128`; the code flags below 100%
(`consistency.ts:24`) and knows no upper bound, as its tests and
`apps/backend/README.md` have it.
The web proof-feed and network-health routes ask for columns `created_at` that
`proof_log` and `odds_snapshots` do not have, so on migrated tables they always
answer their fixed fallback. The web worker queues only inconsistent checks
(`worker.ts:59`), so even on adapted tables the program never hears of a
consistent one. Backend and web share the queue name `onchain-submissions`, the
cache keys `api:overview` and `api:network-health` and the migration name
`001_initial` with different contents: they must not share a server.
No API route calls the rate limiter yet: `AtMostTwiceTheLimit` is about what it lets
through where it is called.
`matches?sort=recent` orders by the row `latest_check` (`matches.ts:37`), not by its
time. `metrics:ws-connections` is read and never written. The backoff of the stream
has no jitter, though `apps/backend/README.md:95` names one. What `OlderVerdictForCause`
says of a client that waits fails for the backend's, which does not: there a
completed check may land behind, or never, while its row says confirmed.

## 6. Not modelled, and why

* **Bootstrap, in part.** The degraded start without Redis or Postgres and the
  closing order of `gracefulShutdown`: each part is closed in a try of its own, and
  a handler that is cut off fails as `Abort` or `Crash` of the pipeline.
* **Admin and sync routes** (`admin/config`, `api/worker`), `fixture.create` of the
  webhook (whose INSERT leaves out the NOT NULL `home_team`): rows that no modelled
  part reads. The covering sets the web worker does read are a constant of its calls.
* **Live feed, in part.** One socket stands for all: sockets share only the
  subscription. The ping timeout is one of the reasons of `Drop`.
* **A job added twice** by a resent `queue.add`, within the pipeline; and the whole
  chain from update to verdict in one module: `DetectionPipeline`,
  `SubmissionWorker` and `TrustChain` meet at the queue and at the sent
  transaction, and each takes the other's side as arbitrary.
* **The stake table** of an inconsistent market, whose rounding nothing branches on.
* Left out for good: rendering, formatting, styling, logging and metrics; the
  instruction's byte layout and PDA search (pure encoding); Redis, Postgres,
  BullMQ, Solana and TxLINE themselves, which appear only as the code uses them.
