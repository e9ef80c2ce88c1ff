------------------------------ MODULE ApiReads ------------------------------
(***************************************************************************)
(* The GET routes that answer from several queries: overview, network      *)
(* health, oracle query, match list and match page, in the backend and in  *)
(* the web application, while the pipeline goes on inserting.  The backend *)
(* awaits its queries one after the other, the web application sends them  *)
(* together and they are served in any order.  Overview and network health *)
(* go through a Redis key that both applications use.  A query nothing     *)
(* below relates to another (average margin, slot, queue depth) is left    *)
(* out.                                                                    *)
(***************************************************************************)
EXTENDS Integers, Sequences, SequencesExt

CONSTANTS
  Fixtures,   \* fixture ids the server may be asked about
  Scenarios,  \* what is asked: functions from requests to questions
  Limits,     \* LIMIT 20 checks and 5 snapshots of a match, 50 matches of a list
  MaxChecks,  \* bound: how many checks are inserted
  MaxSnaps,   \* bound: how many snapshots are inserted
  None        \* there is no latest check

Cached  == {"overview", "health"}

VARIABLES
  fixtures,  \* rows of fixtures
  snaps,     \* odds_snapshots: how many of each fixture
  checks,    \* consistency_checks: fixture and verdict, in insertion order
  cache,     \* the two keys of Redis: who wrote the answer, and the answer
  asked,     \* each request: who serves it, what is asked, of which fixture
  pc,        \* where its handler stands
  got,       \* what its queries have answered so far
  answer,    \* what it was answered: status, source and values
  began      \* history: how many checks there were when it began

tables == <<fixtures, snaps, checks>>
vars   == <<tables, cache, asked, pc, got, answer, began>>

Asked == DOMAIN asked

NoAnswer == [status |-> 0, source |-> "none", values |-> <<>>]

Init ==
  /\ fixtures \in SUBSET Fixtures
  /\ snaps = [f \in Fixtures |-> 0] /\ checks = <<>>
  /\ cache = [k \in Cached |-> NoAnswer]
  /\ asked \in Scenarios
  /\ pc = [r \in Asked |-> "new"]
  /\ got = [r \in Asked |-> <<>>]
  /\ answer = [r \in Asked |-> NoAnswer]
  /\ began = [r \in Asked |-> 0]

-----------------------------------------------------------------------------
(* Rows come in the order the pipeline inserts them: fixture, snapshot,    *)
(* check.  None is ever deleted.  An update that came before adds a check  *)
(* and no snapshot (ON CONFLICT DO NOTHING); one that fails between the    *)
(* two adds a snapshot and no check.                                       *)
InsertFixture(f) ==
  /\ f \notin fixtures
  /\ fixtures' = fixtures \cup {f}
  /\ UNCHANGED <<snaps, checks, cache, asked, pc, got, answer, began>>

(* Checks by their places in the table.                                    *)
ChecksOf(f) == {i \in DOMAIN checks : checks[i].fixture = f}
Count(places, consistent) == Cardinality({i \in places : checks[i].consistent = consistent})

InsertSnapshot(f) ==
  /\ f \in fixtures /\ SumFunction(snaps) < MaxSnaps
  /\ snaps' = [snaps EXCEPT ![f] = @ + 1]
  /\ UNCHANGED <<fixtures, checks, cache, asked, pc, got, answer, began>>

InsertCheck(f, consistent) ==
  /\ snaps[f] > 0 /\ Len(checks) < MaxChecks
  /\ checks' = Append(checks, [fixture |-> f, consistent |-> consistent])
  /\ UNCHANGED <<fixtures, snaps, cache, asked, pc, got, answer, began>>

-----------------------------------------------------------------------------
Flagged(f) == Count(ChecksOf(f), FALSE) > 0
Listed(filter) ==
  CASE filter = "all" -> fixtures
    [] filter = "flagged" -> {f \in fixtures : Flagged(f)}
    [] filter = "consistent" -> {f \in fixtures : ~Flagged(f)}

AtMost(limit, n) == IF n < limit THEN n ELSE limit

(* What each query answers now; of a listing, how many rows.               *)
Value(q, a) ==
  CASE q = "total"      -> Len(checks)
    [] q = "flagged"    -> Count(DOMAIN checks, FALSE)
    [] q = "consistent" -> Count(DOMAIN checks, TRUE)
    [] q = "last"       -> checks # <<>>
    [] q = "fixture"    -> a.of \in fixtures
    [] q = "latest"     -> IF ChecksOf(a.of) = {} THEN None
                           ELSE checks[Max(ChecksOf(a.of))].consistent
    [] q = "flaggedOf"  -> Count(ChecksOf(a.of), FALSE)
    [] q = "checksOf"   -> AtMost(Limits[q], Cardinality(ChecksOf(a.of)))
    [] q = "snapsOf"    -> AtMost(Limits[q], snaps[a.of])
    [] q = "rows"       -> AtMost(Limits[q], Cardinality(Listed(a.filter)))
    [] q = "count"      -> Cardinality(Listed(a.filter))

(* A handler as a record: the batches of queries it awaits, whether Redis  *)
(* may answer for it, whether it goes on when Redis does not answer, and   *)
(* the status it replies with when something fails.                        *)
Backend(batches, cached) ==
  [batches |-> batches, cached |-> cached, lenient |-> FALSE, error |-> 500]
Web(queries, cached, error) ==
  [batches |-> <<queries>>, cached |-> cached, lenient |-> TRUE, error |-> error]

BackendOverview == Backend(<<{"total"}, {"flagged"}, {"last"}>>, TRUE)
BackendHealth   == Backend(<<{"total"}, {"consistent"}>>, TRUE)
BackendOracleMutant == Backend(<<{"fixture"}, {"flaggedOf"}, {"latest"}>>, FALSE)
BackendOracle   == Backend(<<{"fixture"}, {"latest"}, {"flaggedOf"}>>, FALSE)
BackendList     == Backend(<<{"rows"}, {"count"}>>, FALSE)
BackendMatch    == Backend(<<{"fixture"}, {"checksOf"}, {"snapsOf"}>>, FALSE)
WebOverview     == Web({"total", "flagged", "last"}, TRUE, 200)
WebHealth       == Web({"total", "consistent"}, TRUE, 200)
WebOracle       == Web({"fixture", "latest", "flaggedOf"}, FALSE, 404)
WebList         == Web({"rows", "count"}, FALSE, 200)
WebMatch        == Web({"fixture", "checksOf", "snapsOf"}, FALSE, 404)

Routes == [backend |-> [overview |-> BackendOverview, health |-> BackendHealth,
                        oracle |-> BackendOracle, list |-> BackendList, match |-> BackendMatch],
           web     |-> [overview |-> WebOverview, health |-> WebHealth,
                        oracle |-> WebOracle, list |-> WebList, match |-> WebMatch]]

Route(r) == Routes[asked[r].server][asked[r].kind]
Batch(r, i) == Route(r).batches[i]
Queries(r) == UNION {Batch(r, i) : i \in DOMAIN Route(r).batches}

Ask(r) ==
  /\ pc[r] = "new"
  /\ pc' = [pc EXCEPT ![r] = IF Route(r).cached THEN "get" ELSE "query"]
  /\ began' = [began EXCEPT ![r] = Len(checks)]
  /\ UNCHANGED <<tables, cache, asked, got, answer>>

(* The handler is over and its locals are gone.                            *)
Reply(r, status, source, values) ==
  /\ pc' = [pc EXCEPT ![r] = "replied"]
  /\ got' = [got EXCEPT ![r] = <<>>]
  /\ answer' = [answer EXCEPT ![r] = [status |-> status, source |-> source, values |-> values]]

FailureMutant(r) ==
  /\ Reply(r, Route(r).error, "failure", <<>>)
  /\ cache' = IF Route(r).cached
              THEN [cache EXCEPT ![asked[r].kind] =
                      [status |-> 200, source |-> "web", values |-> [total |-> 0]]]
              ELSE cache
  /\ UNCHANGED <<tables, asked, began>>

(* The backend has no catch and Fastify answers 500.  The web application  *)
(* answers 200 with fixed values, or 404 where one fixture is asked about. *)
Failure(r) ==
  /\ Reply(r, Route(r).error, "failure", <<>>)
  /\ UNCHANGED <<tables, cache, asked, began>>

Hit(r) ==
  /\ pc[r] = "get"
  /\ cache[asked[r].kind] # NoAnswer
  /\ Reply(r, 200, "cache", cache[asked[r].kind].values)
  /\ UNCHANGED <<tables, cache, asked, began>>

Miss(r) ==
  /\ pc[r] = "get" /\ cache[asked[r].kind] = NoAnswer
  /\ pc' = [pc EXCEPT ![r] = "query"]
  /\ UNCHANGED <<tables, cache, asked, got, answer, began>>

(* An unreachable Redis fails the backend's request; the web application   *)
(* goes on to the tables.                                                  *)
GetFails(r) ==
  /\ pc[r] = "get"
  /\ IF Route(r).lenient
       THEN /\ pc' = [pc EXCEPT ![r] = "query"]
            /\ UNCHANGED <<tables, cache, asked, got, answer, began>>
       ELSE Failure(r)

(* The queries it waits for: those of the first batch that is not whole.   *)
Due(r) ==
  {q \in Queries(r) \ DOMAIN got[r] :
     \E i \in DOMAIN Route(r).batches :
       q \in Batch(r, i) /\ \A j \in 1 .. i - 1 : Batch(r, j) \subseteq DOMAIN got[r]}

AllRead(r) == pc[r] = "query" /\ Queries(r) \subseteq DOMAIN got[r]

(* One query is served.  The backend answers 404 as soon as it knows that  *)
(* there is no such fixture.                                               *)
Query(r) ==
  /\ pc[r] = "query"
  /\ \E q \in Due(r) :
       LET value == Value(q, asked[r]) IN
       IF asked[r].server = "backend" /\ q = "fixture" /\ ~value
         THEN Reply(r, 404, "fresh", <<>>)
         ELSE /\ got' = [got EXCEPT ![r] = [p \in DOMAIN @ \cup {q} |-> IF p = q THEN value ELSE @[p]]]
              /\ UNCHANGED <<pc, answer>>
  /\ UNCHANGED <<tables, cache, asked, began>>

(* The web application's network health always does so on the tables its   *)
(* migrations make: it asks for odds_snapshots.created_at.                 *)
QueryFails(r) == pc[r] = "query" /\ ~AllRead(r) /\ Failure(r)

Compute(r) ==
  /\ AllRead(r) /\ ~Route(r).cached
  /\ IF "fixture" \in DOMAIN got[r] /\ ~got[r]["fixture"]
       THEN Reply(r, 404, "fresh", <<>>)
       ELSE Reply(r, 200, "fresh", got[r])
  /\ UNCHANGED <<tables, cache, asked, began>>

SetCache(r) ==
  /\ AllRead(r) /\ Route(r).cached
  /\ cache' = [cache EXCEPT ![asked[r].kind] =
                 [status |-> 200, source |-> asked[r].server, values |-> got[r]]]
  /\ Reply(r, 200, "fresh", got[r])
  /\ UNCHANGED <<tables, asked, began>>

SetFails(r) ==
  /\ AllRead(r) /\ Route(r).cached
  /\ IF Route(r).lenient
       THEN /\ Reply(r, 200, "fresh", got[r])
            /\ UNCHANGED <<tables, cache, asked, began>>
       ELSE Failure(r)

(* setex: the key is gone after 30 or 15 seconds.                          *)
Expire(k) ==
  /\ cache[k] # NoAnswer
  /\ cache' = [cache EXCEPT ![k] = NoAnswer]
  /\ UNCHANGED <<tables, asked, pc, got, answer, began>>

Handle(r) ==
  \/ Ask(r) \/ Hit(r) \/ Miss(r) \/ GetFails(r) \/ Query(r) \/ QueryFails(r)
  \/ Compute(r) \/ SetCache(r) \/ SetFails(r)

Next ==
  \/ \E f \in Fixtures : InsertFixture(f) \/ InsertSnapshot(f)
  \/ \E f \in Fixtures, c \in BOOLEAN : InsertCheck(f, c)
  \/ \E r \in Asked : Handle(r)
  \/ \E k \in Cached : Expire(k)

Spec == Init /\ [][Next]_vars

-----------------------------------------------------------------------------
TypeOK ==
  /\ fixtures \subseteq Fixtures
  /\ checks \in Seq([fixture : fixtures, consistent : BOOLEAN]) /\ Len(checks) <= MaxChecks
  /\ \A f \in Fixtures : snaps[f] \in Nat /\ (ChecksOf(f) # {} => snaps[f] > 0)
  /\ pc \in [Asked -> {"new", "get", "query", "replied"}]
  /\ \A r \in Asked : /\ answer[r].status \in {0, 200, 404, 500}
                       /\ pc[r] = "replied" <=> answer[r].status # 0

Fresh(r) == answer[r].source = "fresh" /\ answer[r].status = 200

(* Because the backend awaits its queries in this order, and rows are only *)
(* inserted, in the pipeline's order, one of its answers never contradicts *)
(* itself: a latest check that is flagged is among the flagged counted, a  *)
(* table with checks has a last one, a match that lists a check lists a    *)
(* snapshot, and no more matches are listed than counted (but for those    *)
(* never flagged, whose number falls).  The rates that overview.ts and     *)
(* network-health.ts make of two counts leave 0 to 100 per cent, in either *)
(* application, by no more than the checks that came in meanwhile.         *)
AnswersCohere ==
  \A r \in Asked : Fresh(r) =>
    LET v == answer[r].values
        meanwhile == Len(checks) - began[r]
        kind == asked[r].kind
    IN /\ kind = "overview" => v["flagged"] <= v["total"] + meanwhile
       /\ kind = "health" => v["consistent"] <= v["total"] + meanwhile
       /\ asked[r].server = "backend" =>
            /\ kind = "overview" /\ v["total"] > 0 => v["last"]
            /\ kind = "oracle" /\ v["latest"] = FALSE => v["flaggedOf"] > 0
            /\ kind = "match" /\ v["checksOf"] > 0 => v["snapsOf"] > 0
            /\ kind = "list" /\ asked[r].filter # "consistent" => v["rows"] <= v["count"]

(* What a key of Redis answers for the next 15 or 30 seconds is a whole    *)
(* answer about the tables, never the fixed values of a failed request and *)
(* never a part of one, whichever application wrote it.                    *)
OnlyWholeAnswersCached ==
  \A k \in Cached : cache[k] # NoAnswer =>
    /\ DOMAIN cache[k].values = Routes["web"][k].batches[1]
    /\ cache[k].values["total"] <= Len(checks)
=============================================================================
