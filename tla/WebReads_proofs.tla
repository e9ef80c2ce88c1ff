--------------------------- MODULE WebReads_proofs ---------------------------
(***************************************************************************)
(* What is read: the routes of the two servers and the proof feed, for any *)
(* fixtures, checks, requests, rows and page sizes.                        *)
(*                                                                         *)
(* ApiInv says of every answer, whole or under way, what it owes to the    *)
(* tables: a count taken is never above the count of the rows there are    *)
(* now, for rows are only inserted, and what the backend reads late is at  *)
(* least what it read early.  FeedInv says of the page on its way and of   *)
(* the pages shown which of the first page's rows they cover.              *)
(***************************************************************************)
EXTENDS WebApp, DataTheorems

-----------------------------------------------------------------------------
(* The reading routes.  cs is the table of checks, fx the set of fixtures, *)
(* a what a request asks, b how many checks there were when it began, v the*)
(* values of its queries.                                                  *)
CheckRows == [fixture : Fixtures, consistent : BOOLEAN]

PlacesOf(f, cs) == {i \in DOMAIN cs : cs[i].fixture = f}
FlaggedAt(f, cs) == {i \in PlacesOf(f, cs) : cs[i].consistent = FALSE}
Lists(w, cs, fx) == IF w = "flagged" THEN {f \in fx : FlaggedAt(f, cs) # {}} ELSE fx

(* The rows of the tables fit together.                                    *)
RowsOK(cs, fx) ==
  /\ fx \in SUBSET Fixtures /\ cs \in Seq(CheckRows) /\ Len(cs) <= MaxChecks
  /\ \A i \in DOMAIN cs : cs[i].fixture \in fx

(* Rows are only inserted.                                                 *)
Grown(cs, fx, ds, fy) ==
  /\ RowsOK(cs, fx) /\ RowsOK(ds, fy) /\ fx \subseteq fy
  /\ Len(cs) <= Len(ds) /\ \A i \in DOMAIN cs : ds[i] = cs[i]

(* What the answers of single queries say of the tables from then on.      *)
Solid(v, a, b, cs, fx) ==
  /\ "total" \in DOMAIN v => v["total"] \in b .. Len(cs)
  /\ "flagged" \in DOMAIN v => v["flagged"] \in 0 .. Len(cs)
  /\ "consistent" \in DOMAIN v => v["consistent"] \in 0 .. Len(cs)
  /\ "latest" \in DOMAIN v /\ v["latest"] = FALSE => FlaggedAt(a.of, cs) # {}
  /\ "checksOf" \in DOMAIN v =>
       v["checksOf"] \in Nat /\ (v["checksOf"] > 0 => PlacesOf(a.of, cs) # {})
  /\ "rows" \in DOMAIN v /\ a.filter # "consistent" =>
       v["rows"] \in 0 .. Cardinality(Lists(a.filter, cs, fx))

(* What a later answer of the backend owes to an earlier one.              *)
InOrder(v, a) ==
  /\ "last" \in DOMAIN v => "total" \in DOMAIN v /\ (v["total"] > 0 => v["last"])
  /\ "flaggedOf" \in DOMAIN v =>
       "latest" \in DOMAIN v /\ (v["latest"] = FALSE => v["flaggedOf"] > 0)
  /\ "snapsOf" \in DOMAIN v => "checksOf" \in DOMAIN v /\ (v["checksOf"] > 0 => v["snapsOf"] > 0)
  /\ "count" \in DOMAIN v =>
       "rows" \in DOMAIN v /\ (a.filter # "consistent" => v["rows"] <= v["count"])

Sound(v, a, b, cs, fx) ==
  Solid(v, a, b, cs, fx) /\ (a.server = "backend" => InOrder(v, a))

(* The queries and the failure status of a route, and whether it may cache.*)
RouteOf(a) == Api!Routes[a.server][a.kind]
QueriesOf(a) == UNION {RouteOf(a).batches[i] : i \in DOMAIN RouteOf(a).batches}

RequestOK(p, g, w, b, a, cs, fx) ==
  /\ p \in {"new", "get", "query", "replied"} /\ b \in 0 .. Len(cs)
  /\ p \in {"new", "get"} => g = <<>>
  /\ p = "get" => RouteOf(a).cached
  /\ p = "query" => DOMAIN g \subseteq QueriesOf(a) /\ Sound(g, a, b, cs, fx)
  /\ w.status \in {0, 200, 404, 500} /\ (p = "replied" <=> w.status # 0)
  /\ w.source = "fresh" /\ w.status = 200 =>
       QueriesOf(a) \subseteq DOMAIN w.values /\ Sound(w.values, a, b, cs, fx)

Requests == DOMAIN asked

Each(f) == f = [r \in Requests |-> f[r]]

Entry(k, e) ==
  e # Api!NoAnswer =>
    /\ DOMAIN e.values = Api!Routes["web"][k].batches[1]
    /\ e.values["total"] \in 0 .. Len(apiChecks)

TablesOK ==
  /\ RowsOK(apiChecks, fixtures) /\ apiSnaps \in [Fixtures -> Nat]
  /\ \A f \in Fixtures : /\ PlacesOf(f, apiChecks) # {} => apiSnaps[f] > 0
                         /\ apiSnaps[f] > 0 => f \in fixtures

RequestsOK ==
  /\ asked \in Scenarios
  /\ Each(apiPc) /\ Each(got) /\ Each(answer) /\ Each(began)
  /\ \A r \in Requests :
       RequestOK(apiPc[r], got[r], answer[r], began[r], asked[r], apiChecks, fixtures)

CacheOK == DOMAIN cache = Api!Cached /\ \A k \in Api!Cached : Entry(k, cache[k])

ApiInv == TablesOK /\ RequestsOK /\ CacheOK

-----------------------------------------------------------------------------
(* Sets are counted the same way everywhere.                               *)
LEMMA SameCardinality == \A S : Api!Cardinality(S) = Cardinality(S)
BY DEF Api!Cardinality, Cardinality

(* The places of a table are finitely many.                                *)
LEMMA PlacesFinite ==
  ASSUME NEW cs \in Seq(CheckRows), NEW S \in SUBSET DOMAIN cs
  PROVE  IsFiniteSet(S) /\ Cardinality(S) \in 0 .. Len(cs)
<1>1. DOMAIN cs = 1 .. Len(cs) /\ Len(cs) \in Nat
  OBVIOUS
<1>2. IsFiniteSet(1 .. Len(cs)) /\ Cardinality(1 .. Len(cs)) = Len(cs)
  <2>1. PICK n : n = Len(cs)
    OBVIOUS
  <2>2. n \in Int /\ 1 \in Int
    BY <1>1, <2>1
  <2>3. IsFiniteSet(1 .. n) /\ Cardinality(1 .. n) = IF 1 > n THEN 0 ELSE n - 1 + 1
    BY <2>2, FS_Interval
  <2> QED BY <1>1, <2>1, <2>3
<1>3. IsFiniteSet(S) /\ Cardinality(S) <= Len(cs)
  BY <1>1, <1>2, FS_Subset
<1>4. Cardinality(S) \in Nat
  BY <1>3, FS_CardinalityType
<1> QED BY <1>1, <1>3, <1>4

LEMMA FixturesFinite ==
  ASSUME NEW S \in SUBSET Fixtures
  PROVE  IsFiniteSet(S) /\ Cardinality(S) \in Nat
  BY ApiAssumption, FS_Subset, FS_CardinalityType

(* As the tables grow, so do the sets of rows a query counts.              *)
LEMMA GrowthShows ==
  ASSUME NEW cs, NEW fx, NEW ds, NEW fy, Grown(cs, fx, ds, fy), NEW f, NEW w
  PROVE  /\ FlaggedAt(f, cs) \subseteq FlaggedAt(f, ds)
         /\ PlacesOf(f, cs) \subseteq PlacesOf(f, ds)
         /\ Cardinality(Lists(w, cs, fx)) <= Cardinality(Lists(w, ds, fy))
         /\ Len(cs) \in Nat /\ Len(ds) \in Nat /\ Len(cs) <= Len(ds)
         /\ Cardinality(Lists(w, cs, fx)) \in Nat /\ Cardinality(Lists(w, ds, fy)) \in Nat
<1>1. /\ cs \in Seq(CheckRows) /\ ds \in Seq(CheckRows) /\ Len(cs) \in Nat /\ Len(ds) \in Nat
      /\ DOMAIN cs = 1 .. Len(cs) /\ DOMAIN ds = 1 .. Len(ds)
      /\ Len(cs) <= Len(ds)
      /\ fx \subseteq Fixtures /\ fy \subseteq Fixtures /\ fx \subseteq fy
  BY DEF Grown, RowsOK
<1>2. \A i \in DOMAIN cs : i \in DOMAIN ds /\ ds[i] = cs[i]
  BY <1>1 DEF Grown
<1>3. \A h : PlacesOf(h, cs) \subseteq PlacesOf(h, ds) /\ FlaggedAt(h, cs) \subseteq FlaggedAt(h, ds)
  BY <1>2 DEF PlacesOf, FlaggedAt
<1>4. Lists(w, cs, fx) \subseteq Lists(w, ds, fy) /\ Lists(w, ds, fy) \subseteq Fixtures
  BY <1>1, <1>3 DEF Lists
<1>5. /\ Cardinality(Lists(w, cs, fx)) <= Cardinality(Lists(w, ds, fy))
      /\ Cardinality(Lists(w, cs, fx)) \in Nat /\ Cardinality(Lists(w, ds, fy)) \in Nat
  BY <1>4, FixturesFinite, FS_Subset
<1> QED BY <1>1, <1>3, <1>5

LEMMA SoundKeeps ==
  ASSUME NEW cs, NEW fx, NEW ds, NEW fy, Grown(cs, fx, ds, fy),
         NEW v, NEW a, NEW b \in Nat, Sound(v, a, b, cs, fx)
  PROVE  Sound(v, a, b, ds, fy)
<1>1. Len(cs) \in Nat /\ Len(ds) \in Nat /\ Len(cs) <= Len(ds)
  BY GrowthShows
<1>2. /\ PlacesOf(a.of, cs) \subseteq PlacesOf(a.of, ds)
      /\ FlaggedAt(a.of, cs) \subseteq FlaggedAt(a.of, ds)
  BY GrowthShows
<1>3. /\ Cardinality(Lists(a.filter, cs, fx)) <= Cardinality(Lists(a.filter, ds, fy))
      /\ Cardinality(Lists(a.filter, cs, fx)) \in Nat /\ Cardinality(Lists(a.filter, ds, fy)) \in Nat
  BY GrowthShows
<1>4. Solid(v, a, b, cs, fx)
  BY DEF Sound
<1>5. Solid(v, a, b, ds, fy)
  BY <1>1, <1>2, <1>3, <1>4 DEF Solid
<1> QED BY <1>5 DEF Sound

LEMMA RequestKeeps ==
  ASSUME NEW cs, NEW fx, NEW ds, NEW fy, Grown(cs, fx, ds, fy),
         NEW p, NEW g, NEW w, NEW b, NEW a, RequestOK(p, g, w, b, a, cs, fx)
  PROVE  RequestOK(p, g, w, b, a, ds, fy)
<1>1. Len(cs) \in Nat /\ Len(ds) \in Nat /\ Len(cs) <= Len(ds)
  BY GrowthShows
<1>2. b \in Nat /\ b \in 0 .. Len(ds)
  BY <1>1 DEF RequestOK
<1>3. \A v : Sound(v, a, b, cs, fx) => Sound(v, a, b, ds, fy)
  BY <1>2, SoundKeeps
<1> QED BY <1>2, <1>3 DEF RequestOK

(* Before anything is asked or inserted.                                   *)
LEMMA ApiInitially == Api!Init => ApiInv
<1> SUFFICES ASSUME Api!Init PROVE ApiInv
  OBVIOUS
<1>1. /\ fixtures \in SUBSET Fixtures /\ apiSnaps = [f \in Fixtures |-> 0] /\ apiChecks = <<>>
      /\ cache = [k \in Api!Cached |-> Api!NoAnswer] /\ asked \in Scenarios
      /\ apiPc = [r \in Requests |-> "new"] /\ got = [r \in Requests |-> <<>>]
      /\ answer = [r \in Requests |-> Api!NoAnswer] /\ began = [r \in Requests |-> 0]
  BY DEF Api!Init, Requests, Api!Asked
<1>2. RowsOK(apiChecks, fixtures)
  BY <1>1, ApiAssumption DEF RowsOK
<1>3. ASSUME NEW f \in Fixtures PROVE PlacesOf(f, apiChecks) = {} /\ apiSnaps[f] = 0
  BY <1>1 DEF PlacesOf
<1>4. TablesOK
  BY <1>1, <1>2, <1>3 DEF TablesOK
<1>5. ASSUME NEW r \in Requests
      PROVE  RequestOK(apiPc[r], got[r], answer[r], began[r], asked[r], apiChecks, fixtures)
  BY <1>1 DEF RequestOK, Api!NoAnswer
<1>6. RequestsOK
  BY <1>1, <1>5 DEF RequestsOK, Each
<1>7. CacheOK
  BY <1>1 DEF CacheOK, Entry
<1> QED BY <1>4, <1>6, <1>7 DEF ApiInv

-----------------------------------------------------------------------------
Questions == [server : {"backend", "web"}, of : Fixtures,
              kind : {"overview", "health", "oracle", "list", "match"},
              filter : {"all", "flagged", "consistent"}]

(* A request asks one of the questions the scenarios hold.                 *)
LEMMA AskedQuestions == RequestsOK => \A r \in Requests : asked[r] \in Questions
BY ApiAssumption DEF RequestsOK, Requests, Questions

(* The routes, one by one: what they query, and in which order.            *)
Whole(batches) == UNION {batches[i] : i \in DOMAIN batches}

LEMMA WholeBatches ==
  ASSUME NEW b, NEW x, NEW y, NEW z
  PROVE  /\ b = <<x>> => Whole(b) = x
         /\ b = <<x, y>> => Whole(b) = x \cup y
         /\ b = <<x, y, z>> => Whole(b) = x \cup y \cup z
<1>1. /\ b = <<x>> => DOMAIN b = {1} /\ b[1] = x
      /\ b = <<x, y>> => DOMAIN b = {1, 2} /\ b[1] = x /\ b[2] = y
      /\ b = <<x, y, z>> => DOMAIN b = {1, 2, 3} /\ b[1] = x /\ b[2] = y /\ b[3] = z
  OBVIOUS
<1> QED BY <1>1, Zenon DEF Whole

LEMMA RouteFacts ==
  ASSUME NEW a \in Questions
  PROVE  /\ RouteOf(a).error \in {200, 404, 500}
         /\ (RouteOf(a).cached <=> a.kind \in Api!Cached)
         /\ (RouteOf(a).lenient <=> a.server = "web")
         /\ a.kind \in Api!Cached => QueriesOf(a) = Api!Routes["web"][a.kind].batches[1]
<1>1. a.server \in {"backend", "web"} /\ a.kind \in {"overview", "health", "oracle", "list", "match"}
  BY DEF Questions
<1> DEFINE R == RouteOf(a)
<1>2. QueriesOf(a) = Whole(R.batches)
  BY DEF QueriesOf, Whole
<1>3. /\ Api!Routes["web"]["overview"].batches[1] = {"total", "flagged", "last"}
      /\ Api!Routes["web"]["health"].batches[1] = {"total", "consistent"}
  BY DEF Api!Routes, Api!Web, Api!WebOverview, Api!WebHealth
<1>4. CASE a.server = "backend"
  <2>1. a.kind = "overview" => R = Api!BackendOverview
    BY <1>4 DEF RouteOf, Api!Routes
  <2>2. a.kind = "health" => R = Api!BackendHealth
    BY <1>4 DEF RouteOf, Api!Routes
  <2>3. a.kind = "oracle" => R = Api!BackendOracle
    BY <1>4 DEF RouteOf, Api!Routes
  <2>4. a.kind = "list" => R = Api!BackendList
    BY <1>4 DEF RouteOf, Api!Routes
  <2>5. a.kind = "match" => R = Api!BackendMatch
    BY <1>4 DEF RouteOf, Api!Routes
  <2> HIDE DEF R
  <2>6. Whole(Api!BackendOverview.batches) = {"total", "flagged", "last"}
    <3>1. Api!BackendOverview.batches = <<{"total"}, {"flagged"}, {"last"}>>
      BY DEF Api!BackendOverview, Api!Backend
    <3> QED BY <3>1, WholeBatches
  <2>7. Whole(Api!BackendHealth.batches) = {"total", "consistent"}
    <3>1. Api!BackendHealth.batches = <<{"total"}, {"consistent"}>>
      BY DEF Api!BackendHealth, Api!Backend
    <3> QED BY <3>1, WholeBatches
  <2>8. a.kind \in Api!Cached => QueriesOf(a) = Api!Routes["web"][a.kind].batches[1]
    BY <1>2, <1>3, <2>1, <2>2, <2>6, <2>7 DEF Api!Cached
  <2>9. R.error = 500 /\ R.lenient = FALSE /\ (R.cached <=> a.kind \in Api!Cached)
    <3>1. a.kind = "overview" => R.error = 500 /\ R.lenient = FALSE /\ R.cached = TRUE
      BY <2>1 DEF Api!BackendOverview, Api!Backend
    <3>2. a.kind = "health" => R.error = 500 /\ R.lenient = FALSE /\ R.cached = TRUE
      BY <2>2 DEF Api!BackendHealth, Api!Backend
    <3>3. a.kind = "oracle" => R.error = 500 /\ R.lenient = FALSE /\ R.cached = FALSE
      BY <2>3 DEF Api!BackendOracle, Api!Backend
    <3>4. a.kind = "list" => R.error = 500 /\ R.lenient = FALSE /\ R.cached = FALSE
      BY <2>4 DEF Api!BackendList, Api!Backend
    <3>5. a.kind = "match" => R.error = 500 /\ R.lenient = FALSE /\ R.cached = FALSE
      BY <2>5 DEF Api!BackendMatch, Api!Backend
    <3> QED BY <1>1, <3>1, <3>2, <3>3, <3>4, <3>5 DEF Api!Cached
  <2> QED BY <1>4, <2>8, <2>9 DEF R
<1>5. CASE a.server = "web"
  <2>1. a.kind = "overview" => R = Api!WebOverview
    BY <1>5 DEF RouteOf, Api!Routes
  <2>2. a.kind = "health" => R = Api!WebHealth
    BY <1>5 DEF RouteOf, Api!Routes
  <2>3. a.kind = "oracle" => R = Api!WebOracle
    BY <1>5 DEF RouteOf, Api!Routes
  <2>4. a.kind = "list" => R = Api!WebList
    BY <1>5 DEF RouteOf, Api!Routes
  <2>5. a.kind = "match" => R = Api!WebMatch
    BY <1>5 DEF RouteOf, Api!Routes
  <2> HIDE DEF R
  <2>6. Whole(Api!WebOverview.batches) = {"total", "flagged", "last"}
    <3>1. Api!WebOverview.batches = <<{"total", "flagged", "last"}>>
      BY DEF Api!WebOverview, Api!Web
    <3> QED BY <3>1, WholeBatches
  <2>7. Whole(Api!WebHealth.batches) = {"total", "consistent"}
    <3>1. Api!WebHealth.batches = <<{"total", "consistent"}>>
      BY DEF Api!WebHealth, Api!Web
    <3> QED BY <3>1, WholeBatches
  <2>8. a.kind \in Api!Cached => QueriesOf(a) = Api!Routes["web"][a.kind].batches[1]
    BY <1>2, <1>3, <2>1, <2>2, <2>6, <2>7 DEF Api!Cached
  <2>9. R.error \in {200, 404} /\ R.lenient = TRUE /\ (R.cached <=> a.kind \in Api!Cached)
    <3>1. a.kind = "overview" => R.error = 200 /\ R.lenient = TRUE /\ R.cached = TRUE
      BY <2>1 DEF Api!WebOverview, Api!Web
    <3>2. a.kind = "health" => R.error = 200 /\ R.lenient = TRUE /\ R.cached = TRUE
      BY <2>2 DEF Api!WebHealth, Api!Web
    <3>3. a.kind = "oracle" => R.error = 404 /\ R.lenient = TRUE /\ R.cached = FALSE
      BY <2>3 DEF Api!WebOracle, Api!Web
    <3>4. a.kind = "list" => R.error = 200 /\ R.lenient = TRUE /\ R.cached = FALSE
      BY <2>4 DEF Api!WebList, Api!Web
    <3>5. a.kind = "match" => R.error = 404 /\ R.lenient = TRUE /\ R.cached = FALSE
      BY <2>5 DEF Api!WebMatch, Api!Web
    <3> QED BY <1>1, <3>1, <3>2, <3>3, <3>4, <3>5 DEF Api!Cached
  <2> QED BY <1>5, <2>8, <2>9 DEF R
<1> QED BY <1>1, <1>4, <1>5

(* What the backend queries late it queries after what it relates to.      *)
Earlier == [last |-> "total", flaggedOf |-> "latest", snapsOf |-> "checksOf", count |-> "rows"]

LEMMA BackendOrder ==
  ASSUME NEW a \in Questions, a.server = "backend", NEW q \in DOMAIN Earlier,
         NEW i \in DOMAIN RouteOf(a).batches, q \in RouteOf(a).batches[i]
  PROVE  \E j \in 1 .. i - 1 : Earlier[q] \in RouteOf(a).batches[j]
<1>1. a.kind \in {"overview", "health", "oracle", "list", "match"}
  BY DEF Questions
<1> DEFINE R == RouteOf(a).batches
<1>2. a.kind = "overview" => R = <<{"total"}, {"flagged"}, {"last"}>>
  BY DEF RouteOf, Api!Routes, Api!Backend, Api!BackendOverview
<1>3. a.kind = "health" => R = <<{"total"}, {"consistent"}>>
  BY DEF RouteOf, Api!Routes, Api!Backend, Api!BackendHealth
<1>4. a.kind = "oracle" => R = <<{"fixture"}, {"latest"}, {"flaggedOf"}>>
  BY DEF RouteOf, Api!Routes, Api!Backend, Api!BackendOracle
<1>5. a.kind = "list" => R = <<{"rows"}, {"count"}>>
  BY DEF RouteOf, Api!Routes, Api!Backend, Api!BackendList
<1>6. a.kind = "match" => R = <<{"fixture"}, {"checksOf"}, {"snapsOf"}>>
  BY DEF RouteOf, Api!Routes, Api!Backend, Api!BackendMatch
<1>7. q \in R[i] /\ i \in DOMAIN R /\ q \in {"last", "flaggedOf", "snapsOf", "count"}
  BY DEF Earlier
<1>8. /\ q = "last" => Earlier[q] = "total"
      /\ q = "flaggedOf" => Earlier[q] = "latest"
      /\ q = "snapsOf" => Earlier[q] = "checksOf"
      /\ q = "count" => Earlier[q] = "rows"
  BY DEF Earlier
<1> HIDE DEF R
<1>9. CASE a.kind = "overview"
  <2>1. q = "last" /\ i = 3 /\ R[1] = {"total"}
    BY <1>2, <1>7, <1>9
  <2> QED BY <1>8, <2>1 DEF R
<1>10. CASE a.kind = "health"
  BY <1>3, <1>7, <1>10
<1>11. CASE a.kind = "oracle"
  <2>1. q = "flaggedOf" /\ i = 3 /\ R[2] = {"latest"}
    BY <1>4, <1>7, <1>11
  <2> QED BY <1>8, <2>1 DEF R
<1>12. CASE a.kind = "list"
  <2>1. q = "count" /\ i = 2 /\ R[1] = {"rows"}
    BY <1>5, <1>7, <1>12
  <2> QED BY <1>8, <2>1 DEF R
<1>13. CASE a.kind = "match"
  <2>1. q = "snapsOf" /\ i = 3 /\ R[2] = {"checksOf"}
    BY <1>6, <1>7, <1>13
  <2> QED BY <1>8, <2>1 DEF R
<1> QED BY <1>1, <1>9, <1>10, <1>11, <1>12, <1>13

(* What a query answers now fits the tables.                               *)
ValueFits(q, x, a, cs, fx) ==
  /\ q = "total" => x = Len(cs)
  /\ q \in {"flagged", "consistent"} => x \in 0 .. Len(cs)
  /\ q = "last" => x = (cs # <<>>)
  /\ q = "latest" /\ x = FALSE => FlaggedAt(a.of, cs) # {}
  /\ q = "flaggedOf" => x \in Nat /\ (FlaggedAt(a.of, cs) # {} => x > 0)
  /\ q = "checksOf" => x \in Nat /\ (x > 0 => PlacesOf(a.of, cs) # {})
  /\ q = "snapsOf" => x \in Nat /\ (PlacesOf(a.of, cs) # {} => x > 0)
  /\ q = "rows" /\ a.filter # "consistent" => x \in 0 .. Cardinality(Lists(a.filter, cs, fx))
  /\ q = "count" /\ a.filter # "consistent" => x = Cardinality(Lists(a.filter, cs, fx))

(* A LIMIT lists no more rows than there are, and some if there are any.   *)
LEMMA LimitLists ==
  ASSUME NEW limit \in Nat \ {0}, NEW n \in Nat
  PROVE  Api!AtMost(limit, n) \in 0 .. n /\ (n > 0 => Api!AtMost(limit, n) > 0)
BY DEF Api!AtMost

LEMMA CountsPlaces ==
  ASSUME TablesOK, NEW S \in SUBSET DOMAIN apiChecks, NEW c \in BOOLEAN
  PROVE  /\ Api!Count(S, c) \in 0 .. Len(apiChecks)
         /\ Api!Count(S, c) > 0 <=> {i \in S : apiChecks[i].consistent = c} # {}
<1>1. PICK T : T = {i \in S : apiChecks[i].consistent = c}
  OBVIOUS
<1>2. apiChecks \in Seq(CheckRows) /\ T \in SUBSET DOMAIN apiChecks
  BY <1>1 DEF TablesOK, RowsOK
<1>3. IsFiniteSet(T) /\ Cardinality(T) \in 0 .. Len(apiChecks)
  BY <1>2, PlacesFinite
<1>4. Cardinality(T) > 0 <=> T # {}
  BY <1>3, FS_EmptySet
<1>5. Api!Count(S, c) = Cardinality(T)
  BY <1>1, SameCardinality DEF Api!Count
<1> QED BY <1>1, <1>3, <1>4, <1>5

LEMMA ValuesFit ==
  ASSUME TablesOK, NEW a \in Questions, NEW q
  PROVE  ValueFits(q, Api!Value(q, a), a, apiChecks, fixtures)
<1>1. /\ apiChecks \in Seq(CheckRows) /\ Len(apiChecks) \in Nat
      /\ DOMAIN apiChecks = 1 .. Len(apiChecks) /\ fixtures \in SUBSET Fixtures /\ a.of \in Fixtures
  BY DEF TablesOK, RowsOK, Questions
<1>2. \A f : Api!ChecksOf(f) = PlacesOf(f, apiChecks) /\ PlacesOf(f, apiChecks) \in SUBSET DOMAIN apiChecks
  BY DEF Api!ChecksOf, PlacesOf
<1>3. \A f : Api!Count(Api!ChecksOf(f), FALSE) > 0 <=> FlaggedAt(f, apiChecks) # {}
  BY <1>2, CountsPlaces DEF FlaggedAt
<1>4. CASE q \in {"total", "flagged", "consistent", "last"}
  <2>1. \A c \in BOOLEAN : Api!Count(DOMAIN apiChecks, c) \in 0 .. Len(apiChecks)
    BY CountsPlaces
  <2> QED BY <1>4, <2>1 DEF Api!Value, ValueFits
<1>5. CASE q = "latest"
  <2>1. PICK P : P = PlacesOf(a.of, apiChecks)
    OBVIOUS
  <2>2. CASE P = {}
    <3>1. Api!Value(q, a) = None
      BY <1>2, <1>5, <2>1, <2>2 DEF Api!Value
    <3> QED BY <1>5, <3>1, ApiAssumption DEF ValueFits
  <2>3. CASE P # {}
    <3>1. P \in SUBSET (0 .. Len(apiChecks))
      BY <1>1, <1>2, <2>1
    <3>2. Max(P) \in P
      BY <1>1, <2>3, <3>1, GreatestMember
    <3>3. Api!Value(q, a) = apiChecks[Max(P)].consistent
      BY <1>2, <1>5, <2>1, <2>3 DEF Api!Value, Api!Max, Max
    <3>4. apiChecks[Max(P)].consistent = FALSE => Max(P) \in FlaggedAt(a.of, apiChecks)
      BY <2>1, <3>2 DEF FlaggedAt
    <3> QED BY <1>5, <3>3, <3>4 DEF ValueFits
  <2> QED BY <2>2, <2>3
<1>6. CASE q = "flaggedOf"
  <2>1. Api!Count(Api!ChecksOf(a.of), FALSE) \in 0 .. Len(apiChecks)
    BY <1>2, CountsPlaces
  <2>2. PICK x : x = Api!Count(Api!ChecksOf(a.of), FALSE)
    OBVIOUS
  <2>3. x > 0 <=> FlaggedAt(a.of, apiChecks) # {}
    BY <1>3, <2>2
  <2>4. x \in 0 .. Len(apiChecks)
    BY <2>1, <2>2
  <2>5. x \in Nat
    BY <1>1, <2>4
  <2>6. Api!Value(q, a) = x
    BY <1>6, <2>2 DEF Api!Value
  <2> QED BY <1>6, <2>3, <2>5, <2>6 DEF ValueFits
<1>7. CASE q = "checksOf"
  <2>1. PICK n : n = Cardinality(PlacesOf(a.of, apiChecks))
    OBVIOUS
  <2>2. n \in Nat /\ (n > 0 => PlacesOf(a.of, apiChecks) # {})
    BY <1>1, <1>2, <2>1, PlacesFinite, FS_EmptySet
  <2>3. Api!Value(q, a) = Api!AtMost(Limits["checksOf"], n)
    BY <1>2, <1>7, <2>1, SameCardinality DEF Api!Value
  <2>4. Limits["checksOf"] \in Nat \ {0}
    BY ApiAssumption
  <2>5. Api!Value(q, a) \in 0 .. n
    BY <2>2, <2>3, <2>4, LimitLists
  <2> QED BY <1>7, <2>2, <2>5 DEF ValueFits
<1>8. CASE q = "snapsOf"
  <2>1. PICK n \in Nat : n = apiSnaps[a.of] /\ (PlacesOf(a.of, apiChecks) # {} => n > 0)
    BY <1>1 DEF TablesOK
  <2>2. Api!Value(q, a) = Api!AtMost(Limits["snapsOf"], n)
    BY <1>8, <2>1 DEF Api!Value
  <2>3. Limits["snapsOf"] \in Nat \ {0}
    BY ApiAssumption
  <2>4. Api!Value(q, a) \in 0 .. n /\ (n > 0 => Api!Value(q, a) > 0)
    BY <2>1, <2>2, <2>3, LimitLists
  <2> QED BY <1>8, <2>1, <2>4 DEF ValueFits
<1>9. CASE q \in {"rows", "count"}
  <2>1. a.filter # "consistent" => Api!Listed(a.filter) = Lists(a.filter, apiChecks, fixtures)
    BY <1>3 DEF Api!Listed, Api!Flagged, Lists, Questions
  <2>2. PICK n : n = Cardinality(Api!Listed(a.filter))
    OBVIOUS
  <2>3. CASE q = "count"
    BY <2>1, <2>3, SameCardinality DEF Api!Value, ValueFits
  <2>4. CASE q = "rows" /\ a.filter # "consistent"
    <3>1. Lists(a.filter, apiChecks, fixtures) \in SUBSET Fixtures
      BY <1>1 DEF Lists
    <3>2. n \in Nat /\ n = Cardinality(Lists(a.filter, apiChecks, fixtures))
      BY <2>1, <2>2, <2>4, <3>1, FixturesFinite
    <3>3. Api!Value(q, a) = Api!AtMost(Limits["rows"], n)
      BY <2>2, <2>4, SameCardinality DEF Api!Value
    <3>4. Limits["rows"] \in Nat \ {0}
      BY ApiAssumption
    <3>5. Api!Value(q, a) \in 0 .. n
      BY <3>2, <3>3, <3>4, LimitLists
    <3> QED BY <2>4, <3>2, <3>5 DEF ValueFits
  <2>5. CASE q = "rows" /\ a.filter = "consistent"
    BY <2>5 DEF ValueFits
  <2> QED BY <1>9, <2>3, <2>4, <2>5
<1>10. CASE q \notin {"total", "flagged", "consistent", "last", "latest", "flaggedOf", "checksOf",
                      "snapsOf", "rows", "count"}
  BY <1>10 DEF ValueFits
<1> QED BY <1>4, <1>5, <1>6, <1>7, <1>8, <1>9, <1>10

(* One more query has answered.                                            *)
LEMMA QueryAdds ==
  ASSUME NEW cs, NEW fx, RowsOK(cs, fx), NEW a \in Questions, NEW b, b \in 0 .. Len(cs),
         NEW g, Sound(g, a, b, cs, fx), NEW q, q \notin DOMAIN g,
         NEW x, ValueFits(q, x, a, cs, fx),
         a.server = "backend" /\ q \in DOMAIN Earlier => Earlier[q] \in DOMAIN g,
         NEW h, DOMAIN h = DOMAIN g \cup {q}, h[q] = x, \A p \in DOMAIN g : h[p] = g[p]
  PROVE  Sound(h, a, b, cs, fx)
<1>1. DOMAIN h = DOMAIN g \cup {q} /\ h[q] = x /\ \A p \in DOMAIN g : h[p] = g[p]
  OBVIOUS
<1>2. /\ cs \in Seq(CheckRows) /\ Len(cs) \in Nat /\ fx \in SUBSET Fixtures /\ b \in Nat /\ b <= Len(cs)
      /\ (cs # <<>> <=> Len(cs) > 0)
  BY DEF RowsOK
<1>3. Solid(g, a, b, cs, fx)
  BY DEF Sound
<1>4. PICK m : m = Cardinality(Lists(a.filter, cs, fx))
  OBVIOUS
<1>5. m \in Nat
  BY <1>2, <1>4, FixturesFinite DEF Lists
<1>6. "checksOf" \in DOMAIN h =>
        h["checksOf"] \in Nat /\ (h["checksOf"] > 0 => PlacesOf(a.of, cs) # {})
  BY <1>1, <1>3 DEF Solid, ValueFits
<1>7. Solid(h, a, b, cs, fx)
  <2>1. "total" \in DOMAIN h => h["total"] \in b .. Len(cs)
    BY <1>1, <1>2, <1>3 DEF Solid, ValueFits
  <2>2. "flagged" \in DOMAIN h => h["flagged"] \in 0 .. Len(cs)
    BY <1>1, <1>2, <1>3 DEF Solid, ValueFits
  <2>3. "consistent" \in DOMAIN h => h["consistent"] \in 0 .. Len(cs)
    BY <1>1, <1>2, <1>3 DEF Solid, ValueFits
  <2>4. "latest" \in DOMAIN h /\ h["latest"] = FALSE => FlaggedAt(a.of, cs) # {}
    BY <1>1, <1>3 DEF Solid, ValueFits
  <2>5. "rows" \in DOMAIN h /\ a.filter # "consistent" => h["rows"] \in 0 .. m
    BY <1>1, <1>3, <1>4, <1>5 DEF Solid, ValueFits
  <2> QED BY <1>4, <1>6, <2>1, <2>2, <2>3, <2>4, <2>5 DEF Solid
<1>8. ASSUME a.server = "backend" PROVE InOrder(h, a)
  <2>1. InOrder(g, a)
    BY <1>8 DEF Sound
  <2>2. /\ q = "last" => "total" \in DOMAIN g
        /\ q = "flaggedOf" => "latest" \in DOMAIN g
        /\ q = "snapsOf" => "checksOf" \in DOMAIN g
        /\ q = "count" => "rows" \in DOMAIN g
    BY <1>8 DEF Earlier
  <2>3. "last" \in DOMAIN h => "total" \in DOMAIN h /\ (h["total"] > 0 => h["last"])
    <3>1. CASE q = "last"
      <4>1. "total" \in DOMAIN g /\ g["total"] \in b .. Len(cs) /\ x = (cs # <<>>)
        BY <1>3, <2>2, <3>1 DEF Solid, ValueFits
      <4>2. h["total"] = g["total"] /\ h["last"] = x
        BY <1>1, <3>1, <4>1
      <4>3. h["total"] > 0 => Len(cs) > 0
        BY <1>2, <4>1, <4>2
      <4> QED BY <1>1, <1>2, <4>1, <4>2, <4>3
    <3>2. CASE q # "last"
      BY <1>1, <2>1, <3>2 DEF InOrder
    <3> QED BY <3>1, <3>2
  <2>4. "flaggedOf" \in DOMAIN h =>
          "latest" \in DOMAIN h /\ (h["latest"] = FALSE => h["flaggedOf"] > 0)
    <3>1. CASE q = "flaggedOf"
      BY <1>1, <1>3, <2>2, <3>1 DEF Solid, ValueFits
    <3>2. CASE q # "flaggedOf"
      BY <1>1, <2>1, <3>2 DEF InOrder
    <3> QED BY <3>1, <3>2
  <2>5. "snapsOf" \in DOMAIN h =>
          "checksOf" \in DOMAIN h /\ (h["checksOf"] > 0 => h["snapsOf"] > 0)
    <3>1. CASE q = "snapsOf"
      <4>1. "checksOf" \in DOMAIN h /\ h["snapsOf"] = x /\ (PlacesOf(a.of, cs) # {} => x > 0)
        BY <1>1, <2>2, <3>1 DEF ValueFits
      <4> QED BY <1>6, <4>1
    <3>2. CASE q # "snapsOf"
      BY <1>1, <2>1, <3>2 DEF InOrder
    <3> QED BY <3>1, <3>2
  <2>6. "count" \in DOMAIN h =>
          "rows" \in DOMAIN h /\ (a.filter # "consistent" => h["rows"] <= h["count"])
    <3>1. CASE q = "count"
      <4>1. "rows" \in DOMAIN g /\ (a.filter # "consistent" => g["rows"] \in 0 .. m /\ x = m)
        BY <1>3, <1>4, <2>2, <3>1 DEF Solid, ValueFits
      <4> QED BY <1>1, <1>5, <3>1, <4>1
    <3>2. CASE q # "count"
      BY <1>1, <2>1, <3>2 DEF InOrder
    <3> QED BY <3>1, <3>2
  <2> QED BY <2>3, <2>4, <2>5, <2>6 DEF InOrder
<1> QED BY <1>7, <1>8 DEF Sound

-----------------------------------------------------------------------------
(* Nothing has answered yet.                                               *)
LEMMA NothingIsSound ==
  ASSUME NEW a, NEW b, NEW cs, NEW fx
  PROVE  DOMAIN <<>> = {} /\ Sound(<<>>, a, b, cs, fx)
<1>1. DOMAIN <<>> = {}
  OBVIOUS
<1> QED BY <1>1 DEF Sound, Solid, InOrder

(* A step of one request.                                                  *)
OthersWait(r) ==
  /\ Each(apiPc)' /\ Each(got)' /\ Each(answer)' /\ Each(began)'
  /\ \A q \in Requests \ {r} : /\ apiPc'[q] = apiPc[q] /\ got'[q] = got[q]
                               /\ answer'[q] = answer[q] /\ began'[q] = began[q]
  /\ fixtures' = fixtures /\ apiSnaps' = apiSnaps /\ apiChecks' = apiChecks /\ asked' = asked

LEMMA OneRequest ==
  ASSUME ApiInv, NEW r \in Requests, OthersWait(r),
         RequestOK(apiPc'[r], got'[r], answer'[r], began'[r], asked[r], apiChecks, fixtures)
  PROVE  RequestsOK' /\ TablesOK'
<1>1. /\ asked \in Scenarios /\ Each(apiPc)' /\ Each(got)' /\ Each(answer)' /\ Each(began)'
      /\ \A q \in Requests :
           RequestOK(apiPc[q], got[q], answer[q], began[q], asked[q], apiChecks, fixtures)
  BY DEF ApiInv, RequestsOK, OthersWait
<1>2. Requests' = Requests /\ asked' = asked /\ apiChecks' = apiChecks /\ fixtures' = fixtures
  BY DEF Requests, OthersWait
<1>3. ASSUME NEW q \in Requests
      PROVE  RequestOK(apiPc'[q], got'[q], answer'[q], began'[q], asked[q], apiChecks, fixtures)
  <2>1. CASE q # r
    <3>1. apiPc'[q] = apiPc[q] /\ got'[q] = got[q] /\ answer'[q] = answer[q] /\ began'[q] = began[q]
      BY <2>1 DEF OthersWait
    <3> QED BY <1>1, <3>1
  <2> QED BY <2>1
<1>4. RequestsOK'
  BY <1>1, <1>2, <1>3 DEF RequestsOK
<1>5. TablesOK'
  BY DEF ApiInv, TablesOK, OthersWait
<1> QED BY <1>4, <1>5

(* A request that is still waiting waits for the first batch not yet whole,*)
(* so that the backend has what it asked before.                           *)
LEMMA DueAfterEarlier ==
  ASSUME RequestsOK, NEW r \in Requests, NEW q \in Api!Due(r)
  PROVE  /\ q \in QueriesOf(asked[r]) /\ q \notin DOMAIN got[r]
         /\ asked[r].server = "backend" /\ q \in DOMAIN Earlier => Earlier[q] \in DOMAIN got[r]
<1>1. q \in QueriesOf(asked[r]) /\ q \notin DOMAIN got[r]
  BY Zenon DEF Api!Due, Api!Queries, Api!Batch, Api!Route, QueriesOf, RouteOf
<1>2. PICK i \in DOMAIN RouteOf(asked[r]).batches :
        /\ q \in RouteOf(asked[r]).batches[i]
        /\ \A j \in 1 .. i - 1 : RouteOf(asked[r]).batches[j] \subseteq DOMAIN got[r]
  BY DEF Api!Due, Api!Batch, Api!Route, RouteOf
<1>3. ASSUME asked[r].server = "backend", q \in DOMAIN Earlier PROVE Earlier[q] \in DOMAIN got[r]
  <2>1. \E j \in 1 .. i - 1 : Earlier[q] \in RouteOf(asked[r]).batches[j]
    BY <1>2, <1>3, AskedQuestions, BackendOrder
  <2> QED BY <1>2, <2>1
<1> QED BY <1>1, <1>3, SMTT(60)

(* A reply that is not a fresh answer of status 200, or one that is sound. *)
LEMMA ReplyKeeps ==
  ASSUME ApiInv, NEW r \in Requests,
         UNCHANGED <<fixtures, apiSnaps, apiChecks, asked, began>>,
         NEW status \in {200, 404, 500}, NEW source, NEW values,
         Api!Reply(r, status, source, values),
         source = "fresh" /\ status = 200 =>
           /\ QueriesOf(asked[r]) \subseteq DOMAIN values
           /\ Sound(values, asked[r], began[r], apiChecks, fixtures)
  PROVE  RequestsOK' /\ TablesOK'
<1>1. Each(apiPc) /\ Each(got) /\ Each(answer) /\ Each(began) /\ Requests' = Requests
  BY DEF ApiInv, RequestsOK, Requests
<1>2. /\ apiPc'[r] = "replied" /\ answer'[r].status = status
      /\ answer'[r].source = source /\ answer'[r].values = values
  BY <1>1 DEF Api!Reply, Each
<1>3. OthersWait(r)
  BY <1>1 DEF Api!Reply, Each, OthersWait
<1>4. began'[r] = began[r] /\ began[r] \in 0 .. Len(apiChecks)
  BY DEF ApiInv, RequestsOK, RequestOK
<1>5. RequestOK(apiPc'[r], got'[r], answer'[r], began'[r], asked[r], apiChecks, fixtures)
  BY <1>2, <1>4 DEF RequestOK
<1> QED BY <1>3, <1>5, OneRequest

LEMMA FailureKeeps ==
  ASSUME ApiInv, NEW r \in Requests, Api!Failure(r)
  PROVE  ApiInv'
<1>1. PICK status \in {200, 404, 500} : status = Api!Route(r).error
  BY AskedQuestions, RouteFacts DEF ApiInv, Api!Route, RouteOf
<1>2. /\ Api!Reply(r, status, "failure", <<>>) /\ cache' = cache
      /\ UNCHANGED <<fixtures, apiSnaps, apiChecks, asked, began>>
  BY <1>1 DEF Api!Failure, Api!tables
<1>3. RequestsOK' /\ TablesOK'
  BY <1>2, ReplyKeeps
<1>4. CacheOK'
  BY <1>2 DEF ApiInv, CacheOK, Entry
<1> QED BY <1>3, <1>4 DEF ApiInv

(* The cache as it was.                                                    *)
LEMMA CacheKeeps == CacheOK /\ UNCHANGED <<cache, apiChecks>> => CacheOK'
BY DEF CacheOK, Entry

LEMMA AskKeeps ==
  ASSUME ApiInv, NEW r \in Requests, Api!Ask(r)
  PROVE  ApiInv'
<1>1. Each(apiPc) /\ Each(got) /\ Each(answer) /\ Each(began) /\ Requests' = Requests
  BY DEF ApiInv, RequestsOK, Requests, Api!Ask
<1>2. /\ UNCHANGED <<fixtures, apiSnaps, apiChecks, cache, asked>>
      /\ apiPc[r] = "new" /\ got'[r] = got[r] /\ answer'[r] = answer[r]
      /\ apiPc'[r] = (IF RouteOf(asked[r]).cached THEN "get" ELSE "query")
      /\ began'[r] = Len(apiChecks)
  BY <1>1 DEF Api!Ask, Api!tables, Api!Route, RouteOf, Each
<1>3. OthersWait(r)
  BY <1>1 DEF Api!Ask, Api!tables, OthersWait, Each
<1>4. RequestOK(apiPc[r], got[r], answer[r], began[r], asked[r], apiChecks, fixtures)
  BY DEF ApiInv, RequestsOK
<1>5. got[r] = <<>> /\ answer[r].status = 0
  BY <1>2, <1>4 DEF RequestOK
<1>6. began'[r] \in 0 .. Len(apiChecks)
  BY <1>2 DEF ApiInv, TablesOK, RowsOK
<1>7. DOMAIN got'[r] = {} /\ Sound(got'[r], asked[r], began'[r], apiChecks, fixtures)
  BY <1>2, <1>5, NothingIsSound
<1>8. RequestOK(apiPc'[r], got'[r], answer'[r], began'[r], asked[r], apiChecks, fixtures)
  <2>1. CASE RouteOf(asked[r]).cached
    BY <1>2, <1>5, <1>6, <2>1 DEF RequestOK
  <2>2. CASE ~RouteOf(asked[r]).cached
    BY <1>2, <1>5, <1>6, <1>7, <2>2 DEF RequestOK
  <2> QED BY <2>1, <2>2
<1>9. RequestsOK' /\ TablesOK'
  BY <1>3, <1>8, OneRequest
<1>10. CacheOK'
  BY <1>2, CacheKeeps DEF ApiInv
<1> QED BY <1>9, <1>10 DEF ApiInv

LEMMA HitKeeps ==
  ASSUME ApiInv, NEW r \in Requests, Api!Hit(r)
  PROVE  ApiInv'
<1>1. /\ Api!Reply(r, 200, "cache", cache[asked[r].kind].values)
      /\ UNCHANGED <<fixtures, apiSnaps, apiChecks, cache, asked, began>>
  BY DEF Api!Hit, Api!tables
<1>2. RequestsOK' /\ TablesOK'
  BY <1>1, ReplyKeeps
<1>3. CacheOK'
  BY <1>1, CacheKeeps DEF ApiInv
<1> QED BY <1>2, <1>3 DEF ApiInv

(* Redis does not help and the tables are asked.                           *)
LEMMA ToTablesKeeps ==
  ASSUME ApiInv, NEW r \in Requests, apiPc[r] = "get", apiPc' = [apiPc EXCEPT ![r] = "query"],
         UNCHANGED <<fixtures, apiSnaps, apiChecks, cache, asked, got, answer, began>>
  PROVE  ApiInv'
<1>1. Each(apiPc) /\ Each(got) /\ Each(answer) /\ Each(began) /\ Requests' = Requests
  BY DEF ApiInv, RequestsOK, Requests
<1>2. OthersWait(r) /\ apiPc'[r] = "query"
  BY <1>1 DEF OthersWait, Each
<1>3. RequestOK(apiPc[r], got[r], answer[r], began[r], asked[r], apiChecks, fixtures)
  BY DEF ApiInv, RequestsOK
<1>4. got[r] = <<>> /\ answer[r].status = 0
  BY <1>3 DEF RequestOK
<1>5. DOMAIN got[r] = {} /\ Sound(got[r], asked[r], began[r], apiChecks, fixtures)
  BY <1>4, NothingIsSound
<1>6. RequestOK(apiPc'[r], got'[r], answer'[r], began'[r], asked[r], apiChecks, fixtures)
  BY <1>2, <1>3, <1>4, <1>5 DEF RequestOK
<1>7. RequestsOK' /\ TablesOK'
  BY <1>2, <1>6, OneRequest
<1>8. CacheOK'
  BY CacheKeeps DEF ApiInv
<1> QED BY <1>7, <1>8 DEF ApiInv

LEMMA QueryKeeps ==
  ASSUME ApiInv, NEW r \in Requests, Api!Query(r)
  PROVE  ApiInv'
<1>1. Each(apiPc) /\ Each(got) /\ Each(answer) /\ Each(began) /\ Requests' = Requests
  BY DEF ApiInv, RequestsOK, Requests, Api!Query
<1>2. apiPc[r] = "query" /\ UNCHANGED <<fixtures, apiSnaps, apiChecks, cache, asked, began>>
  BY DEF Api!Query, Api!tables
<1>3. PICK q \in Api!Due(r) :
        LET value == Api!Value(q, asked[r]) IN
        IF asked[r].server = "backend" /\ q = "fixture" /\ ~value
          THEN Api!Reply(r, 404, "fresh", <<>>)
          ELSE /\ got' = [got EXCEPT ![r] =
                            [p \in DOMAIN @ \cup {q} |-> IF p = q THEN value ELSE @[p]]]
               /\ UNCHANGED <<apiPc, answer>>
  BY DEF Api!Query
<1>4. CacheOK'
  BY <1>2, CacheKeeps DEF ApiInv
<1>5. CASE Api!Reply(r, 404, "fresh", <<>>)
  BY <1>2, <1>4, <1>5, ReplyKeeps DEF ApiInv
<1>6. CASE /\ got' = [got EXCEPT ![r] = [p \in DOMAIN @ \cup {q} |->
                                        IF p = q THEN Api!Value(q, asked[r]) ELSE @[p]]]
           /\ UNCHANGED <<apiPc, answer>>
  <2>1. PICK x : x = Api!Value(q, asked[r])
    OBVIOUS
  <2>2. PICK g : g = got[r]
    OBVIOUS
  <2>3. PICK h : h = got'[r]
    OBVIOUS
  <2>4. DOMAIN h = DOMAIN g \cup {q} /\ h[q] = x /\ \A p \in DOMAIN g : h[p] = g[p]
    <3>1. h = [p \in DOMAIN g \cup {q} |-> IF p = q THEN x ELSE g[p]]
      BY <1>1, <1>6, <2>1, <2>2, <2>3 DEF Each
    <3>2. q \notin DOMAIN g
      BY <2>2, DueAfterEarlier DEF ApiInv
    <3> QED BY <3>1, <3>2
  <2>5. OthersWait(r) /\ apiPc'[r] = "query" /\ answer'[r] = answer[r] /\ began'[r] = began[r]
    BY <1>1, <1>2, <1>6 DEF OthersWait, Each
  <2>6. RequestOK("query", g, answer[r], began[r], asked[r], apiChecks, fixtures)
    BY <1>2, <2>2 DEF ApiInv, RequestsOK
  <2>7. /\ q \in QueriesOf(asked[r]) /\ q \notin DOMAIN g
        /\ asked[r].server = "backend" /\ q \in DOMAIN Earlier => Earlier[q] \in DOMAIN g
    BY <2>2, DueAfterEarlier DEF ApiInv
  <2>8. asked[r] \in Questions /\ RowsOK(apiChecks, fixtures)
    BY AskedQuestions DEF ApiInv, TablesOK
  <2>9. ValueFits(q, x, asked[r], apiChecks, fixtures)
    BY <2>1, <2>8, ValuesFit DEF ApiInv
  <2>10. DOMAIN g \subseteq QueriesOf(asked[r]) /\ began[r] \in 0 .. Len(apiChecks)
         /\ Sound(g, asked[r], began[r], apiChecks, fixtures)
    BY <2>6 DEF RequestOK
  <2>11. Sound(h, asked[r], began[r], apiChecks, fixtures)
    <3>1. PICK a \in Questions : a = asked[r]
      BY <2>8
    <3>2. PICK b : b = began[r]
      OBVIOUS
    <3>3. /\ b \in 0 .. Len(apiChecks) /\ Sound(g, a, b, apiChecks, fixtures)
          /\ a.server = "backend" /\ q \in DOMAIN Earlier => Earlier[q] \in DOMAIN g
          /\ q \notin DOMAIN g /\ ValueFits(q, x, a, apiChecks, fixtures)
      BY <2>7, <2>9, <2>10, <3>1, <3>2
    <3>4. Sound(h, a, b, apiChecks, fixtures)
      BY <2>4, <2>8, <3>3, QueryAdds
    <3> QED BY <3>1, <3>2, <3>4
  <2>12. DOMAIN h \subseteq QueriesOf(asked[r])
    BY <2>4, <2>7, <2>10
  <2>13. RequestOK("query", h, answer[r], began[r], asked[r], apiChecks, fixtures)
    BY <2>6, <2>11, <2>12 DEF RequestOK
  <2>14. RequestsOK' /\ TablesOK'
    BY <2>3, <2>5, <2>13, OneRequest
  <2> QED BY <1>4, <2>14 DEF ApiInv
<1> QED BY <1>3, <1>5, <1>6

(* All its queries have answered, and the answer goes out.                 *)
LEMMA AnswersAreSound ==
  ASSUME ApiInv, NEW r \in Requests, Api!AllRead(r)
  PROVE  /\ QueriesOf(asked[r]) = DOMAIN got[r]
         /\ Sound(got[r], asked[r], began[r], apiChecks, fixtures)
<1>1. RequestOK("query", got[r], answer[r], began[r], asked[r], apiChecks, fixtures)
  BY DEF ApiInv, RequestsOK, Api!AllRead
<1>2. QueriesOf(asked[r]) \subseteq DOMAIN got[r]
  BY DEF Api!AllRead, Api!Queries, Api!Batch, Api!Route, QueriesOf, RouteOf
<1> QED BY <1>1, <1>2, ZenonT(60) DEF RequestOK

LEMMA ComputeKeeps ==
  ASSUME ApiInv, NEW r \in Requests, Api!Compute(r)
  PROVE  ApiInv'
<1>1. /\ Api!Reply(r, 404, "fresh", <<>>) \/ Api!Reply(r, 200, "fresh", got[r])
      /\ UNCHANGED <<fixtures, apiSnaps, apiChecks, cache, asked, began>>
  BY DEF Api!Compute, Api!tables
<1>2. /\ QueriesOf(asked[r]) = DOMAIN got[r]
      /\ Sound(got[r], asked[r], began[r], apiChecks, fixtures)
  BY AnswersAreSound DEF Api!Compute
<1>3. RequestsOK' /\ TablesOK'
  BY <1>1, <1>2, ReplyKeeps
<1>4. CacheOK'
  BY <1>1, CacheKeeps DEF ApiInv
<1> QED BY <1>3, <1>4 DEF ApiInv

LEMMA SetCacheKeeps ==
  ASSUME ApiInv, NEW r \in Requests, Api!SetCache(r)
  PROVE  ApiInv'
<1>1. /\ Api!Reply(r, 200, "fresh", got[r]) /\ Api!AllRead(r) /\ RouteOf(asked[r]).cached
      /\ UNCHANGED <<fixtures, apiSnaps, apiChecks, asked, began>>
  BY DEF Api!SetCache, Api!tables, Api!Route, RouteOf
<1>2. /\ QueriesOf(asked[r]) = DOMAIN got[r]
      /\ Sound(got[r], asked[r], began[r], apiChecks, fixtures)
  BY <1>1, AnswersAreSound
<1>3. RequestsOK' /\ TablesOK'
  BY <1>1, <1>2, ReplyKeeps
<1>4. PICK k : k = asked[r].kind
  OBVIOUS
<1>5. /\ k \in Api!Cached /\ DOMAIN got[r] = Api!Routes["web"][k].batches[1]
      /\ "total" \in DOMAIN got[r]
  <2>1. k \in Api!Cached /\ QueriesOf(asked[r]) = Api!Routes["web"][k].batches[1]
    BY <1>1, <1>4, AskedQuestions, RouteFacts DEF ApiInv
  <2>2. "total" \in Api!Routes["web"][k].batches[1]
    BY <2>1 DEF Api!Cached, Api!Routes, Api!Web, Api!WebOverview, Api!WebHealth
  <2> QED BY <1>2, <2>1, <2>2
<1>6. got[r]["total"] \in 0 .. Len(apiChecks)
  <2>1. got[r]["total"] \in began[r] .. Len(apiChecks)
    BY <1>2, <1>5 DEF Sound, Solid
  <2>2. began[r] \in 0 .. Len(apiChecks) /\ Len(apiChecks) \in Nat
    BY DEF ApiInv, RequestsOK, RequestOK, TablesOK, RowsOK
  <2> QED BY <2>1, <2>2
<1>7. /\ DOMAIN cache = Api!Cached /\ DOMAIN cache' = Api!Cached
      /\ cache'[k].values = got[r] /\ \A l \in Api!Cached \ {k} : cache'[l] = cache[l]
  BY <1>4, <1>5 DEF ApiInv, CacheOK, Api!SetCache
<1>8. CacheOK'
  BY <1>1, <1>5, <1>6, <1>7 DEF ApiInv, CacheOK, Entry
<1> QED BY <1>3, <1>8 DEF ApiInv

LEMMA SetFailsKeeps ==
  ASSUME ApiInv, NEW r \in Requests, Api!SetFails(r)
  PROVE  ApiInv'
<1>1. CASE Api!Failure(r)
  BY <1>1, FailureKeeps
<1>2. CASE ~Api!Failure(r)
  <2>1. /\ Api!Reply(r, 200, "fresh", got[r]) /\ Api!AllRead(r)
        /\ UNCHANGED <<fixtures, apiSnaps, apiChecks, cache, asked, began>>
    BY <1>2 DEF Api!SetFails, Api!tables
  <2>2. /\ QueriesOf(asked[r]) = DOMAIN got[r]
        /\ Sound(got[r], asked[r], began[r], apiChecks, fixtures)
    BY <2>1, AnswersAreSound
  <2>3. RequestsOK' /\ TablesOK'
    BY <2>1, <2>2, ReplyKeeps
  <2>4. CacheOK'
    BY <2>1, CacheKeeps DEF ApiInv
  <2> QED BY <2>3, <2>4 DEF ApiInv
<1> QED BY <1>1, <1>2

LEMMA HandleKeeps ==
  ASSUME ApiInv, NEW r \in Requests, Api!Handle(r)
  PROVE  ApiInv'
<1>1. ASSUME Api!Miss(r) PROVE ApiInv'
  BY <1>1, ToTablesKeeps DEF Api!Miss, Api!tables
<1>2. ASSUME Api!GetFails(r) PROVE ApiInv'
  BY <1>2, ToTablesKeeps, FailureKeeps DEF Api!GetFails, Api!tables
<1>3. ASSUME Api!QueryFails(r) PROVE ApiInv'
  BY <1>3, FailureKeeps DEF Api!QueryFails
<1> QED BY <1>1, <1>2, <1>3, AskKeeps, HitKeeps, QueryKeeps, ComputeKeeps, SetCacheKeeps, SetFailsKeeps
        DEF Api!Handle

(* The key's time is over.                                                 *)
LEMMA ExpireKeeps ==
  ASSUME ApiInv, NEW k \in Api!Cached, Api!Expire(k)
  PROVE  ApiInv'
<1>1. UNCHANGED <<fixtures, apiSnaps, apiChecks, asked, apiPc, got, answer, began>>
  BY DEF Api!Expire, Api!tables
<1>2. RequestsOK' /\ TablesOK'
  BY <1>1 DEF ApiInv, RequestsOK, TablesOK, Requests, Each
<1>3. CacheOK'
  BY <1>1 DEF ApiInv, CacheOK, Entry, Api!Expire
<1> QED BY <1>2, <1>3 DEF ApiInv

-----------------------------------------------------------------------------
(* A row is inserted while requests are under way.                         *)
LEMMA TablesGrow ==
  ASSUME ApiInv, TablesOK', UNCHANGED <<cache, asked, apiPc, got, answer, began>>,
         fixtures \subseteq fixtures', Len(apiChecks) <= Len(apiChecks'),
         \A i \in DOMAIN apiChecks : apiChecks'[i] = apiChecks[i]
  PROVE  ApiInv'
<1>1. PICK ds : ds = apiChecks'
  OBVIOUS
<1>2. PICK fy : fy = fixtures'
  OBVIOUS
<1>3. Grown(apiChecks, fixtures, ds, fy)
  BY <1>1, <1>2 DEF Grown, ApiInv, TablesOK
<1>4. \A r \in Requests :
        RequestOK(apiPc[r], got[r], answer[r], began[r], asked[r], ds, fy)
  BY <1>3, RequestKeeps DEF ApiInv, RequestsOK
<1>5. RequestsOK'
  BY <1>1, <1>2, <1>4 DEF ApiInv, RequestsOK, Requests, Each
<1>6. CacheOK'
  <2>1. Len(apiChecks) \in Nat /\ Len(apiChecks') \in Nat
    BY DEF ApiInv, TablesOK, RowsOK
  <2> QED BY <2>1 DEF ApiInv, CacheOK, Entry
<1> QED BY <1>5, <1>6 DEF ApiInv

LEMMA InsertFixtureKeeps ==
  ASSUME ApiInv, NEW f \in Fixtures, Api!InsertFixture(f)
  PROVE  ApiInv'
<1>1. /\ fixtures' = fixtures \cup {f}
      /\ UNCHANGED <<apiSnaps, apiChecks, cache, asked, apiPc, got, answer, began>>
  BY DEF Api!InsertFixture
<1>2. TablesOK'
  BY <1>1 DEF ApiInv, TablesOK, RowsOK, PlacesOf
<1>3. Len(apiChecks) \in Nat
  BY DEF ApiInv, TablesOK, RowsOK
<1> QED BY <1>1, <1>2, <1>3, TablesGrow

LEMMA InsertSnapshotKeeps ==
  ASSUME ApiInv, NEW f \in Fixtures, Api!InsertSnapshot(f)
  PROVE  ApiInv'
<1>1. /\ f \in fixtures /\ apiSnaps' = [apiSnaps EXCEPT ![f] = @ + 1]
      /\ UNCHANGED <<fixtures, apiChecks, cache, asked, apiPc, got, answer, began>>
  BY DEF Api!InsertSnapshot
<1>2. /\ apiSnaps \in [Fixtures -> Nat]
      /\ \A g \in Fixtures : /\ PlacesOf(g, apiChecks) # {} => apiSnaps[g] > 0
                             /\ apiSnaps[g] > 0 => g \in fixtures
      /\ RowsOK(apiChecks, fixtures)
  BY DEF ApiInv, TablesOK
<1>3. apiSnaps'[f] = apiSnaps[f] + 1 /\ \A g \in Fixtures \ {f} : apiSnaps'[g] = apiSnaps[g]
  BY <1>1, <1>2
<1>4. apiSnaps' \in [Fixtures -> Nat] /\ apiSnaps'[f] > 0
  BY <1>1, <1>2, <1>3
<1>5. ASSUME NEW g \in Fixtures
      PROVE  /\ PlacesOf(g, apiChecks) # {} => apiSnaps'[g] > 0
             /\ apiSnaps'[g] > 0 => g \in fixtures
  BY <1>1, <1>2, <1>3, <1>4
<1>6. TablesOK'
  BY <1>1, <1>2, <1>4, <1>5 DEF TablesOK
<1>7. Len(apiChecks) \in Nat
  BY <1>2 DEF RowsOK
<1> QED BY <1>1, <1>6, <1>7, TablesGrow

LEMMA InsertCheckKeeps ==
  ASSUME ApiInv, NEW f \in Fixtures, NEW c \in BOOLEAN, Api!InsertCheck(f, c)
  PROVE  ApiInv'
<1>1. PICK row \in CheckRows : row = [fixture |-> f, consistent |-> c]
  BY DEF CheckRows
<1>2. /\ apiSnaps[f] > 0 /\ Len(apiChecks) < MaxChecks
      /\ apiChecks' = Append(apiChecks, row)
      /\ UNCHANGED <<fixtures, apiSnaps, cache, asked, apiPc, got, answer, began>>
  BY <1>1 DEF Api!InsertCheck
<1>3. PICK cs : cs = apiChecks
  OBVIOUS
<1>4. PICK ds : ds = apiChecks'
  OBVIOUS
<1>5. PICK n \in Nat : n = Len(cs)
  BY <1>3 DEF ApiInv, TablesOK, RowsOK
<1>6. cs \in Seq(CheckRows) /\ DOMAIN cs = 1 .. n
  BY <1>3, <1>5 DEF ApiInv, TablesOK, RowsOK
<1>7. /\ ds \in Seq(CheckRows) /\ Len(ds) = n + 1 /\ DOMAIN ds = 1 .. n + 1
      /\ ds[n + 1] = row /\ \A i \in 1 .. n : ds[i] = cs[i]
  BY <1>2, <1>3, <1>4, <1>5, <1>6
<1>8. row.fixture = f
  BY <1>1
<1>9. \A g \in Fixtures \ {f} : PlacesOf(g, ds) = PlacesOf(g, cs)
  <2>1. n + 1 \notin DOMAIN cs /\ DOMAIN ds = DOMAIN cs \cup {n + 1}
    BY <1>6, <1>7
  <2>2. \A i \in DOMAIN cs : ds[i] = cs[i]
    BY <1>6, <1>7
  <2> QED BY <1>7, <1>8, <2>1, <2>2 DEF PlacesOf
<1>10. /\ apiSnaps \in [Fixtures -> Nat]
       /\ \A g \in Fixtures : /\ PlacesOf(g, cs) # {} => apiSnaps[g] > 0
                              /\ apiSnaps[g] > 0 => g \in fixtures
       /\ RowsOK(cs, fixtures)
  BY <1>3 DEF ApiInv, TablesOK
<1>11. f \in fixtures
  BY <1>2, <1>10
<1>12. RowsOK(ds, fixtures)
  <2>1. fixtures \in SUBSET Fixtures /\ n < MaxChecks /\ \A i \in DOMAIN cs : cs[i].fixture \in fixtures
    BY <1>2, <1>3, <1>5, <1>10 DEF RowsOK
  <2>2. n + 1 <= MaxChecks
    BY <2>1, ApiAssumption
  <2>3. \A i \in DOMAIN ds : ds[i].fixture \in fixtures
    BY <1>6, <1>7, <1>8, <1>11, <2>1
  <2> QED BY <1>7, <2>1, <2>2, <2>3 DEF RowsOK
<1>13. \A g \in Fixtures : /\ PlacesOf(g, ds) # {} => apiSnaps[g] > 0
                           /\ apiSnaps[g] > 0 => g \in fixtures
  BY <1>2, <1>9, <1>10
<1>14. TablesOK'
  <2>1. fixtures' = fixtures /\ apiSnaps' = apiSnaps /\ apiChecks' = ds
    BY <1>2, <1>4
  <2>2. RowsOK(apiChecks', fixtures') /\ apiSnaps' \in [Fixtures -> Nat]
    BY <1>10, <1>12, <2>1
  <2>3. RowsOK(apiChecks, fixtures)'
    BY <2>2 DEF RowsOK
  <2>4. ASSUME NEW g \in Fixtures
        PROVE  (/\ PlacesOf(g, apiChecks) # {} => apiSnaps[g] > 0
                /\ apiSnaps[g] > 0 => g \in fixtures)'
    <3>1. PlacesOf(g, apiChecks)' = PlacesOf(g, ds)
      BY <2>1 DEF PlacesOf
    <3> QED BY <1>13, <2>1, <3>1
  <2> QED BY <2>2, <2>3, <2>4 DEF TablesOK
<1>15. Len(apiChecks) <= Len(apiChecks') /\ \A i \in DOMAIN apiChecks : apiChecks'[i] = apiChecks[i]
  BY <1>3, <1>4, <1>5, <1>6, <1>7
<1> QED BY <1>2, <1>14, <1>15, TablesGrow

LEMMA ApiKeeps == ApiInv /\ [Api!Next]_apiVars => ApiInv'
<1> SUFFICES ASSUME ApiInv, [Api!Next]_apiVars PROVE ApiInv'
  OBVIOUS
<1>1. CASE UNCHANGED apiVars
  BY <1>1 DEF apiVars, ApiInv, TablesOK, RequestsOK, CacheOK, Requests, Each, Entry
<1>2. CASE Api!Next
  BY <1>2, InsertFixtureKeeps, InsertSnapshotKeeps, InsertCheckKeeps, HandleKeeps, ExpireKeeps
     DEF Api!Next, Api!Asked, Requests
<1> QED BY <1>1, <1>2

-----------------------------------------------------------------------------
(* What the invariant says of the answers.                                 *)
LEMMA ApiTyped == ApiInv => Api!TypeOK
<1> SUFFICES ASSUME ApiInv PROVE Api!TypeOK
  OBVIOUS
<1>1. fixtures \subseteq Fixtures /\ Len(apiChecks) <= MaxChecks
  BY DEF ApiInv, TablesOK, RowsOK
<1>2. apiChecks \in Seq([fixture : fixtures, consistent : BOOLEAN])
  <2>1. /\ apiChecks \in Seq(CheckRows) /\ Len(apiChecks) \in Nat
        /\ DOMAIN apiChecks = 1 .. Len(apiChecks)
        /\ \A i \in DOMAIN apiChecks : apiChecks[i].fixture \in fixtures
    BY DEF ApiInv, TablesOK, RowsOK
  <2>2. \A i \in 1 .. Len(apiChecks) : apiChecks[i] \in CheckRows
    BY <2>1
  <2>3. PICK S : S = [fixture : fixtures, consistent : BOOLEAN]
    OBVIOUS
  <2>4. \A i \in 1 .. Len(apiChecks) : apiChecks[i] \in S
    BY <2>1, <2>2, <2>3 DEF CheckRows
  <2>5. apiChecks \in Seq(S)
    BY <2>1, <2>4
  <2> QED BY <2>3, <2>5
<1>3. \A f \in Fixtures : apiSnaps[f] \in Nat /\ (Api!ChecksOf(f) # {} => apiSnaps[f] > 0)
  BY DEF ApiInv, TablesOK, PlacesOf, Api!ChecksOf
<1>4. \A r \in Requests :
        /\ apiPc[r] \in {"new", "get", "query", "replied"} /\ answer[r].status \in {0, 200, 404, 500}
        /\ (apiPc[r] = "replied" <=> answer[r].status # 0)
  BY DEF ApiInv, RequestsOK, RequestOK
<1>5. apiPc \in [Requests -> {"new", "get", "query", "replied"}]
  BY <1>4 DEF ApiInv, RequestsOK, Each
<1> QED BY <1>1, <1>2, <1>3, <1>4, <1>5 DEF Api!TypeOK, Api!Asked, Requests

LEMMA ApiCaches == ApiInv => OnlyWholeAnswersCached
<1> SUFFICES ASSUME ApiInv, NEW k \in Api!Cached, cache[k] # Api!NoAnswer
             PROVE  /\ DOMAIN cache[k].values = Api!Routes["web"][k].batches[1]
                    /\ cache[k].values["total"] <= Len(apiChecks)
  BY DEF OnlyWholeAnswersCached, Api!OnlyWholeAnswersCached
<1> QED BY DEF ApiInv, CacheOK, Entry, TablesOK, RowsOK

LEMMA ApiCoheres == ApiInv => AnswersCohere
<1> SUFFICES ASSUME ApiInv, NEW r \in Requests, Api!Fresh(r)
             PROVE  LET v == answer[r].values
                        meanwhile == Len(apiChecks) - began[r]
                        kind == asked[r].kind
                    IN /\ kind = "overview" => v["flagged"] <= v["total"] + meanwhile
                       /\ kind = "health" => v["consistent"] <= v["total"] + meanwhile
                       /\ asked[r].server = "backend" =>
                            /\ kind = "overview" /\ v["total"] > 0 => v["last"]
                            /\ kind = "oracle" /\ v["latest"] = FALSE => v["flaggedOf"] > 0
                            /\ kind = "match" /\ v["checksOf"] > 0 => v["snapsOf"] > 0
                            /\ kind = "list" /\ asked[r].filter # "consistent" => v["rows"] <= v["count"]
  BY DEF AnswersCohere, Api!AnswersCohere, Api!Asked, Requests
<1>1. PICK a \in Questions : a = asked[r]
  BY AskedQuestions DEF ApiInv
<1>2. PICK v : v = answer[r].values
  OBVIOUS
<1>3. PICK b : b = began[r]
  OBVIOUS
<1>4. RequestOK(apiPc[r], got[r], answer[r], b, a, apiChecks, fixtures)
  BY <1>1, <1>3 DEF ApiInv, RequestsOK
<1>5. QueriesOf(a) \subseteq DOMAIN v /\ Sound(v, a, b, apiChecks, fixtures)
  BY <1>2, <1>4 DEF RequestOK, Api!Fresh
<1>6. Solid(v, a, b, apiChecks, fixtures) /\ (a.server = "backend" => InOrder(v, a))
  BY <1>5 DEF Sound
<1>7. Len(apiChecks) \in Nat
  BY DEF ApiInv, TablesOK, RowsOK
<1>8. /\ a.kind = "overview" => {"total", "flagged", "last"} \subseteq DOMAIN v
      /\ a.kind = "health" => {"total", "consistent"} \subseteq DOMAIN v
  <2>1. a.kind \in Api!Cached => Api!Routes["web"][a.kind].batches[1] \subseteq DOMAIN v
    BY <1>5, RouteFacts
  <2> QED BY <2>1 DEF Api!Cached, Api!Routes, Api!Web, Api!WebOverview, Api!WebHealth
<1>9. b \in Nat /\ b <= Len(apiChecks)
  BY <1>4, <1>7 DEF RequestOK
<1>10. /\ a.kind = "overview" => v["flagged"] <= v["total"] + (Len(apiChecks) - b)
       /\ a.kind = "health" => v["consistent"] <= v["total"] + (Len(apiChecks) - b)
  BY <1>6, <1>7, <1>8, <1>9 DEF Solid
<1>11. ASSUME a.server = "backend"
       PROVE  /\ a.kind = "overview" /\ v["total"] > 0 => v["last"]
              /\ a.kind = "oracle" /\ v["latest"] = FALSE => v["flaggedOf"] > 0
              /\ a.kind = "match" /\ v["checksOf"] > 0 => v["snapsOf"] > 0
              /\ a.kind = "list" /\ a.filter # "consistent" => v["rows"] <= v["count"]
  <2>1. /\ a.kind = "oracle" => "flaggedOf" \in QueriesOf(a)
        /\ a.kind = "match" => "snapsOf" \in QueriesOf(a)
        /\ a.kind = "list" => "count" \in QueriesOf(a)
    <3>1. a.kind = "oracle" => RouteOf(a).batches = <<{"fixture"}, {"latest"}, {"flaggedOf"}>>
      BY <1>11 DEF RouteOf, Api!Routes, Api!Backend, Api!BackendOracle
    <3>2. a.kind = "match" => RouteOf(a).batches = <<{"fixture"}, {"checksOf"}, {"snapsOf"}>>
      BY <1>11 DEF RouteOf, Api!Routes, Api!Backend, Api!BackendMatch
    <3>3. a.kind = "list" => RouteOf(a).batches = <<{"rows"}, {"count"}>>
      BY <1>11 DEF RouteOf, Api!Routes, Api!Backend, Api!BackendList
    <3>4. QueriesOf(a) = Whole(RouteOf(a).batches)
      BY DEF QueriesOf, Whole
    <3> QED BY <3>1, <3>2, <3>3, <3>4, WholeBatches, SMTT(60)
  <2> QED BY <1>5, <1>6, <1>8, <1>11, <2>1 DEF InOrder
<1> QED BY <1>1, <1>2, <1>3, <1>10, <1>11

-----------------------------------------------------------------------------
(* The proof feed.                                                         *)
FeedTimes == 0 .. FeedTime
Entries   == [id : {"row", "check"} \X Nat, at : FeedTimes]
FeedPages == [entries : Seq(Entries), hasMore : BOOLEAN]
Asking    == [kind : {"first", "more"}, page : FeedPages \cup {None}]

FeedTypes ==
  /\ feedNow \in FeedTimes /\ rows \in Seq(FeedTimes) /\ Len(rows) <= MaxRows
  /\ published \in 0 .. MaxLive /\ subscribed \in BOOLEAN /\ socket \in {"closed", "open"}
  /\ wire \in Seq(Entries) /\ (wire # <<>> => socket = "open")
  /\ entries \in Seq(Entries) /\ loading \in BOOLEAN
  /\ cursor \in FeedTimes \cup {None} /\ hasMore \in BOOLEAN
  /\ request \in Asking \cup {Feed!NoRequest}
  /\ (loading <=> request.kind # "none")
  /\ failures \in Nat
  /\ present \subseteq DOMAIN rows /\ brought \subseteq DOMAIN rows

(* The rows a page lists.                                                  *)
Ids(page) == {page.entries[i].id[2] : i \in DOMAIN page.entries}

(* The rows there were at the first page that are older than c are on the  *)
(* page; if there is more, those newer than its last entry are.            *)
Covers(page, c, rs, pr) ==
  \A i \in pr : (c = None \/ rs[i] < c) =>
    \/ i \in Ids(page)
    \/ page.hasMore /\ page.entries # <<>> /\ rs[i] <= page.entries[Len(page.entries)].at

(* What an answer on its way holds.                                        *)
AnswerOK ==
  request.kind # "none" /\ request.page # None =>
    /\ Ids(request.page) \subseteq DOMAIN rows
    /\ failures = 0 => Covers(request.page, cursor, rows, present)
    /\ request.page.hasMore => Len(request.page.entries) = PageSize

(* The rows there were at the first page and what pages have brought.      *)
Fetched(i) == i \in brought \/ rows[i] \in cuts

Fetching ==
  failures = 0 =>
    /\ cursor # None => \A i \in present : rows[i] >= cursor => Fetched(i)
    /\ ~loading /\ ~hasMore => \A i \in present : Fetched(i)

(* While there is more, or more is asked for, the shown entries are full.  *)
Filled == hasMore \/ request.kind = "more" => Len(entries) >= PageSize

FirstHasNoCursor == request.kind = "first" => cursor = None

FeedInv == FeedTypes /\ AnswerOK /\ Fetching /\ Filled /\ FirstHasNoCursor

(* Rows are logged at times that can be compared.                          *)
LEMMA RowTimes == FeedTypes => \A i \in DOMAIN rows : rows[i] \in FeedTimes /\ rows[i] \in Int
<1> SUFFICES ASSUME FeedTypes, NEW i \in DOMAIN rows PROVE rows[i] \in FeedTimes /\ rows[i] \in Int
  OBVIOUS
<1>1. rows \in Seq(FeedTimes)
  BY DEF FeedTypes
<1>2. rows[i] \in FeedTimes
  BY <1>1
<1> QED BY <1>2 DEF FeedTimes

(* What the route may answer: rows that are there, without a gap among     *)
(* those older than the cursor, and a full page when there is more.        *)
LEMMA AnswerCovers ==
  ASSUME FeedTypes, NEW page \in Feed!Pages(cursor), NEW S \in SUBSET DOMAIN rows
  PROVE  /\ page \in FeedPages
         /\ Ids(page) \subseteq DOMAIN rows
         /\ Covers(page, cursor, rows, S)
         /\ page.hasMore => Len(page.entries) = PageSize
<1> DEFINE older == Feed!OlderThan(cursor)
<1>1. PICK ids \in Feed!Newest(cursor) :
        page = Feed!PageOf(ids, older \ Feed!Range(ids) # {})
  BY DEF Feed!Pages
<1>2. PICK n \in 0 .. PageSize : ids \in [1 .. n -> older]
  BY <1>1 DEF Feed!Newest
<1>3. n \in Nat /\ DOMAIN ids = 1 .. n /\ Len(ids) = n /\ older \subseteq DOMAIN rows
  BY <1>2, FeedAssumption DEF Feed!OlderThan
<1>4. /\ \A i \in 1 .. n, j \in older \ Feed!Range(ids) : rows[ids[i]] >= rows[j]
      /\ n < PageSize => older \subseteq Feed!Range(ids)
  BY <1>1, <1>3 DEF Feed!Newest
<1> HIDE DEF older
<1>5. /\ page.entries = [i \in 1 .. n |-> Feed!RowEntry(ids[i])]
      /\ page.hasMore = (older \ Feed!Range(ids) # {})
      /\ page = [entries |-> page.entries, hasMore |-> page.hasMore]
  BY <1>1, <1>3 DEF Feed!PageOf
<1>6. ASSUME NEW i \in 1 .. n
      PROVE  /\ page.entries[i] \in Entries /\ page.entries[i].id[2] = ids[i]
             /\ page.entries[i].at = rows[ids[i]] /\ ids[i] \in DOMAIN rows
  <2>1. ids[i] \in DOMAIN rows
    BY <1>2, <1>3
  <2>2. rows[ids[i]] \in FeedTimes /\ ids[i] \in Nat
    BY <2>1 DEF FeedTypes
  <2>3. page.entries[i] = [id |-> <<"row", ids[i]>>, at |-> rows[ids[i]]]
    BY <1>5 DEF Feed!RowEntry
  <2> QED BY <2>1, <2>2, <2>3 DEF Entries
<1>7. page.entries \in Seq(Entries) /\ Len(page.entries) = n /\ DOMAIN page.entries = 1 .. n
  <2>1. page.entries \in [1 .. n -> Entries]
    BY <1>5, <1>6
  <2> QED BY <1>3, <2>1
<1>8. page \in FeedPages
  BY <1>5, <1>7 DEF FeedPages
<1>9. Ids(page) = {ids[i] : i \in 1 .. n} /\ Ids(page) \subseteq DOMAIN rows
  BY <1>6, <1>7 DEF Ids
<1>10. Ids(page) = Feed!Range(ids)
  BY <1>3, <1>9 DEF Feed!Range
<1>11. older \ Feed!Range(ids) # {} => n = PageSize
  BY <1>2, <1>4, FeedAssumption
<1>12. ASSUME NEW i \in S, cursor = None \/ rows[i] < cursor, i \notin Ids(page)
       PROVE  /\ page.hasMore /\ page.entries # <<>>
              /\ rows[i] <= page.entries[Len(page.entries)].at
  <2>1. i \in older \ Feed!Range(ids)
    BY <1>10, <1>12 DEF older, Feed!OlderThan
  <2>2. n = PageSize /\ n \in 1 .. n
    BY <1>11, <2>1, FeedAssumption
  <2>3. rows[ids[n]] >= rows[i]
    BY <1>4, <2>1, <2>2
  <2>4. rows[ids[n]] \in Int /\ rows[i] \in Int
    BY <1>6, <2>2, RowTimes
  <2>5. rows[i] <= page.entries[n].at
    BY <1>6, <2>2, <2>3, <2>4
  <2>6. page.entries # <<>>
    BY <1>7, <2>2
  <2>7. page.hasMore
    BY <1>5, <2>1
  <2> QED BY <1>7, <2>5, <2>6, <2>7
<1>13. Covers(page, cursor, rows, S)
  BY <1>12 DEF Covers
<1>14. page.hasMore => Len(page.entries) = PageSize
  BY <1>5, <1>7, <1>11
<1> QED BY <1>8, <1>9, <1>13, <1>14

-----------------------------------------------------------------------------
LEMMA FeedInitially == Feed!Init => FeedInv
<1> SUFFICES ASSUME Feed!Init PROVE FeedInv
  OBVIOUS
<1>1. FeedTypes
  <2>1. <<>> \in Seq(FeedTimes) /\ <<>> \in Seq(Entries) /\ Len(<<>>) = 0
    OBVIOUS
  <2>2. 0 \in FeedTimes /\ 0 \in 0 .. MaxLive /\ MaxRows >= 0
    BY FeedAssumption DEF FeedTimes
  <2>3. [kind |-> "first", page |-> None] \in Asking
    BY DEF Asking
  <2> QED BY <2>1, <2>2, <2>3 DEF Feed!Init, FeedTypes
<1> QED BY <1>1 DEF Feed!Init, FeedInv, AnswerOK, Fetching, Filled, FirstHasNoCursor

(* The clock and the table.                                                *)
LEMMA FeedTickKeeps == FeedInv /\ Feed!Tick => FeedInv'
<1> SUFFICES ASSUME FeedInv, Feed!Tick PROVE FeedInv'
  OBVIOUS
<1>1. /\ feedNow' \in FeedTimes
      /\ UNCHANGED <<rows, published, subscribed, socket, wire, entries, loading, cursor, hasMore,
                     request, failures, present, brought, cuts>>
  BY FeedAssumption DEF FeedInv, FeedTypes, FeedTimes, Feed!Tick, Feed!liveVars, Feed!viewVars, Feed!history
<1> QED BY <1>1 DEF FeedInv, FeedTypes, AnswerOK, Fetching, Fetched, Filled, FirstHasNoCursor

LEMMA InsertRowKeeps ==
  ASSUME FeedInv, NEW when \in {feedNow, feedNow - 1} \cap Nat, Feed!InsertRow(when)
  PROVE  FeedInv'
<1>1. /\ Len(rows) < MaxRows /\ rows' = Append(rows, when)
      /\ UNCHANGED <<feedNow, published, subscribed, socket, wire, entries, loading, cursor, hasMore,
                     request, failures, present, brought, cuts>>
  BY DEF Feed!InsertRow, Feed!liveVars, Feed!viewVars, Feed!history
<1>2. when \in FeedTimes
  BY FeedAssumption DEF FeedInv, FeedTypes, FeedTimes
<1>3. /\ rows' \in Seq(FeedTimes) /\ Len(rows') <= MaxRows
      /\ DOMAIN rows \subseteq DOMAIN rows' /\ \A i \in DOMAIN rows : rows'[i] = rows[i]
  BY <1>1, <1>2, FeedAssumption DEF FeedInv, FeedTypes
<1>4. \A i \in present : rows'[i] = rows[i]
  BY <1>3 DEF FeedInv, FeedTypes
<1>5. FeedTypes'
  BY <1>1, <1>3 DEF FeedInv, FeedTypes
<1>6. AnswerOK'
  <2>1. Covers(request.page, cursor, rows, present) => Covers(request.page, cursor, rows', present)
    BY <1>4 DEF Covers
  <2> QED BY <1>1, <1>3, <2>1 DEF FeedInv, AnswerOK
<1>7. Fetching'
  BY <1>1, <1>4 DEF FeedInv, Fetching, Fetched
<1> QED BY <1>1, <1>5, <1>6, <1>7 DEF FeedInv, Filled, FirstHasNoCursor

(* The route answers, or fails.                                            *)
LEMMA ServeKeeps == FeedInv /\ Feed!Serve => FeedInv'
<1> SUFFICES ASSUME FeedInv, Feed!Serve PROVE FeedInv'
  OBVIOUS
<1>1. /\ request.kind # "none" /\ request.page = None
      /\ UNCHANGED <<feedNow, rows, published, subscribed, socket, wire, entries, loading, cursor,
                     hasMore, failures, brought, cuts>>
      /\ present' = IF request.kind = "first" THEN DOMAIN rows ELSE present
  BY DEF Feed!Serve, Feed!tableVars, Feed!liveVars
<1>2. PICK page \in Feed!Pages(cursor) : request' = [request EXCEPT !.page = page]
  BY DEF Feed!Serve
<1>3. request \in Asking
  BY <1>1 DEF FeedInv, FeedTypes, Feed!NoRequest
<1>4. present' \in SUBSET DOMAIN rows
  BY <1>1 DEF FeedInv, FeedTypes
<1>5. /\ page \in FeedPages /\ Ids(page) \subseteq DOMAIN rows /\ Covers(page, cursor, rows, present')
      /\ page.hasMore => Len(page.entries) = PageSize
  <2>1. PICK S : S = present'
    OBVIOUS
  <2>2. S \in SUBSET DOMAIN rows /\ FeedTypes
    BY <1>4, <2>1 DEF FeedInv
  <2> QED BY <2>1, <2>2, AnswerCovers
<1>6. request' \in Asking /\ request'.kind = request.kind /\ request'.page = page
  BY <1>2, <1>3, <1>5 DEF Asking
<1>7. FeedTypes'
  BY <1>1, <1>4, <1>6 DEF FeedInv, FeedTypes
<1>8. AnswerOK'
  BY <1>1, <1>5, <1>6 DEF AnswerOK
<1>9. Fetching'
  <2>1. loading
    BY <1>1 DEF FeedInv, FeedTypes
  <2>2. CASE request.kind = "first"
    BY <1>1, <2>1, <2>2 DEF FeedInv, Fetching, FirstHasNoCursor
  <2>3. CASE request.kind # "first"
    BY <1>1, <2>1, <2>3 DEF FeedInv, Fetching, Fetched
  <2> QED BY <2>2, <2>3
<1> QED BY <1>1, <1>6, <1>7, <1>8, <1>9 DEF FeedInv, Filled, FirstHasNoCursor

LEMMA FailKeeps == FeedInv /\ Feed!Fail => FeedInv'
<1> SUFFICES ASSUME FeedInv, Feed!Fail PROVE FeedInv'
  OBVIOUS
<1>1. /\ request.kind # "none" /\ request' = [request EXCEPT !.page = Feed!NoPage]
      /\ failures' = failures + 1
      /\ UNCHANGED <<feedNow, rows, published, subscribed, socket, wire, entries, loading, cursor,
                     hasMore, present, brought, cuts>>
  BY DEF Feed!Fail, Feed!tableVars, Feed!liveVars
<1>2. request \in Asking
  BY <1>1 DEF FeedInv, FeedTypes, Feed!NoRequest
<1>3. Feed!NoPage \in FeedPages /\ Ids(Feed!NoPage) = {} /\ ~Feed!NoPage.hasMore
  BY DEF Feed!NoPage, FeedPages, Ids
<1>4. request' \in Asking /\ request'.kind = request.kind /\ request'.page = Feed!NoPage
  BY <1>1, <1>2, <1>3 DEF Asking
<1>5. failures' \in Nat /\ failures' # 0
  BY <1>1 DEF FeedInv, FeedTypes
<1>6. FeedTypes'
  BY <1>1, <1>4, <1>5 DEF FeedInv, FeedTypes
<1>7. AnswerOK'
  BY <1>3, <1>4, <1>5 DEF AnswerOK
<1> QED BY <1>1, <1>4, <1>5, <1>6, <1>7 DEF FeedInv, Fetching, Filled, FirstHasNoCursor

(* The component.                                                          *)
LEMMA LoadMoreKeeps == FeedInv /\ Feed!LoadMore => FeedInv'
<1> SUFFICES ASSUME FeedInv, Feed!LoadMore PROVE FeedInv'
  OBVIOUS
<1>1. /\ hasMore /\ loading' = TRUE /\ request' = [kind |-> "more", page |-> None]
      /\ UNCHANGED <<feedNow, rows, published, subscribed, socket, wire, entries, cursor, hasMore,
                     failures, present, brought, cuts>>
  BY DEF Feed!LoadMore, Feed!tableVars, Feed!liveVars, Feed!history
<1>2. request' \in Asking /\ request'.kind = "more" /\ request'.page = None
  BY <1>1 DEF Asking
<1>3. FeedTypes'
  BY <1>1, <1>2 DEF FeedInv, FeedTypes
<1> QED BY <1>1, <1>2, <1>3 DEF FeedInv, AnswerOK, Fetching, Fetched, Filled, FirstHasNoCursor

(* What both arrivals have in common.                                      *)
LEMMA PageArrives ==
  ASSUME FeedInv, request.kind # "none", request.page # None
  PROVE  /\ request \in Asking /\ request.page \in FeedPages
         /\ request.page.entries \in Seq(Entries) /\ request.page.hasMore \in BOOLEAN
         /\ Len(request.page.entries) \in Nat
         /\ Ids(request.page) \subseteq DOMAIN rows
         /\ failures = 0 => Covers(request.page, cursor, rows, present)
         /\ request.page.hasMore => Len(request.page.entries) = PageSize
         /\ request.page.entries # <<>> =>
              /\ request.page.entries[Len(request.page.entries)] \in Entries
              /\ request.page.entries[Len(request.page.entries)].at \in FeedTimes
<1>1. request \in Asking
  BY DEF FeedInv, FeedTypes, Feed!NoRequest
<1>2. request.page \in FeedPages
  BY <1>1 DEF Asking
<1>3. request.page.entries \in Seq(Entries) /\ request.page.hasMore \in BOOLEAN
      /\ Len(request.page.entries) \in Nat
  BY <1>2 DEF FeedPages
<1>4. PICK es : es = request.page.entries
  OBVIOUS
<1>5. es # <<>> => es[Len(es)] \in Entries /\ es[Len(es)].at \in FeedTimes
  <2>1. es \in Seq(Entries)
    BY <1>3, <1>4
  <2>2. es # <<>> => Len(es) \in 1 .. Len(es)
    BY <2>1
  <2>3. es # <<>> => es[Len(es)] \in Entries
    BY <2>1, <2>2
  <2> QED BY <2>3 DEF Entries
<1> QED BY <1>1, <1>2, <1>3, <1>4, <1>5 DEF FeedInv, AnswerOK

LEMMA FirstArrivesKeeps == FeedInv /\ Feed!FirstArrives => FeedInv'
<1> SUFFICES ASSUME FeedInv, Feed!FirstArrives PROVE FeedInv'
  OBVIOUS
<1>1. /\ request.kind = "first" /\ request.page # None
      /\ entries' = request.page.entries /\ hasMore' = request.page.hasMore
      /\ loading' = FALSE /\ request' = Feed!NoRequest
      /\ brought' = brought \cup Ids(request.page)
      /\ UNCHANGED <<feedNow, rows, published, subscribed, socket, wire, cursor, failures, present>>
      /\ cuts' = IF request.page.entries = <<>> THEN cuts
                 ELSE cuts \cup {request.page.entries[Len(request.page.entries)].at}
  BY DEF Feed!FirstArrives, Feed!Brings, Feed!tableVars, Feed!liveVars, Feed!Last, Ids
<1>2. /\ request.page.entries \in Seq(Entries) /\ request.page.hasMore \in BOOLEAN
      /\ Ids(request.page) \subseteq DOMAIN rows
      /\ failures = 0 => Covers(request.page, cursor, rows, present)
      /\ request.page.hasMore => Len(request.page.entries) = PageSize
  BY <1>1, PageArrives
<1>3. request'.kind = "none"
  BY <1>1 DEF Feed!NoRequest
<1>4. FeedTypes'
  BY <1>1, <1>2, <1>3 DEF FeedInv, FeedTypes
<1>5. Fetching'
  <2>1. cursor = None
    BY <1>1 DEF FeedInv, FirstHasNoCursor
  <2>2. ASSUME failures = 0, ~request.page.hasMore, NEW i \in present PROVE i \in brought'
    BY <1>1, <1>2, <2>1, <2>2 DEF Covers
  <2> QED BY <1>1, <2>1, <2>2 DEF Fetching, Fetched
<1>6. Filled'
  BY <1>1, <1>2, <1>3, FeedAssumption DEF Filled
<1> QED BY <1>3, <1>4, <1>5, <1>6 DEF FeedInv, AnswerOK, FirstHasNoCursor

LEMMA MoreArrivesKeeps == FeedInv /\ Feed!MoreArrives => FeedInv'
<1> SUFFICES ASSUME FeedInv, Feed!MoreArrives PROVE FeedInv'
  OBVIOUS
<1> DEFINE es == request.page.entries
<1>1. /\ request.kind = "more" /\ request.page # None
      /\ entries' = entries \o es /\ hasMore' = request.page.hasMore
      /\ cursor' = IF es = <<>> THEN cursor ELSE es[Len(es)].at
      /\ loading' = FALSE /\ request' = Feed!NoRequest
      /\ brought' = brought \cup Ids(request.page)
      /\ UNCHANGED <<feedNow, rows, published, subscribed, socket, wire, failures, present>>
      /\ cuts' = IF es = <<>> THEN cuts ELSE cuts \cup {es[Len(es)].at}
  BY DEF Feed!MoreArrives, Feed!Brings, Feed!tableVars, Feed!liveVars, Feed!Last, Ids
<1>2. /\ es \in Seq(Entries) /\ request.page.hasMore \in BOOLEAN /\ Len(es) \in Nat
      /\ Ids(request.page) \subseteq DOMAIN rows
      /\ failures = 0 => Covers(request.page, cursor, rows, present)
      /\ es # <<>> => es[Len(es)].at \in FeedTimes
  BY <1>1, PageArrives
<1> HIDE DEF es
<1>3. request'.kind = "none"
  BY <1>1 DEF Feed!NoRequest
<1>4. entries' \in Seq(Entries) /\ Len(entries') = Len(entries) + Len(es) /\ Len(entries) \in Nat
  BY <1>1, <1>2 DEF FeedInv, FeedTypes
<1>5. cursor' \in FeedTimes \cup {None}
  BY <1>1, <1>2 DEF FeedInv, FeedTypes
<1>6. FeedTypes'
  BY <1>1, <1>2, <1>3, <1>4, <1>5 DEF FeedInv, FeedTypes
<1>7. Fetching'
  <2> SUFFICES ASSUME failures = 0
               PROVE  /\ cursor' # None => \A i \in present : rows[i] >= cursor' => Fetched(i)'
                      /\ ~hasMore' => \A i \in present : Fetched(i)'
    BY <1>1 DEF Fetching, Fetched
  <2>1. ASSUME NEW i \in present, Fetched(i) PROVE Fetched(i)'
    BY <1>1, <2>1 DEF Fetched
  <2>2. ASSUME NEW i \in present, i \in Ids(request.page) PROVE Fetched(i)'
    BY <1>1, <2>2 DEF Fetched
  <2>3. \A i \in present : rows[i] \in FeedTimes /\ rows[i] \in Int
    BY RowTimes DEF FeedInv, FeedTypes
  <2>4. cursor # None => cursor \in Int
    BY DEF FeedInv, FeedTypes, FeedTimes
  <2>5. ASSUME NEW i \in present, cursor # None, rows[i] >= cursor PROVE Fetched(i)'
    BY <2>1, <2>5 DEF FeedInv, Fetching
  <2>6. ASSUME NEW i \in present, cursor = None \/ rows[i] < cursor, ~Fetched(i)'
        PROVE  request.page.hasMore /\ es # <<>> /\ rows[i] < es[Len(es)].at
    <3>1. i \notin Ids(request.page)
      BY <2>2, <2>6
    <3>2. request.page.hasMore /\ es # <<>> /\ rows[i] <= es[Len(es)].at
      BY <1>2, <2>6, <3>1 DEF Covers, es
    <3>3. rows[i] # es[Len(es)].at
      BY <1>1, <2>6, <3>2 DEF Fetched
    <3>4. es[Len(es)].at \in Int
      BY <1>2, <3>2 DEF FeedTimes
    <3> QED BY <2>3, <3>2, <3>3, <3>4
  <2>7. ASSUME NEW i \in present, ~Fetched(i)'
        PROVE  hasMore' /\ (cursor' # None => rows[i] < cursor')
    <3>1. cursor = None \/ rows[i] < cursor
      BY <2>3, <2>4, <2>5, <2>7
    <3>2. request.page.hasMore /\ es # <<>> /\ rows[i] < es[Len(es)].at
      BY <2>6, <2>7, <3>1
    <3> QED BY <1>1, <3>2
  <2>8. cursor' # None => cursor' \in Int
    BY <1>5 DEF FeedTimes
  <2>9. ASSUME cursor' # None, NEW i \in present, rows[i] >= cursor' PROVE Fetched(i)'
    <3> SUFFICES ASSUME ~Fetched(i)' PROVE FALSE
      OBVIOUS
    <3>1. rows[i] < cursor'
      BY <2>7, <2>9
    <3> QED BY <2>3, <2>8, <2>9, <3>1
  <2> QED BY <2>7, <2>9
<1>8. Filled'
  BY <1>1, <1>2, <1>3, <1>4, FeedAssumption DEF FeedInv, Filled
<1> QED BY <1>3, <1>6, <1>7, <1>8 DEF FeedInv, AnswerOK, FirstHasNoCursor

LEMMA LiveArrivesKeeps == FeedInv /\ Feed!LiveArrives => FeedInv'
<1> SUFFICES ASSUME FeedInv, Feed!LiveArrives PROVE FeedInv'
  OBVIOUS
<1>1. /\ wire # <<>> /\ wire' = Tail(wire)
      /\ UNCHANGED <<feedNow, rows, published, subscribed, socket, loading, cursor, hasMore,
                     request, failures, present, brought, cuts>>
      /\ \/ entries' = entries
         \/ entries' = <<Head(wire)>> \o SubSeq(entries, 1, IF Len(entries) < ListCap - 1
                                                            THEN Len(entries) ELSE ListCap - 1)
  BY DEF Feed!LiveArrives, Feed!tableVars, Feed!history
<1>2. wire' \in Seq(Entries) /\ Head(wire) \in Entries
  BY <1>1 DEF FeedInv, FeedTypes
<1>3. /\ entries' \in Seq(Entries)
      /\ Len(entries) >= PageSize => Len(entries') >= PageSize
  <2>1. CASE entries' = entries
    BY <2>1 DEF FeedInv, FeedTypes
  <2>2. CASE entries' = <<Head(wire)>> \o SubSeq(entries, 1, IF Len(entries) < ListCap - 1
                                                             THEN Len(entries) ELSE ListCap - 1)
    <3>1. PICK m : m = IF Len(entries) < ListCap - 1 THEN Len(entries) ELSE ListCap - 1
      OBVIOUS
    <3>2. entries \in Seq(Entries) /\ Len(entries) \in Nat
      BY DEF FeedInv, FeedTypes
    <3>3. m \in 0 .. Len(entries) /\ (m = Len(entries) \/ m = ListCap - 1)
      BY <3>1, <3>2, FeedAssumption
    <3>4. SubSeq(entries, 1, m) \in Seq(Entries) /\ Len(SubSeq(entries, 1, m)) = m
      BY <3>2, <3>3
    <3>5. <<Head(wire)>> \in Seq(Entries) /\ Len(<<Head(wire)>>) = 1
      BY <1>2
    <3>6. entries' \in Seq(Entries) /\ Len(entries') = 1 + m
      BY <2>2, <3>1, <3>4, <3>5
    <3> QED BY <3>2, <3>3, <3>6, FeedAssumption
  <2> QED BY <1>1, <2>1, <2>2
<1>4. FeedTypes'
  BY <1>1, <1>2, <1>3 DEF FeedInv, FeedTypes
<1>5. Filled'
  BY <1>1, <1>3 DEF FeedInv, Filled
<1> QED BY <1>1, <1>4, <1>5 DEF FeedInv, AnswerOK, Fetching, Fetched, FirstHasNoCursor

(* The live channel.                                                       *)
LEMMA ChannelKeeps ==
  FeedInv /\ (Feed!Publish \/ Feed!Subscribe \/ Feed!Connect \/ Feed!Drop) => FeedInv'
<1> SUFFICES ASSUME FeedInv, Feed!Publish \/ Feed!Subscribe \/ Feed!Connect \/ Feed!Drop
             PROVE  FeedInv'
  OBVIOUS
<1>1. UNCHANGED <<feedNow, rows, entries, loading, cursor, hasMore, request, failures, present,
                  brought, cuts>>
  BY DEF Feed!Publish, Feed!Subscribe, Feed!Connect, Feed!Drop, Feed!tableVars, Feed!viewVars, Feed!history
<1>2. /\ published' \in 0 .. MaxLive /\ subscribed' \in BOOLEAN /\ socket' \in {"closed", "open"}
      /\ wire' \in Seq(Entries) /\ (wire' # <<>> => socket' = "open")
  <2> USE DEF FeedInv, FeedTypes
  <2>1. CASE Feed!Publish
    <3>1. /\ published < MaxLive /\ published' = published + 1 /\ subscribed' = subscribed
          /\ socket' = socket
          /\ \/ wire' = wire
             \/ /\ socket = "open"
                /\ wire' = Append(wire, [id |-> <<"check", published'>>, at |-> feedNow])
      BY <2>1 DEF Feed!Publish
    <3>2. published' \in 0 .. MaxLive /\ published' \in Nat
      BY <3>1, FeedAssumption
    <3>3. [id |-> <<"check", published'>>, at |-> feedNow] \in Entries
      BY <3>2 DEF Entries
    <3>4. wire' \in Seq(Entries) /\ (wire' # <<>> => socket = "open")
      <4>1. PICK new : new = [id |-> <<"check", published'>>, at |-> feedNow]
        OBVIOUS
      <4>2. Append(wire, new) \in Seq(Entries)
        BY <3>3, <4>1
      <4>3. CASE wire' = wire
        BY <4>3
      <4>4. CASE socket = "open" /\ wire' = Append(wire, new)
        BY <4>2, <4>4
      <4> QED BY <3>1, <4>1, <4>3, <4>4
    <3> QED BY <3>1, <3>2, <3>4
  <2>2. CASE Feed!Subscribe
    BY <2>2 DEF Feed!Subscribe
  <2>3. CASE Feed!Connect
    BY <2>3 DEF Feed!Connect
  <2>4. CASE Feed!Drop
    BY <2>4 DEF Feed!Drop
  <2> QED BY <2>1, <2>2, <2>3, <2>4
<1>3. FeedTypes'
  BY <1>1, <1>2 DEF FeedInv, FeedTypes
<1> QED BY <1>1, <1>3 DEF FeedInv, AnswerOK, Fetching, Fetched, Filled, FirstHasNoCursor

LEMMA FeedKeeps == FeedInv /\ [Feed!Next]_feedVars => FeedInv'
<1> SUFFICES ASSUME FeedInv, [Feed!Next]_feedVars PROVE FeedInv'
  OBVIOUS
<1>1. CASE UNCHANGED feedVars
  BY <1>1 DEF feedVars, FeedInv, FeedTypes, AnswerOK, Fetching, Fetched, Filled, FirstHasNoCursor
<1>2. CASE Feed!Next
  BY <1>2, FeedTickKeeps, InsertRowKeeps, ServeKeeps, FailKeeps, FirstArrivesKeeps, LoadMoreKeeps,
     MoreArrivesKeeps, ChannelKeeps, LiveArrivesKeeps DEF Feed!Next
<1> QED BY <1>1, <1>2

(* What the invariant says of the pages.                                   *)
LEMMA FeedTyped == FeedInv => Feed!TypeOK
<1> SUFFICES ASSUME FeedInv PROVE Feed!TypeOK
  OBVIOUS
<1>1. \A i \in DOMAIN entries : entries[i].at \in FeedTimes
  <2>1. entries \in Seq(Entries)
    BY DEF FeedInv, FeedTypes
  <2>2. \A i \in DOMAIN entries : entries[i] \in Entries
    BY <2>1
  <2> QED BY <2>2 DEF Entries
<1> QED BY <1>1 DEF FeedInv, FeedTypes, FeedTimes, Feed!TypeOK, Feed!Times

LEMMA FeedPaging == FeedInv => PagesMissOnlySameMillisecond
BY DEF FeedInv, Fetching, Fetched, PagesMissOnlySameMillisecond, Feed!PagesMissOnlySameMillisecond,
       Feed!Reached

(* The arrival of a further page leaves what is shown as it is.            *)
LEMMA FeedShows ==
  FeedInv /\ [Feed!Next]_feedVars =>
    (request.kind = "more" /\ request'.kind = "none" => Feed!Shown' = Feed!Shown)
<1> SUFFICES ASSUME FeedInv, [Feed!Next]_feedVars, request.kind = "more", request'.kind = "none"
             PROVE  Feed!Shown' = Feed!Shown
  OBVIOUS
<1>1. Feed!MoreArrives
  <2>1. request' # request
    OBVIOUS
  <2>2. request \in Asking
    BY DEF FeedInv, FeedTypes, Feed!NoRequest
  <2>3. ~Feed!Serve /\ ~Feed!Fail
    BY <2>2 DEF Feed!Serve, Feed!Fail, Asking
  <2>4. ~Feed!FirstArrives /\ ~Feed!LoadMore
    BY DEF Feed!FirstArrives, Feed!LoadMore
  <2> QED BY <2>1, <2>3, <2>4 DEF feedVars, Feed!Next, Feed!Tick, Feed!InsertRow, Feed!Publish,
             Feed!Subscribe, Feed!Connect, Feed!Drop, Feed!LiveArrives, Feed!viewVars
<1>2. /\ entries' = entries \o request.page.entries /\ request.page.entries \in Seq(Entries)
      /\ entries \in Seq(Entries) /\ Len(entries) >= PageSize
  BY <1>1, PageArrives DEF Feed!MoreArrives, FeedInv, FeedTypes, Filled
<1>3. PICK es : es = request.page.entries
  OBVIOUS
<1>4. PICK new : new = entries'
  OBVIOUS
<1>5. new = entries \o es /\ es \in Seq(Entries) /\ entries \in Seq(Entries) /\ Len(entries) >= PageSize
  BY <1>2, <1>3, <1>4
<1>6. Len(new) >= PageSize /\ new \in Seq(Entries)
  BY <1>5, FeedAssumption
<1>7. SubSeq(new, 1, PageSize) = SubSeq(entries, 1, PageSize)
  <2>1. \A i \in 1 .. PageSize : new[i] = entries[i]
    BY <1>5, FeedAssumption
  <2>2. SubSeq(new, 1, PageSize) = [i \in 1 .. PageSize |-> new[i]]
    BY <1>6, FeedAssumption
  <2>3. SubSeq(entries, 1, PageSize) = [i \in 1 .. PageSize |-> entries[i]]
    BY <1>5, FeedAssumption
  <2> QED BY <2>1, <2>2, <2>3
<1>8. Feed!Shown = SubSeq(entries, 1, PageSize)
  BY <1>5, FeedAssumption DEF Feed!Shown
<1>9. Feed!Shown' = SubSeq(new, 1, PageSize)
  BY <1>4, <1>6, FeedAssumption DEF Feed!Shown
<1> QED BY <1>7, <1>8, <1>9

-----------------------------------------------------------------------------
(* The parts of WebApp take their own steps or stutter.                    *)
LEMMA ReadsStep ==
  /\ WebInit => Api!Init /\ Feed!Init
  /\ [WebNext]_webVars => [Api!Next]_apiVars /\ [Feed!Next]_feedVars
BY DEF WebInit, WebNext, webVars

LEMMA ReadsInvariant == WebSpec => []ApiInv /\ []FeedInv
<1>1. WebInit => ApiInv /\ FeedInv
  BY ReadsStep, ApiInitially, FeedInitially
<1>2. ApiInv /\ [WebNext]_webVars => ApiInv'
  BY ReadsStep, ApiKeeps
<1>3. FeedInv /\ [WebNext]_webVars => FeedInv'
  BY ReadsStep, FeedKeeps
<1> QED BY <1>1, <1>2, <1>3, PTL DEF WebSpec

(* However inserts come between the queries of a route, its counts differ  *)
(* by no more than the checks that came in meanwhile, and what the backend *)
(* reads later, within its limits, agrees with what it read before.        *)
THEOREM AnswersAgree == WebSpec => []AnswersCohere
BY ReadsInvariant, ApiCoheres, PTL

(* Redis never holds an answer of which a query is missing or failed.      *)
THEOREM CacheIsWhole == WebSpec => []OnlyWholeAnswersCached
BY ReadsInvariant, ApiCaches, PTL

(* Paging through the feed leaves out a row that was there at the first    *)
(* page only if a page ended in its millisecond, or a request failed.      *)
THEOREM PagesCover == WebSpec => []PagesMissOnlySameMillisecond
BY ReadsInvariant, FeedPaging, PTL

(* The component shows the first entries of its list, and a further page   *)
(* goes behind them: "Load more" never changes what is shown.              *)
THEOREM MoreStaysHidden == WebSpec => MoreIsNeverShown
<1>1. FeedInv /\ [WebNext]_webVars =>
        [request.kind = "more" /\ request'.kind = "none" => Feed!Shown' = Feed!Shown]_(Feed!vars)
  BY ReadsStep, FeedShows
<1> QED BY <1>1, ReadsInvariant, PTL DEF WebSpec, MoreIsNeverShown, Feed!MoreIsNeverShown
=============================================================================
