------------------------------ MODULE ProofFeed ------------------------------
(***************************************************************************)
(* The proof feed a browser shows: the pages of GET /api/proof-feed, the   *)
(* live messages that go from Redis through the WebSocket server to the    *)
(* open pages, and the ProofFeed component that merges both into one list. *)
(* Times are milliseconds: the table keeps microseconds, but a JavaScript  *)
(* Date, and so every cursor, does not.                                    *)
(***************************************************************************)
EXTENDS Integers, Sequences, SequencesExt

CONSTANTS
  PageSize,    \* PAGE_SIZE, 25
  ListCap,     \* entries kept when a live one is put on top: 100
  MaxRows,     \* bound: rows of proof_log
  MaxTime,     \* bound: milliseconds
  MaxLive,     \* bound: messages published
  MaxFailures, \* bound: requests that fail
  None

VARIABLES
  now, rows,    \* proof_log: when each row was logged, in order; its index is its id
  published,    \* how many messages went out on the channel
  subscribed,   \* does the server hear the channel, and handle what it hears?
  socket,       \* the browser's connection: closed, open
  wire,         \* messages on their way to the browser
  entries, loading, cursor, hasMore,  \* the component's state
  request,      \* the request it awaits
  failures,     \* how many have failed
  present,      \* history: the rows there were when the first page was read
  brought,      \* history: the rows pages have brought
  cuts          \* history: when the last entry of a page was logged

tableVars == <<now, rows>>
liveVars  == <<published, subscribed, socket, wire>>
viewVars  == <<entries, loading, cursor, hasMore, request>>
history   == <<failures, present, brought, cuts>>
vars      == <<tableVars, liveVars, viewVars, history>>

NoRequest == [kind |-> "none"]
NoPage    == [entries |-> <<>>, hasMore |-> FALSE]

(* The component mounts and asks for the first page.                       *)
Init ==
  /\ now = 0 /\ rows = <<>>
  /\ published = 0 /\ subscribed = FALSE /\ socket = "closed" /\ wire = <<>>
  /\ entries = <<>> /\ loading = TRUE /\ cursor = None /\ hasMore = FALSE
  /\ request = [kind |-> "first", page |-> None]
  /\ failures = 0 /\ present = {} /\ brought = {} /\ cuts = {}

-----------------------------------------------------------------------------
Tick ==
  /\ now < MaxTime /\ now' = now + 1
  /\ UNCHANGED <<rows, liveVars, viewVars, history>>

(* logged_at is NOW(): the worker's INSERT may commit a little later.      *)
InsertRow(at) ==
  /\ Len(rows) < MaxRows
  /\ rows' = Append(rows, at)
  /\ UNCHANGED <<now, liveVars, viewVars, history>>

-----------------------------------------------------------------------------
(* GET /api/proof-feed                                                     *)

OlderThan(c) == {i \in DOMAIN rows : c = None \/ rows[i] < c}
RowEntry(i)  == [id |-> <<"row", i>>, at |-> rows[i]]

(* The newest rows in order, up to PageSize; those logged at one moment    *)
(* come in whatever order Postgres finds them.                             *)
Newest(c) ==
  {ids \in UNION {[1 .. n -> OlderThan(c)] : n \in 0 .. PageSize} :
     /\ \A i, j \in DOMAIN ids : i < j => ids[i] # ids[j] /\ rows[ids[i]] >= rows[ids[j]]
     /\ \A i \in DOMAIN ids, left \in OlderThan(c) \ Range(ids) : rows[ids[i]] >= rows[left]
     /\ Len(ids) < PageSize => OlderThan(c) \subseteq Range(ids)}

PageOf(ids, more) == [entries |-> [i \in DOMAIN ids |-> RowEntry(ids[i])], hasMore |-> more]

PagesMutant(c) == {PageOf(ids, Len(ids) > PageSize) : ids \in Newest(c)}

(* One row more than the page is read, to know whether there are more.     *)
Pages(c) == {PageOf(ids, OlderThan(c) \ Range(ids) # {}) : ids \in Newest(c)}

Serve ==
  /\ request.kind # "none" /\ request.page = None
  /\ \E page \in Pages(cursor) : request' = [request EXCEPT !.page = page]
  /\ present' = IF request.kind = "first" THEN DOMAIN rows ELSE present
  /\ UNCHANGED <<tableVars, liveVars, entries, loading, cursor, hasMore, failures, brought, cuts>>

(* A request that fails, in the server or in the browser, looks to the     *)
(* component like an empty last page.  On the tables the web migrations    *)
(* make it always does: the query names proof_log.created_at, which they   *)
(* do not make.                                                            *)
Fail ==
  /\ request.kind # "none" /\ request.page = None /\ failures < MaxFailures
  /\ request' = [request EXCEPT !.page = NoPage]
  /\ failures' = failures + 1
  /\ UNCHANGED <<tableVars, liveVars, entries, loading, cursor, hasMore, present, brought, cuts>>

-----------------------------------------------------------------------------
(* The component                                                           *)

Brings(page) ==
  /\ brought' = brought \cup {page.entries[i].id[2] : i \in DOMAIN page.entries}
  /\ cuts' = IF page.entries = <<>> THEN cuts ELSE cuts \cup {Last(page.entries).at}
  /\ UNCHANGED <<failures, present>>

FirstArrivesMutant ==
  /\ request.kind = "first" /\ request.page # None
  /\ entries' = request.page.entries
  /\ hasMore' = request.page.hasMore
  /\ request' = NoRequest
  /\ Brings(request.page)
  /\ UNCHANGED <<tableVars, liveVars, loading, cursor>>

(* setEntries(items): whatever live messages brought before is gone, and   *)
(* the cursor stays null, so that the first loadMore asks for this page    *)
(* again.                                                                  *)
FirstArrives ==
  /\ request.kind = "first" /\ request.page # None
  /\ entries' = request.page.entries
  /\ hasMore' = request.page.hasMore
  /\ loading' = FALSE
  /\ request' = NoRequest
  /\ Brings(request.page)
  /\ UNCHANGED <<tableVars, liveVars, cursor>>

LoadMore ==
  /\ hasMore /\ ~loading
  /\ loading' = TRUE
  /\ request' = [kind |-> "more", page |-> None]
  /\ UNCHANGED <<tableVars, liveVars, entries, cursor, hasMore, history>>

MoreArrives ==
  /\ request.kind = "more" /\ request.page # None
  /\ entries' = entries \o request.page.entries
  /\ cursor' = IF request.page.entries = <<>> THEN cursor ELSE Last(request.page.entries).at
  /\ hasMore' = request.page.hasMore
  /\ loading' = FALSE
  /\ request' = NoRequest
  /\ Brings(request.page)
  /\ UNCHANGED <<tableVars, liveVars>>

LiveArrives ==
  /\ wire # <<>>
  /\ wire' = Tail(wire)
  /\ entries' = IF entries # <<>> /\ Head(entries).id = Head(wire).id THEN entries
                ELSE <<Head(wire)>> \o SubSeq(entries, 1, IF Len(entries) < ListCap - 1
                                                          THEN Len(entries) ELSE ListCap - 1)
  /\ UNCHANGED <<tableVars, published, subscribed, socket, loading, cursor, hasMore, request, history>>

(* What the page shows of its entries.                                     *)
ShownMutant == entries
Shown == SubSeq(entries, 1, IF Len(entries) < PageSize THEN Len(entries) ELSE PageSize)

-----------------------------------------------------------------------------
(* The live channel: Redis forgets a message nobody is subscribed to, the  *)
(* server sends to the sockets that are open, and nothing is kept.  The    *)
(* id of a live entry is the check's, never that of its proof_log row.     *)
Publish ==
  /\ published < MaxLive /\ published' = published + 1
  /\ wire' = IF subscribed /\ socket = "open"
             THEN Append(wire, [id |-> <<"check", published'>>, at |-> now]) ELSE wire
  /\ UNCHANGED <<tableVars, subscribed, socket, viewVars, history>>

(* The server subscribes, or its own connection to Redis drops.            *)
Subscribe ==
  /\ subscribed' = ~subscribed
  /\ UNCHANGED <<tableVars, published, socket, wire, viewVars, history>>

Connect ==
  /\ socket = "closed" /\ socket' = "open"
  /\ UNCHANGED <<tableVars, published, subscribed, wire, viewVars, history>>

(* The connection breaks, or the server ends it after 30 seconds without a *)
(* pong; the component connects again three seconds later.                 *)
Drop ==
  /\ socket = "open" /\ socket' = "closed" /\ wire' = <<>>
  /\ UNCHANGED <<tableVars, published, subscribed, viewVars, history>>

Next ==
  \/ Tick
  \/ \E at \in {now, now - 1} \cap Nat : InsertRow(at)
  \/ Serve \/ Fail \/ FirstArrives \/ LoadMore \/ MoreArrives
  \/ Publish \/ Subscribe \/ Connect \/ Drop \/ LiveArrives

Spec == Init /\ [][Next]_vars

-----------------------------------------------------------------------------
Times == 0 .. MaxTime

TypeOK ==
  /\ now \in Times /\ rows \in Seq(Times) /\ Len(rows) <= MaxRows
  /\ published \in 0 .. MaxLive /\ subscribed \in BOOLEAN /\ socket \in {"closed", "open"}
  /\ wire # <<>> => socket = "open"
  /\ cursor \in Times \cup {None} /\ hasMore \in BOOLEAN
  /\ loading <=> request.kind # "none"
  /\ \A i \in DOMAIN entries : entries[i].at \in Times
  /\ brought \subseteq DOMAIN rows /\ present \subseteq DOMAIN rows

(* What the pages must have brought by now: the rows down to the cursor,   *)
(* and all of them once the component knows of no more.                    *)
Reached(i) ==
  /\ i \in present /\ failures = 0
  /\ \/ cursor # None /\ rows[i] >= cursor
     \/ ~loading /\ ~hasMore

(* Paging with a cursor in milliseconds leaves out a row that was there    *)
(* when the first page was read only if it was logged in the very          *)
(* millisecond of the last entry of some page, however many rows come in   *)
(* meanwhile and however late they commit.                                 *)
PagesMissOnlySameMillisecond ==
  \A i \in DOMAIN rows : Reached(i) => i \in brought \/ rows[i] \in cuts

(* The answer to "Load more" never changes what is shown: the component    *)
(* appends it and goes on showing the first PageSize of its entries.       *)
MoreIsNeverShown ==
  [][request.kind = "more" /\ request'.kind = "none" => Shown' = Shown]_vars
=============================================================================
