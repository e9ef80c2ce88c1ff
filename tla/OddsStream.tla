----------------------------- MODULE OddsStream -----------------------------
(***************************************************************************)
(* TxLINEStream: one connection to the server-sent odds stream, read in    *)
(* chunks that split events anywhere, cut into events at blank lines, and  *)
(* made again after every end or error.  The backend and the web worker    *)
(* each have a copy: they differ in the check of their reconnect timer and *)
(* in what their shutdown does.  The text of an event is a number of equal *)
(* pieces and a blank line.  The backoff delay only says how long a timer  *)
(* runs and is left out: a timer may run out at any time.                  *)
(***************************************************************************)
EXTENDS Integers, Sequences, SequencesExt

CONSTANTS
  NumEvents,  \* how many events the server sends in its life
  Length      \* how many pieces the text of an event of each kind has

(* "other" is a comment, text that is no JSON, or a message of a type no   *)
(* handler acts on.                                                        *)
Kinds == {"odds", "heartbeat", "other"}

ASSUME StreamAssumption ==
  NumEvents \in Nat /\ Length \in [Kinds -> Nat \ {0}]

VARIABLES
  role,        \* which copy of the class runs
  kind,        \* the kind of each event the server will send
  emitted,     \* how many the server has sent
  wire,        \* what is on its way on the current connection
  conn,        \* where connect() stands
  aborted,     \* the signal of the current connection was aborted
  buffer,      \* text received and not yet cut
  sepAt,       \* `separator`: where the loop believes the next blank line is
  delivered,   \* history: odds events handed to the handlers, in order
  received,    \* history: events whose text arrived whole on one connection
  shadowed,    \* history: events in the buffer when a heartbeat was met
  tokensValid, \* the server accepts the tokens the stream was given
  stop,        \* the shutdown of the process: "no", "stopping", "exited"
  late         \* history: connections begun after disconnect(), up to 2

serverVars  == <<role, kind, emitted, wire, tokensValid>>
parserVars  == <<buffer, sepAt, delivered, received, shadowed>>
vars == <<serverVars, parserVars, conn, aborted, stop, late>>

Events == 1 .. NumEvents
Text(e) == [k \in 1 .. Length[kind[e]] |-> <<e, k>>]
Frame(e) == Append(Text(e), <<e, 0>>)

Connected == conn \in {"reading", "parsing"}

Init ==
  /\ role \in {"backend", "web"}
  /\ kind \in [Events -> Kinds]
  /\ tokensValid \in (IF role = "backend" THEN {TRUE} ELSE BOOLEAN)
  /\ emitted = 0 /\ wire = <<>> /\ conn = "idle" /\ aborted = FALSE
  /\ buffer = <<>> /\ sepAt = 0
  /\ delivered = <<>> /\ received = {} /\ shadowed = {}
  /\ stop = "no" /\ late = 0

(* disconnect() is called by the web worker alone; gracefulShutdown of the *)
(* backend leaves the stream as it is.                                     *)
Disconnected == role = "web" /\ stop # "no"
ShouldReconnect == ~Disconnected
AttachedMutant == TRUE
Attached == role = "backend" \/ stop = "no"

-----------------------------------------------------------------------------
(* The server sends its next event: on the connection, or to nobody.       *)
Emit ==
  /\ emitted < NumEvents /\ stop # "exited"
  /\ emitted' = emitted + 1
  /\ wire' = IF Connected THEN wire \o Frame(emitted + 1) ELSE wire
  /\ UNCHANGED <<role, kind, tokensValid, parserVars, conn, aborted, stop, late>>

ExpireToken ==
  /\ tokensValid
  /\ tokensValid' = FALSE
  /\ UNCHANGED <<role, kind, emitted, wire, parserVars, conn, aborted, stop, late>>

(* connect(), from its start to the await of fetch.                        *)
Connect ==
  /\ conn' = "fetching"
  /\ aborted' = FALSE
  /\ late' = IF Disconnected /\ late < 2 THEN late + 1 ELSE late

Start ==
  /\ conn = "idle" /\ stop # "exited"
  /\ Connect
  /\ UNCHANGED <<serverVars, parserVars, stop>>

(* The backend asks shouldReconnect again when its timer runs out; the web *)
(* copy connects whatever has happened meanwhile.                          *)
TimerFires ==
  /\ conn = "timer" /\ stop # "exited"
  /\ IF role = "web" \/ ShouldReconnect
       THEN Connect
       ELSE conn' = "closed" /\ UNCHANGED <<aborted, late>>
  /\ UNCHANGED <<serverVars, parserVars, stop>>

(* The buffer is a local of connect(): every connection starts empty.      *)
Accepted ==
  /\ conn = "fetching" /\ tokensValid /\ stop # "exited"
  /\ conn' = "reading"
  /\ wire' = <<>> /\ buffer' = <<>> /\ sepAt' = 0
  /\ UNCHANGED <<role, kind, emitted, tokensValid, delivered, received, shadowed,
                 aborted, stop, late>>

AfterFailureMutant == "timer"
AfterFailureMutant2 == IF conn = "fetching" THEN "closed" ELSE "timer"
AfterFailure == IF ShouldReconnect THEN "timer" ELSE "closed"

(* fetch rejects or the answer is not ok.                                  *)
Refused ==
  /\ conn = "fetching" /\ stop # "exited"
  /\ conn' = AfterFailure
  /\ UNCHANGED <<serverVars, parserVars, aborted, stop, late>>

(* The server closes the stream, seen when all of it is read, or the       *)
(* connection breaks with whatever was on its way.                         *)
Ended ==
  /\ conn = "reading" /\ wire = <<>> /\ stop # "exited"
  /\ conn' = AfterFailure
  /\ UNCHANGED <<serverVars, parserVars, aborted, stop, late>>

Broken ==
  /\ conn = "reading" /\ wire # <<>> /\ stop # "exited"
  /\ conn' = AfterFailure
  /\ wire' = <<>>
  /\ UNCHANGED <<role, kind, emitted, tokensValid, parserVars, aborted, stop, late>>

(* AbortError: connect() returns and makes no timer.                       *)
AbortSeen ==
  /\ conn \in {"fetching", "reading"} /\ aborted /\ stop # "exited"
  /\ conn' = "closed"
  /\ UNCHANGED <<serverVars, parserVars, aborted, stop, late>>

-----------------------------------------------------------------------------
IsSep(p) == p[2] = 0
FirstSep(text) == SelectInSeq(text, IsSep)
EventsOf(text) == {p[1] : p \in Range(text)}

TextAfterMutant(chunk) == chunk
TextAfter(chunk) == buffer \o chunk

(* reader.read() answers with a chunk of any size.                         *)
Read ==
  /\ conn = "reading" /\ stop # "exited"
  /\ \E n \in 1 .. Len(wire) :
       LET chunk == SubSeq(wire, 1, n) IN
       /\ buffer' = TextAfter(chunk)
       /\ wire' = SubSeq(wire, n + 1, Len(wire))
       /\ received' = received \cup {p[1] : p \in {q \in Range(chunk) : IsSep(q)}}
  /\ sepAt' = FirstSep(buffer')
  /\ conn' = IF sepAt' = 0 THEN "reading" ELSE "parsing"
  /\ UNCHANGED <<role, kind, emitted, tokensValid, delivered, shadowed, aborted, stop, late>>

(* What parseSseBlock and JSON.parse make of a block: the data lines that  *)
(* begin in it are joined, and parse if they are one whole event; text     *)
(* without the beginning of its line names no field.                       *)
Block == SubSeq(buffer, 1, IF sepAt - 1 < Len(buffer) THEN sepAt - 1 ELSE Len(buffer))
Rest  == SubSeq(buffer, sepAt + 1, Len(buffer))
Parsed(block) ==
  {e \in Events : /\ {f \in Events : <<f, 1>> \in Range(block)} = {e}
                  /\ Range(Text(e)) \subseteq Range(block)}

ParsesAs(k) == \E e \in Parsed(Block) : kind[e] = k

(* `continue` skips the line that looks for the next blank line: the loop  *)
(* goes on with the old place in the text that is left.                    *)
MeetHeartbeat ==
  /\ conn = "parsing" /\ stop # "exited"
  /\ ParsesAs("heartbeat")
  /\ buffer' = Rest
  /\ shadowed' = shadowed \cup EventsOf(Rest)
  /\ UNCHANGED <<serverVars, conn, sepAt, delivered, received, aborted, stop, late>>

NextBlock ==
  /\ buffer' = Rest
  /\ sepAt' = FirstSep(Rest)
  /\ conn' = IF sepAt' = 0 THEN "reading" ELSE "parsing"

DeliverMutant ==
  /\ conn = "parsing" /\ stop # "exited"
  /\ \E e \in Parsed(Block) :
       /\ kind[e] = "odds"
       /\ delivered' = IF Attached THEN Append(delivered, e) ELSE delivered
  /\ conn' = "reading"
  /\ UNCHANGED <<serverVars, buffer, sepAt, received, shadowed, aborted, stop, late>>

(* An odds update goes to the handlers, without an await.                  *)
Deliver ==
  /\ conn = "parsing" /\ stop # "exited"
  /\ \E e \in Parsed(Block) :
       /\ kind[e] = "odds"
       /\ delivered' = IF Attached THEN Append(delivered, e) ELSE delivered
  /\ NextBlock
  /\ UNCHANGED <<serverVars, received, shadowed, aborted, stop, late>>

DropBlock ==
  /\ conn = "parsing" /\ stop # "exited"
  /\ ~ParsesAs("heartbeat") /\ ~ParsesAs("odds")
  /\ NextBlock
  /\ UNCHANGED <<serverVars, delivered, received, shadowed, aborted, stop, late>>

-----------------------------------------------------------------------------
(* SIGTERM.  The web worker detaches its handler and disconnects (before   *)
(* it has a stream it has no such handler); the backend closes its queue,  *)
(* server and pools and lets the stream run.  JavaScript runs to           *)
(* completion: no signal is handled inside the loop.                       *)
Stop ==
  /\ stop = "no" /\ conn # "parsing"
  /\ role = "web" => conn # "idle"
  /\ stop' = "stopping"
  /\ aborted' = (role = "web" /\ conn \in {"fetching", "reading"})
  /\ UNCHANGED <<serverVars, parserVars, conn, late>>

(* The shutdown is over, or the process is killed.                         *)
Exit ==
  /\ stop # "exited"
  /\ stop' = "exited"
  /\ UNCHANGED <<serverVars, parserVars, conn, aborted, late>>

StreamStep ==
  \/ TimerFires \/ Accepted \/ Refused \/ Ended \/ Broken \/ AbortSeen
  \/ Read \/ MeetHeartbeat \/ Deliver \/ DropBlock

Next == Start \/ Emit \/ ExpireToken \/ StreamStep \/ Stop \/ Exit

Spec == Init /\ [][Next]_vars

-----------------------------------------------------------------------------
TypeOK ==
  /\ role \in {"backend", "web"} /\ kind \in [Events -> Kinds]
  /\ emitted \in 0 .. NumEvents /\ tokensValid \in BOOLEAN
  /\ wire \in Seq(Events \X Nat) /\ buffer \in Seq(Events \X Nat) /\ sepAt \in Nat
  /\ conn \in {"idle", "fetching", "reading", "parsing", "timer", "closed"}
  /\ aborted \in BOOLEAN /\ stop \in {"no", "stopping", "exited"} /\ late \in 0 .. 2
  /\ delivered \in Seq(Events) /\ received \subseteq Events /\ shadowed \subseteq Events

(* Whatever the chunks, reconnects and heartbeats, the handlers get only   *)
(* whole odds updates, in the server's order, none twice, and none before  *)
(* its blank line arrived, unless a heartbeat no shorter than it stood in  *)
(* front of it.                                                            *)
DeliveredInOrder ==
  /\ \A i \in DOMAIN delivered :
       /\ kind[delivered[i]] = "odds"
       /\ \/ delivered[i] \in received
          \/ Length["odds"] <= Length["heartbeat"] /\ delivered[i] \in shadowed
  /\ \A i, j \in DOMAIN delivered : i < j => delivered[i] < delivered[j]

(* An odds update that arrived whole is delivered by the time the loop     *)
(* waits for more text, unless part of it was in the buffer when a         *)
(* heartbeat was met: that is the only way the framing loses an update.    *)
LostOnlyBehindHeartbeat ==
  conn = "reading" /\ ~Disconnected =>
    \A e \in received \ shadowed : kind[e] = "odds" => Contains(delivered, e)

(* docs/page.tsx:16: "Each odds update triggers a consistency check": so   *)
(* an update that arrived whole must reach the handlers.                   *)
ReceivedIsDelivered ==
  conn = "reading" /\ ~Disconnected =>
    \A e \in received : kind[e] = "odds" => Contains(delivered, e)

(* Once the web worker handles SIGTERM nothing reaches the pipeline, even  *)
(* on the connection its unguarded reconnect timer may still open, and     *)
(* that is at most one.                                                    *)
QuietAfterDisconnect ==
  [][Disconnected => delivered' = delivered /\ late' <= 1]_vars

(* While the tokens hold and the process runs, the stream always gets      *)
(* back to reading, whatever refusals and breaks come in between.          *)
StreamComesBack ==
  conn \in {"fetching", "timer"} ~> conn = "reading" \/ ~tokensValid \/ stop # "no"
=============================================================================
