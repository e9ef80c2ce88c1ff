-------------------------- MODULE Ingestion_proofs --------------------------
(***************************************************************************)
(* Proofs about Ingestion, for any number of retries, fixtures and events: *)
(* what the start has done by the time the stream is made, and what the    *)
(* shutdown of the web worker leaves running.                              *)
(***************************************************************************)
EXTENDS Ingestion, DataTheorems

BootTypeOK ==
  /\ role \in {"backend", "web"}
  /\ boot \in Requests \cup {"sync", "streaming", "failed"}
  /\ attempt \in 0 .. MaxRetries /\ subs \in Nat /\ stored \in 0 .. NumFixtures

(* A subscription is charged to an attempt: while the request is being     *)
(* made there are at most as many as attempts that have failed.            *)
SubsInv ==
  /\ boot = "auth" => subs = 0
  /\ boot = "subscribe" => subs <= attempt
  /\ subs <= MaxRetries + 1
  /\ boot \in {"fixtures", "sync", "streaming"} => subs > 0

(* The stream is only touched once the start is through, and the backend's *)
(* start is only through with every fixture stored.                        *)
OrderInv ==
  /\ conn # "idle" => boot = "streaming"
  /\ boot = "streaming" /\ role = "backend" => stored = NumFixtures

BootInv == BootTypeOK /\ SubsInv /\ OrderInv

(* After disconnect() at most one connection is begun, and then no timer   *)
(* runs any more.                                                          *)
LateInv ==
  /\ late \in 0 .. 2
  /\ ~Disconnected => late = 0
  /\ late > 0 => late = 1 /\ conn # "timer" /\ conn # "idle"
  /\ conn = "idle" /\ Disconnected => stop = "exited"

-----------------------------------------------------------------------------
(* The steps of the stream and its environment leave the role alone and    *)
(* never make a connection idle again; before the start is through none of *)
(* them touches conn.                                                      *)
LEMMA StreamKeepsRole ==
  ASSUME Start \/ ExpireToken \/ StreamStep \/ Emit \/ Stop \/ Exit
  PROVE  role' = role
BY SMT DEF Start, ExpireToken, StreamStep, Emit, Stop, Exit, TimerFires, Accepted,
  Refused, Ended, Broken, AbortSeen, Read, MeetHeartbeat, Deliver, DropBlock,
  serverVars, parserVars

LEMMA EnvironmentKeepsConn ==
  ASSUME Emit \/ Stop \/ Exit
  PROVE  conn' = conn
BY DEF Emit, Stop, Exit

(* Init establishes the invariant of the start.                            *)
LEMMA BootInit == IngestionInit => BootInv
BY IngestionAssumption, SMT DEF IngestionInit, Init, BootInv, BootTypeOK, SubsInv, OrderInv,
  Requests

(* Every step of the start keeps it.                                       *)
LEMMA BootStepInv ==
  ASSUME BootInv, BootStep
  PROVE  BootInv'
<1> USE IngestionAssumption DEF BootInv, BootTypeOK, SubsInv, OrderInv, Requests
<1>1. role' = role /\ conn' = conn
  BY DEF BootStep, Answered, NotServed, AnswerLost, BadBody, Upsert, UpsertFails, Synced,
    Starting, vars, serverVars
<1>2. CASE Answered
  BY <1>1, <1>2, SMT DEF Answered, Served, AfterRequest
<1>3. CASE NotServed
  BY <1>1, <1>3, SMT DEF NotServed, Retry
<1>4. CASE AnswerLost
  BY <1>1, <1>4, SMT DEF AnswerLost, Served, Retry
<1>5. CASE BadBody
  BY <1>1, <1>5, SMT DEF BadBody, Served
<1>6. CASE Upsert
  BY <1>1, <1>6, SMT DEF Upsert
<1>7. CASE UpsertFails
  BY <1>1, <1>7, SMT DEF UpsertFails
<1>8. CASE Synced
  BY <1>1, <1>8, SMT DEF Synced
<1>9. QED
  BY <1>2, <1>3, <1>4, <1>5, <1>6, <1>7, <1>8 DEF BootStep

(* So does every step of the whole.                                        *)
LEMMA BootNext == BootInv /\ [IngestionNext]_allVars => BootInv'
<1> SUFFICES ASSUME BootInv, [IngestionNext]_allVars PROVE BootInv'
  OBVIOUS
<1>1. CASE BootStep
  BY <1>1, BootStepInv
<1>2. CASE boot = "streaming" /\ (Start \/ ExpireToken \/ StreamStep) /\ UNCHANGED bootVars
  <2>1. role' = role
    BY <1>2, StreamKeepsRole
  <2>2. QED
    BY <1>2, <2>1 DEF bootVars, BootInv, BootTypeOK, SubsInv, OrderInv
<1>3. CASE (Emit \/ Stop \/ Exit) /\ UNCHANGED bootVars
  <2>1. role' = role /\ conn' = conn
    BY <1>3, StreamKeepsRole, EnvironmentKeepsConn
  <2>2. QED
    BY <1>3, <2>1 DEF bootVars, BootInv, BootTypeOK, SubsInv, OrderInv
<1>4. CASE UNCHANGED allVars
  BY <1>4 DEF allVars, bootVars, vars, serverVars, BootInv, BootTypeOK, SubsInv, OrderInv
<1>5. QED
  BY <1>1, <1>2, <1>3, <1>4 DEF IngestionNext

(* In every behaviour the invariant of the start holds.                    *)
THEOREM BootIsInvariant == IngestionSpec => []BootInv
BY BootInit, BootNext, PTL DEF IngestionSpec

(* However many answers are lost, a start subscribes at most once per      *)
(* attempt, and a stream that runs has a subscription.                     *)
THEOREM SubscriptionsAreBounded == IngestionSpec => []SubscriptionsBounded
<1>1. BootInv => SubscriptionsBounded
  BY SMT DEF BootInv, SubsInv, OrderInv, SubscriptionsBounded
<1>2. QED
  BY <1>1, BootIsInvariant, PTL

(* The backend connects only after every listed fixture has its row.       *)
THEOREM StreamFollowsSync == IngestionSpec => []StreamAfterSync
<1>1. BootInv => StreamAfterSync
  BY DEF BootInv, OrderInv, StreamAfterSync
<1>2. QED
  BY <1>1, BootIsInvariant, PTL

-----------------------------------------------------------------------------
(* The stream steps that neither connect nor make a timer.                 *)
Quiet ==
  \/ Accepted \/ AbortSeen \/ Read \/ MeetHeartbeat \/ Deliver \/ DropBlock

LEMMA QuietSteps ==
  ASSUME Quiet
  PROVE  /\ role' = role /\ stop' = stop /\ late' = late
         /\ conn # "idle" /\ conn' # "timer" /\ conn' # "idle"
BY SMT DEF Quiet, Accepted, AbortSeen, Read, MeetHeartbeat, Deliver, DropBlock, NextBlock,
  serverVars, parserVars

LEMMA LateInit == IngestionInit => LateInv
BY SMT DEF IngestionInit, Init, LateInv, Disconnected

(* Every step of the whole keeps it: only a timer that was running when    *)
(* the signal came can begin a connection after it.                        *)
LEMMA LateNext == BootInv /\ LateInv /\ [IngestionNext]_allVars => LateInv'
<1> SUFFICES ASSUME BootInv, LateInv, [IngestionNext]_allVars PROVE LateInv'
  OBVIOUS
<1> USE DEF LateInv, Disconnected
<1>1. CASE BootStep
  <2>1. UNCHANGED vars
    BY <1>1 DEF BootStep, Answered, NotServed, AnswerLost, BadBody, Upsert, UpsertFails,
      Synced, Starting
  <2>2. QED
    BY <2>1 DEF vars, serverVars
<1>2. CASE Start
  BY <1>2, SMT DEF Start, Connect, serverVars
<1>3. CASE ExpireToken \/ Emit
  BY <1>3 DEF ExpireToken, Emit
<1>4. CASE TimerFires
  BY <1>4, SMT DEF TimerFires, Connect, ShouldReconnect, serverVars
<1>5. CASE Refused \/ Ended \/ Broken
  BY <1>5, SMT DEF Refused, Ended, Broken, AfterFailure, ShouldReconnect, serverVars
<1>6. CASE Quiet
  BY <1>6, QuietSteps, SMT
<1>7. CASE Stop
  BY <1>7, SMT DEF Stop, serverVars
<1>8. CASE Exit
  BY <1>8, SMT DEF Exit, serverVars
<1>9. CASE UNCHANGED allVars
  BY <1>9 DEF allVars, vars, serverVars
<1>10. QED
  BY <1>1, <1>2, <1>3, <1>4, <1>5, <1>6, <1>7, <1>8, <1>9
    DEF IngestionNext, StreamStep, Quiet

THEOREM LateIsInvariant == IngestionSpec => []LateInv
BY LateInit, LateNext, BootIsInvariant, PTL DEF IngestionSpec

(* A step of the stream hands something over only while the handlers are   *)
(* attached.                                                               *)
LEMMA OnlyAttachedDeliver ==
  ASSUME [IngestionNext]_allVars, Disconnected
  PROVE  delivered' = delivered
<1>1. ~Attached
  BY DEF Disconnected, Attached
<1>2. CASE Deliver
  BY <1>1, <1>2 DEF Deliver
<1>3. CASE BootStep \/ UNCHANGED allVars
  BY <1>3 DEF BootStep, Answered, NotServed, AnswerLost, BadBody, Upsert, UpsertFails,
      Synced, Starting, allVars, vars, parserVars
<1>4. CASE Start \/ ExpireToken \/ Emit \/ Stop \/ Exit \/ TimerFires \/ Accepted \/ Refused
             \/ Ended \/ Broken \/ AbortSeen
  BY <1>4 DEF Start, ExpireToken, Emit, Stop, Exit, TimerFires, Accepted, Refused, Ended,
      Broken, AbortSeen, parserVars
<1>5. CASE Read \/ MeetHeartbeat \/ DropBlock
  BY <1>5 DEF Read, MeetHeartbeat, DropBlock
<1>6. QED
  BY <1>2, <1>3, <1>4, <1>5 DEF IngestionNext, StreamStep

(* After SIGTERM the web worker hands no update over and begins at most    *)
(* one more connection.                                                    *)
THEOREM QuietFollowsDisconnect == IngestionSpec => QuietAfterDisconnect
<1>1. ASSUME LateInv, LateInv', [IngestionNext]_allVars
      PROVE  [Disconnected => delivered' = delivered /\ late' <= 1]_vars
  <2>1. late' <= 1
    BY <1>1, SMT DEF LateInv
  <2>2. QED
    BY <1>1, <2>1, OnlyAttachedDeliver
<1>2. QED
  BY <1>1, LateIsInvariant, PTL DEF IngestionSpec, QuietAfterDisconnect

-----------------------------------------------------------------------------
(* The framing.  What is read and not yet cut, and what is on its way, is  *)
(* one text: the pieces of the events the server has sent, in order, each  *)
(* event to its end.  Only the first may lack its beginning, and then it   *)
(* was in the buffer when a heartbeat was met.                             *)
Coming    == buffer \o wire
SizeOf(e) == Length[kind[e]]

Pieces ==
  \A i \in 1 .. Len(Coming) : Coming[i][1] \in 1 .. emitted /\ Coming[i][2] \in 0 .. SizeOf(Coming[i][1])

InOrder ==
  \A i, j \in 1 .. Len(Coming) : i < j =>
    \/ Coming[i][1] < Coming[j][1]
    \/ /\ Coming[i][1] = Coming[j][1] /\ Coming[i][2] # 0
       /\ Coming[j][2] = 0 \/ Coming[i][2] < Coming[j][2]

Complete ==
  \A i \in 1 .. Len(Coming) : Coming[i][2] # 0 =>
    LET last == i + SizeOf(Coming[i][1]) - Coming[i][2] IN
    /\ last + 1 <= Len(Coming)
    /\ \A j \in i .. last : Coming[j] = <<Coming[i][1], Coming[i][2] + (j - i)>>
    /\ Coming[last + 1] = <<Coming[i][1], 0>>

Torn ==
  \A i \in 1 .. Len(Coming) :
    Coming[i][1] \in shadowed \/ \E j \in 1 .. i : Coming[j] = <<Coming[i][1], 1>>

(* An event is received when its blank line is in the buffer.              *)
BlankLines ==
  \A i \in 1 .. Len(Coming) : Coming[i][2] = 0 => (Coming[i][1] \in received <=> i <= Len(buffer))

(* The text is ahead of what was delivered.                                *)
Ahead ==
  \A k \in 1 .. Len(delivered), i \in 1 .. Len(Coming) :
    delivered[k] < Coming[i][1] \/ (delivered[k] = Coming[i][1] /\ Coming[i][2] = 0)

TextInv == Pieces /\ InOrder /\ Complete /\ Torn /\ BlankLines /\ Ahead

(* The loop knows the next blank line, or goes by the place of the one     *)
(* behind a heartbeat, which is its length.                                *)
Known == sepAt # 0 /\ sepAt = FirstSep(buffer)
Stale == sepAt = Length["heartbeat"] + 1 /\ EventsOf(buffer) \subseteq shadowed

Undelivered(e) == \A k \in 1 .. Len(delivered) : delivered[k] # e
InBuffer(e)    == conn = "parsing" /\ \E i \in 1 .. Len(buffer) : buffer[i] = <<e, 1>>

LossInv ==
  ~Disconnected =>
    \A e \in received \ shadowed : kind[e] = "odds" /\ Undelivered(e) => InBuffer(e)

SentInv ==
  /\ received \subseteq 1 .. emitted
  /\ \A k \in 1 .. Len(delivered) : delivered[k] <= emitted

FrameInv ==
  /\ SentInv
  /\ Connected => TextInv
  /\ conn = "parsing" => Known \/ Stale
  /\ LossInv
  /\ DeliveredInOrder

(* Where the first blank line of a text is.                                *)
LEMMA FirstSepFacts ==
  ASSUME NEW X, NEW text \in Seq(X)
  PROVE  /\ FirstSep(text) \in 0 .. Len(text)
         /\ FirstSep(text) = 0 => \A i \in 1 .. Len(text) : text[i][2] # 0
         /\ FirstSep(text) # 0 => /\ text[FirstSep(text)][2] = 0
                                  /\ \A i \in 1 .. FirstSep(text) - 1 : text[i][2] # 0
<1> DEFINE S == {i \in 1 .. Len(text) : text[i][2] = 0}
<1>1. FirstSep(text) = IF S = {} THEN 0 ELSE CHOOSE m \in S : \A k \in S : m <= k
  BY DEF FirstSep, SelectInSeq, IsSep, Min
<1>2. CASE S = {}
  BY <1>1, <1>2
<1>3. CASE S # {}
  <2>1. S \in SUBSET Nat
    OBVIOUS
  <2>2. \E m \in S : \A k \in S : m <= k
    <3> HIDE DEF S
    <3> QED BY <1>3, <2>1, SmallestMember
  <2>3. FirstSep(text) \in S /\ \A k \in S : FirstSep(text) <= k
    BY <1>1, <1>3, <2>2, Zenon
  <2> QED BY <2>3
<1> QED BY <1>2, <1>3

(* The two halves of a text.                                               *)
LEMMA ConcatFacts ==
  ASSUME NEW X, NEW b \in Seq(X), NEW w \in Seq(X)
  PROVE  /\ b \o w \in Seq(X) /\ Len(b \o w) = Len(b) + Len(w)
         /\ Len(b) \in Nat /\ Len(w) \in Nat
         /\ \A i \in 1 .. Len(b) : (b \o w)[i] = b[i]
         /\ \A i \in 1 .. Len(w) : (b \o w)[Len(b) + i] = w[i]
OBVIOUS

LEMMA SubSeqFacts ==
  ASSUME NEW X, NEW s \in Seq(X), NEW m \in Nat \ {0}, NEW n \in Nat, n <= Len(s)
  PROVE  /\ SubSeq(s, m, n) \in Seq(X)
         /\ Len(SubSeq(s, m, n)) = IF m <= n THEN n - m + 1 ELSE 0
         /\ \A i \in 1 .. Len(SubSeq(s, m, n)) : SubSeq(s, m, n)[i] = s[m + i - 1]
<1>1. CASE m <= n
  <2>1. \A i \in m .. n : s[i] \in X
    BY <1>1
  <2> QED BY <1>1, <2>1
<1>2. CASE ~ (m <= n)
  BY <1>2
<1> QED BY <1>1, <1>2

-----------------------------------------------------------------------------
(* Types of the stream.                                                    *)
DataTypes ==
  /\ role \in {"backend", "web"} /\ kind \in [Events -> Kinds]
  /\ emitted \in 0 .. NumEvents
  /\ wire \in Seq(Events \X Nat) /\ buffer \in Seq(Events \X Nat) /\ sepAt \in Nat
  /\ delivered \in Seq(Events) /\ received \subseteq Events /\ shadowed \subseteq Events

ControlTypes ==
  /\ conn \in {"idle", "fetching", "reading", "parsing", "timer", "closed"}
  /\ stop \in {"no", "stopping", "exited"} /\ late \in 0 .. 2

FlagTypes == tokensValid \in BOOLEAN /\ aborted \in BOOLEAN

LEMMA TypeParts == TypeOK <=> DataTypes /\ ControlTypes /\ FlagTypes
  BY DEF TypeOK, DataTypes, ControlTypes, FlagTypes

LEMMA TypeInit == Init => TypeOK
<1> SUFFICES ASSUME Init PROVE TypeOK
  OBVIOUS
<1>1. DataTypes
  BY StreamAssumption DEF Init, DataTypes
<1>2. ControlTypes
  BY DEF Init, ControlTypes
<1>3. FlagTypes
  BY Zenon DEF Init, FlagTypes
<1> QED BY <1>1, <1>2, <1>3, TypeParts

LEMMA EventFacts ==
  ASSUME TypeOK, NEW e \in Events
  PROVE  /\ SizeOf(e) \in Nat \ {0} /\ kind[e] \in Kinds
         /\ Frame(e) \in Seq(Events \X Nat) /\ Len(Frame(e)) = SizeOf(e) + 1
         /\ \A i \in 1 .. SizeOf(e) : Frame(e)[i] = <<e, i>>
         /\ Frame(e)[SizeOf(e) + 1] = <<e, 0>>
<1>1. kind[e] \in Kinds /\ SizeOf(e) \in Nat \ {0}
  BY StreamAssumption DEF TypeOK, SizeOf
<1>2. Text(e) = [i \in 1 .. SizeOf(e) |-> <<e, i>>]
  BY DEF Text, SizeOf
<1>3. Text(e) \in Seq(Events \X Nat) /\ Len(Text(e)) = SizeOf(e)
  BY <1>1, <1>2
<1>4. <<e, 0>> \in Events \X Nat
  OBVIOUS
<1> QED BY <1>1, <1>2, <1>3, <1>4 DEF Frame

(* A chunk of what is on its way, and what is left of it.                  *)
LEMMA ChunkFacts ==
  ASSUME TypeOK, NEW n \in 1 .. Len(wire)
  PROVE  /\ SubSeq(wire, 1, n) \in Seq(Events \X Nat) /\ Len(SubSeq(wire, 1, n)) = n
         /\ \A i \in 1 .. n : SubSeq(wire, 1, n)[i] = wire[i]
         /\ SubSeq(wire, n + 1, Len(wire)) \in Seq(Events \X Nat)
         /\ Len(SubSeq(wire, n + 1, Len(wire))) = Len(wire) - n
         /\ \A i \in 1 .. Len(wire) - n : SubSeq(wire, n + 1, Len(wire))[i] = wire[n + i]
<1>1. wire \in Seq(Events \X Nat) /\ Len(wire) \in Nat
  BY DEF TypeOK
<1>2. /\ SubSeq(wire, 1, n) \in Seq(Events \X Nat) /\ Len(SubSeq(wire, 1, n)) = n
      /\ \A i \in 1 .. n : SubSeq(wire, 1, n)[i] = wire[i]
  BY <1>1, SubSeqFacts
<1>3. n + 1 \in Nat \ {0} /\ Len(wire) \in Nat
  BY <1>1
<1>4. PICK m \in Nat \ {0} : m = n + 1
  BY <1>3
<1>5. PICK t : t = SubSeq(wire, m, Len(wire))
  OBVIOUS
<1>6. /\ t \in Seq(Events \X Nat)
      /\ Len(t) = IF m <= Len(wire) THEN Len(wire) - m + 1 ELSE 0
      /\ \A i \in 1 .. Len(t) : t[i] = wire[m + i - 1]
  BY <1>1, <1>5, SubSeqFacts, SMTT(60)
<1> QED BY <1>1, <1>2, <1>4, <1>5, <1>6

(* What is cut off, and what is left.                                      *)
CutLen == IF sepAt < Len(buffer) THEN sepAt ELSE Len(buffer)

LEMMA RestFacts ==
  ASSUME TypeOK
  PROVE  /\ Rest \in Seq(Events \X Nat) /\ Len(Rest) = Len(buffer) - CutLen
         /\ CutLen \in 0 .. Len(buffer) /\ Len(buffer) \in Nat
         /\ \A i \in 1 .. Len(Rest) : Rest[i] = buffer[CutLen + i]
<1>1. buffer \in Seq(Events \X Nat) /\ Len(buffer) \in Nat /\ sepAt \in Nat
  BY DEF TypeOK
<1>2. PICK m \in Nat \ {0} : m = sepAt + 1
  BY <1>1
<1>3. PICK t : t = SubSeq(buffer, m, Len(buffer))
  OBVIOUS
<1>4. /\ t \in Seq(Events \X Nat)
      /\ Len(t) = IF m <= Len(buffer) THEN Len(buffer) - m + 1 ELSE 0
      /\ \A i \in 1 .. Len(t) : t[i] = buffer[m + i - 1]
  BY <1>1, <1>3, SubSeqFacts
<1>5. Rest = t
  BY <1>2, <1>3 DEF Rest
<1>6. CASE sepAt < Len(buffer)
  <2>1. CutLen = sepAt /\ Len(t) = Len(buffer) - sepAt
    BY <1>1, <1>2, <1>4, <1>6 DEF CutLen
  <2>2. \A i \in 1 .. Len(t) : t[i] = buffer[CutLen + i]
    <3>1. \A i \in 1 .. Len(t) : m + i - 1 = CutLen + i
      BY <1>1, <1>2, <2>1
    <3> QED BY <1>4, <3>1
  <2>3. CutLen \in 0 .. Len(buffer)
    BY <1>1, <1>6, <2>1
  <2> QED BY <1>1, <1>4, <1>5, <2>1, <2>2, <2>3
<1>7. CASE ~ (sepAt < Len(buffer))
  <2>1. CutLen = Len(buffer) /\ Len(t) = 0
    BY <1>1, <1>2, <1>4, <1>7 DEF CutLen
  <2> QED BY <1>1, <1>4, <1>5, <2>1
<1> QED BY <1>6, <1>7

LEMMA BlockFacts ==
  ASSUME TypeOK, sepAt # 0
  PROVE  /\ Block \in Seq(Events \X Nat) /\ Len(Block) <= sepAt - 1
         /\ Len(Block) \in 0 .. CutLen
         /\ sepAt <= Len(buffer) => Len(Block) = sepAt - 1
         /\ \A i \in 1 .. Len(Block) : Block[i] = buffer[i]
<1>1. buffer \in Seq(Events \X Nat) /\ Len(buffer) \in Nat /\ sepAt \in Nat \ {0}
  BY DEF TypeOK
<1>2. PICK n \in Nat : n = (IF sepAt - 1 < Len(buffer) THEN sepAt - 1 ELSE Len(buffer))
  BY <1>1
<1>3. PICK u : u = SubSeq(buffer, 1, n)
  OBVIOUS
<1>4. 1 \in Nat \ {0} /\ n <= Len(buffer)
  BY <1>1, <1>2
<1>5. /\ u \in Seq(Events \X Nat)
      /\ Len(u) = IF 1 <= n THEN n - 1 + 1 ELSE 0
      /\ \A i \in 1 .. Len(u) : u[i] = buffer[1 + i - 1]
  BY <1>1, <1>3, <1>4, SubSeqFacts
<1>6. Block = u
  BY <1>2, <1>3 DEF Block
<1>7. Len(u) = n /\ \A i \in 1 .. Len(u) : u[i] = buffer[i]
  BY <1>5
<1>8. n <= sepAt - 1 /\ (sepAt <= Len(buffer) => n = sepAt - 1) /\ n \in 0 .. CutLen
  BY <1>1, <1>2 DEF CutLen
<1> QED BY <1>5, <1>6, <1>7, <1>8

LEMMA StepType ==
  ASSUME TypeOK, Start \/ ExpireToken \/ StreamStep \/ Emit \/ Stop \/ Exit
  PROVE  TypeOK'
<1> USE StreamAssumption
<1>1. ASSUME UNCHANGED <<role, kind, emitted, tokensValid, parserVars>>, wire' = wire \/ wire' = <<>>,
             conn' \in {"idle", "fetching", "reading", "parsing", "timer", "closed"},
             late' \in 0 .. 2, stop' = stop, aborted' \in BOOLEAN
      PROVE  TypeOK'
  <2>1. DataTypes'
    <3>1. wire' \in Seq(Events \X Nat)
      <4>1. wire \in Seq(Events \X Nat) /\ <<>> \in Seq(Events \X Nat)
        BY DEF TypeOK
      <4> QED BY <1>1, <4>1, Zenon
    <3> QED BY <1>1, <3>1, TypeParts DEF DataTypes, parserVars
  <2>2. ControlTypes'
    BY <1>1, TypeParts DEF ControlTypes
  <2>3. FlagTypes'
    BY <1>1, TypeParts, Zenon DEF FlagTypes
  <2> QED BY <2>1, <2>2, <2>3 DEF TypeOK, DataTypes, ControlTypes, FlagTypes
<1>2. CASE Start \/ TimerFires
  <2>1. /\ late \in 0 .. 2 /\ aborted \in BOOLEAN
    BY DEF TypeOK
  <2>2. late' \in 0 .. 2 /\ conn' \in {"fetching", "closed"} /\ stop' = stop
    BY <1>2, <2>1 DEF Start, TimerFires, Connect
  <2>3. aborted' \in BOOLEAN
    BY <1>2, <2>1, Zenon DEF Start, TimerFires, Connect
  <2> QED BY <1>1, <1>2, <2>2, <2>3 DEF Start, TimerFires, serverVars
<1>3. CASE Emit
  <2>1. emitted + 1 \in Events /\ emitted' = emitted + 1
    BY <1>3 DEF Emit, TypeOK, Events
  <2>2. wire' \in Seq(Events \X Nat)
    <3>1. Frame(emitted + 1) \in Seq(Events \X Nat)
      BY <2>1, EventFacts
    <3> QED BY <3>1, <1>3 DEF Emit, TypeOK
  <2> QED BY <1>3, <2>1, <2>2 DEF Emit, TypeOK, parserVars, Events
<1>4. CASE ExpireToken \/ Stop \/ Exit
  BY <1>4 DEF ExpireToken, Stop, Exit, serverVars, parserVars, TypeOK
<1>5. CASE Accepted
  BY <1>5 DEF Accepted, TypeOK
<1>6. CASE Refused \/ Ended \/ Broken \/ AbortSeen
  <2>1. /\ late' = late /\ late \in 0 .. 2 /\ conn' \in {"timer", "closed"}
        /\ stop' = stop /\ aborted' = aborted /\ aborted \in BOOLEAN
    BY <1>6 DEF Refused, Ended, Broken, AbortSeen, AfterFailure, TypeOK
  <2> QED BY <1>1, <1>6, <2>1 DEF Refused, Ended, Broken, AbortSeen, serverVars
<1>7. CASE Read
  <2>1. PICK n \in 1 .. Len(wire) :
          /\ buffer' = buffer \o SubSeq(wire, 1, n)
          /\ wire' = SubSeq(wire, n + 1, Len(wire))
          /\ received' = received \cup {p[1] : p \in {q \in Range(SubSeq(wire, 1, n)) : IsSep(q)}}
    BY <1>7 DEF Read, TextAfter
  <2>2. /\ SubSeq(wire, 1, n) \in Seq(Events \X Nat)
        /\ wire' \in Seq(Events \X Nat)
    BY <2>1, ChunkFacts
  <2>3. buffer' \in Seq(Events \X Nat)
    BY <2>1, <2>2 DEF TypeOK
  <2>4. received' \subseteq Events
    BY <2>1, <2>2, SMTT(60) DEF TypeOK, Range
  <2>5. sepAt' \in Nat
    <3>1. PICK b : b = buffer'
      OBVIOUS
    <3>2. FirstSep(b) \in 0 .. Len(b)
      BY <2>3, <3>1, FirstSepFacts
    <3> QED BY <2>3, <3>1, <3>2, <1>7 DEF Read
  <2> QED BY <1>7, <2>2, <2>3, <2>4, <2>5 DEF Read, TypeOK
<1>8. Rest \in Seq(Events \X Nat) /\ FirstSep(Rest) \in Nat
  <2>1. Rest \in Seq(Events \X Nat)
    BY RestFacts
  <2>2. FirstSep(Rest) \in 0 .. Len(Rest)
    BY <2>1, FirstSepFacts
  <2> QED BY <2>1, <2>2
<1>9. CASE MeetHeartbeat
  <2>1. EventsOf(Rest) \subseteq Events
    BY <1>8 DEF EventsOf, Range
  <2> QED BY <1>8, <1>9, <2>1 DEF MeetHeartbeat, TypeOK, serverVars
<1>10. CASE Deliver \/ DropBlock
  <2>1. delivered' \in Seq(Events)
    <3>1. delivered \in Seq(Events)
      BY DEF TypeOK
    <3>2. CASE DropBlock
      BY <3>1, <3>2 DEF DropBlock
    <3>3. CASE Deliver
      <4>1. PICK e \in Parsed(Block) :
              delivered' = IF Attached THEN Append(delivered, e) ELSE delivered
        BY <3>3 DEF Deliver
      <4>2. e \in Events
        BY DEF Parsed
      <4> QED BY <3>1, <4>1, <4>2
    <3> QED BY <1>10, <3>2, <3>3
  <2>2. conn' \in {"reading", "parsing"} /\ buffer' = Rest /\ sepAt' = FirstSep(Rest)
    BY <1>10 DEF Deliver, DropBlock, NextBlock
  <2>3. UNCHANGED <<serverVars, received, shadowed, aborted, stop, late>>
    BY <1>10 DEF Deliver, DropBlock
  <2> QED BY <1>8, <2>1, <2>2, <2>3 DEF TypeOK, serverVars
<1> QED BY <1>2, <1>3, <1>4, <1>5, <1>6, <1>7, <1>9, <1>10 DEF StreamStep

(* The stream and its start keep to their types, however long the events   *)
(* and however they are cut.                                               *)
THEOREM IngestionTypes == IngestionSpec => []IngestionTypeOK
<1>1. IngestionInit => TypeOK
  BY TypeInit DEF IngestionInit
<1>2. TypeOK /\ [IngestionNext]_allVars => TypeOK'
  <2> SUFFICES ASSUME TypeOK, [IngestionNext]_allVars PROVE TypeOK'
    OBVIOUS
  <2>1. CASE UNCHANGED vars
    BY <2>1 DEF vars, serverVars, parserVars, TypeOK
  <2>2. CASE BootStep
    BY <2>1, <2>2 DEF BootStep, Answered, NotServed, AnswerLost, BadBody, Upsert, UpsertFails,
      Synced, Starting
  <2> QED BY <2>1, <2>2, StepType DEF IngestionNext, allVars
<1>3. BootInv /\ TypeOK => IngestionTypeOK
  BY DEF BootInv, BootTypeOK, IngestionTypeOK
<1> QED BY <1>1, <1>2, <1>3, BootIsInvariant, PTL DEF IngestionSpec

-----------------------------------------------------------------------------
LEMMA ComingFacts ==
  ASSUME TypeOK
  PROVE  /\ Coming \in Seq(Events \X Nat) /\ Len(Coming) = Len(buffer) + Len(wire)
         /\ Len(buffer) \in Nat /\ Len(wire) \in Nat
         /\ \A i \in 1 .. Len(buffer) : Coming[i] = buffer[i]
         /\ \A i \in 1 .. Len(wire) : Coming[Len(buffer) + i] = wire[i]
         /\ \A i \in 1 .. Len(Coming) : /\ Coming[i][1] \in Events /\ Coming[i][2] \in Nat
                                        /\ Coming[i] = <<Coming[i][1], Coming[i][2]>>
<1>1. buffer \in Seq(Events \X Nat) /\ wire \in Seq(Events \X Nat)
  BY DEF TypeOK
<1>2. /\ Coming \in Seq(Events \X Nat) /\ Len(Coming) = Len(buffer) + Len(wire)
      /\ Len(buffer) \in Nat /\ Len(wire) \in Nat
      /\ \A i \in 1 .. Len(buffer) : Coming[i] = buffer[i]
      /\ \A i \in 1 .. Len(wire) : Coming[Len(buffer) + i] = wire[i]
  BY <1>1, ConcatFacts DEF Coming
<1>3. \A i \in 1 .. Len(Coming) : Coming[i] \in Events \X Nat
  BY <1>2
<1> QED BY <1>2, <1>3

(* Cutting moves the text by the length of the cut.                        *)
LEMMA CutMoves ==
  ASSUME TypeOK, buffer' = Rest, wire' = wire
  PROVE  /\ CutLen \in 0 .. Len(buffer) /\ Len(buffer') = Len(buffer) - CutLen
         /\ Len(Coming') = Len(Coming) - CutLen /\ Len(Coming) \in Nat /\ Len(buffer) <= Len(Coming)
         /\ \A i \in 1 .. Len(Coming') : Coming'[i] = Coming[CutLen + i]
<1>1. wire \in Seq(Events \X Nat) /\ Rest \in Seq(Events \X Nat)
  BY RestFacts DEF TypeOK
<1>2. PICK r : r = Rest
  OBVIOUS
<1>3. PICK w : w = wire
  OBVIOUS
<1>4. /\ Len(r \o w) = Len(r) + Len(w)
      /\ Len(r) \in Nat /\ Len(w) \in Nat
      /\ \A i \in 1 .. Len(r) : (r \o w)[i] = r[i]
      /\ \A i \in 1 .. Len(w) : (r \o w)[Len(r) + i] = w[i]
  BY <1>1, <1>2, <1>3, ConcatFacts
<1>5. Coming' = r \o w
  BY <1>2, <1>3 DEF Coming
<1>6. /\ CutLen \in 0 .. Len(buffer) /\ Len(r) = Len(buffer) - CutLen
      /\ \A i \in 1 .. Len(r) : r[i] = buffer[CutLen + i]
  BY <1>2, RestFacts
<1>7. /\ Len(Coming) = Len(buffer) + Len(wire) /\ Len(buffer) \in Nat /\ Len(wire) \in Nat
      /\ \A i \in 1 .. Len(buffer) : Coming[i] = buffer[i]
      /\ \A i \in 1 .. Len(wire) : Coming[Len(buffer) + i] = wire[i]
  BY ComingFacts
<1>8. ASSUME NEW i \in 1 .. Len(Coming') PROVE Coming'[i] = Coming[CutLen + i]
  <2>1. CASE i <= Len(r)
    <3>1. Coming'[i] = r[i] /\ r[i] = buffer[CutLen + i]
      BY <2>1, <1>4, <1>5, <1>6
    <3>2. CutLen + i \in 1 .. Len(buffer)
      BY <2>1, <1>6, <1>7
    <3> QED BY <3>1, <3>2, <1>7
  <2>2. CASE ~ (i <= Len(r))
    <3>1. PICK k \in 1 .. Len(w) : i = Len(r) + k
      <4>1. i - Len(r) \in 1 .. Len(w) /\ i = Len(r) + (i - Len(r))
        BY <2>2, <1>4, <1>5
      <4> QED BY <4>1
    <3>2. Coming'[i] = w[k] /\ Coming[Len(buffer) + k] = w[k]
      BY <3>1, <1>3, <1>4, <1>5, <1>7
    <3>3. CutLen + i = Len(buffer) + k
      BY <3>1, <1>6, <1>7
    <3> QED BY <3>2, <3>3
  <2> QED BY <2>1, <2>2
<1> QED BY <1>2, <1>3, <1>4, <1>5, <1>6, <1>7, <1>8, SMTT(60)

(* The text that is left is as good as the whole.                          *)
LEMMA CutKeepsText ==
  ASSUME TypeOK, TextInv, Known \/ Stale, buffer' = Rest,
         UNCHANGED <<wire, kind, emitted, received>>, shadowed \subseteq shadowed'
  PROVE  Pieces' /\ InOrder' /\ Complete' /\ Torn' /\ BlankLines'
<1>1. /\ CutLen \in 0 .. Len(buffer) /\ Len(buffer') = Len(buffer) - CutLen /\ Len(buffer) \in Nat
      /\ Len(Coming') = Len(Coming) - CutLen /\ Len(Coming) \in Nat /\ Len(buffer) <= Len(Coming)
      /\ \A i \in 1 .. Len(Coming') : /\ CutLen + i \in 1 .. Len(Coming)
                                      /\ Coming'[i] = Coming[CutLen + i]
  BY CutMoves, RestFacts
<1>2. \A i \in 1 .. Len(Coming) : Coming[i][1] \in Events /\ Coming[i][2] \in Nat
  BY ComingFacts
<1>3. \A e \in Events : SizeOf(e)' = SizeOf(e) /\ SizeOf(e) \in Nat
  BY EventFacts DEF SizeOf
<1>4. Pieces'
  BY <1>1, <1>2, <1>3, SMTT(60) DEF TextInv, Pieces
<1>5. InOrder'
  <2> SUFFICES ASSUME NEW i \in 1 .. Len(Coming'), NEW j \in 1 .. Len(Coming'), i < j
               PROVE  \/ Coming'[i][1] < Coming'[j][1]
                      \/ /\ Coming'[i][1] = Coming'[j][1] /\ Coming'[i][2] # 0
                         /\ Coming'[j][2] = 0 \/ Coming'[i][2] < Coming'[j][2]
    BY DEF InOrder
  <2>1. PICK k \in 1 .. Len(Coming) : k = CutLen + i /\ Coming'[i] = Coming[k]
    BY <1>1
  <2>2. PICK m \in 1 .. Len(Coming) : m = CutLen + j /\ Coming'[j] = Coming[m]
    BY <1>1
  <2>3. k < m
    BY <1>1, <2>1, <2>2
  <2> QED BY <2>1, <2>2, <2>3 DEF TextInv, InOrder
<1>6. Complete'
  <2> SUFFICES ASSUME NEW i \in 1 .. Len(Coming'), Coming'[i][2] # 0,
                      NEW last, last = i + SizeOf(Coming'[i][1]) - Coming'[i][2]
               PROVE  /\ last + 1 <= Len(Coming')
                      /\ \A j \in i .. last : Coming'[j] = <<Coming'[i][1], Coming'[i][2] + (j - i)>>
                      /\ Coming'[last + 1] = <<Coming'[i][1], 0>>
    BY <1>1, <1>2, <1>3 DEF Complete
  <2>0. /\ CutLen \in Nat /\ Len(Coming) \in Nat /\ Len(Coming') = Len(Coming) - CutLen
        /\ Len(Coming') \in Nat /\ i \in Nat /\ 1 <= i
    BY <1>1
  <2>1. PICK p : p = Coming'[i]
    OBVIOUS
  <2>2. PICK k \in 1 .. Len(Coming) : k = CutLen + i
    BY <1>1
  <2>3. Coming[k] = p /\ p[1] \in Events /\ p[2] \in Nat /\ SizeOf(p[1]) \in Nat
    BY <1>1, <1>2, <1>3, <2>1, <2>2
  <2>4. PICK end \in Int : end = k + SizeOf(p[1]) - p[2]
    BY <2>3
  <2>5. /\ end + 1 <= Len(Coming)
        /\ \A j \in k .. end : Coming[j] = <<p[1], p[2] + (j - k)>>
        /\ Coming[end + 1] = <<p[1], 0>>
    BY <2>1, <2>3, <2>4 DEF TextInv, Complete
  <2>6. last \in Int /\ last = end - CutLen /\ last + 1 <= Len(Coming') /\ i <= last + 1
    <3>1. p[2] <= SizeOf(p[1])
      BY <2>3 DEF TextInv, Pieces
    <3>2. last = i + SizeOf(p[1]) - p[2] /\ i \in Nat /\ CutLen \in Nat
      BY <2>1, <1>1
    <3>3. last \in Int /\ i <= last + 1 /\ last = end - CutLen
      BY <2>2, <2>3, <2>4, <3>1, <3>2, SMTT(60)
    <3>4. end + 1 <= Len(Coming)
      BY <2>5
    <3>5. last + 1 <= Len(Coming')
      BY <2>0, <3>3, <3>4, SMTT(60)
    <3> QED BY <3>3, <3>5
  <2>7. \A j \in i .. last : Coming'[j] = <<p[1], p[2] + (j - i)>>
    <3> SUFFICES ASSUME NEW j \in i .. last PROVE Coming'[j] = <<p[1], p[2] + (j - i)>>
      OBVIOUS
    <3>1. j \in 1 .. Len(Coming') /\ CutLen + j \in k .. end /\ (CutLen + j) - k = j - i
      BY <2>2, <2>4, <2>6, <1>1, SMTT(60)
    <3> QED BY <3>1, <2>5, <1>1
  <2>8. Coming'[last + 1] = <<p[1], 0>>
    <3>1. last + 1 \in 1 .. Len(Coming') /\ CutLen + (last + 1) = end + 1
      BY <2>0, <2>6, SMTT(60)
    <3> QED BY <3>1, <2>5, <1>1
  <2> QED BY <2>1, <2>6, <2>7, <2>8
<1>7. BlankLines'
  <2> SUFFICES ASSUME NEW i \in 1 .. Len(Coming'), Coming'[i][2] = 0
               PROVE  Coming'[i][1] \in received <=> i <= Len(buffer')
    BY DEF BlankLines
  <2>1. PICK k \in 1 .. Len(Coming) : k = CutLen + i /\ Coming'[i] = Coming[k]
    BY <1>1
  <2>2. Coming'[i][1] \in received <=> k <= Len(buffer)
    BY <2>1 DEF TextInv, BlankLines
  <2>3. k <= Len(buffer) <=> i <= Len(buffer')
    BY <1>1, <2>1
  <2> QED BY <2>2, <2>3
<1>8. Torn'
  <2> SUFFICES ASSUME NEW i \in 1 .. Len(Coming'), Coming'[i][1] \notin shadowed'
               PROVE  \E j \in 1 .. i : Coming'[j] = <<Coming'[i][1], 1>>
    BY DEF Torn
  <2>1. PICK e : e = Coming'[i][1]
    OBVIOUS
  <2>2. PICK k \in 1 .. Len(Coming) : k = CutLen + i /\ Coming[k][1] = e
    BY <1>1, <2>1
  <2>3. PICK m \in 1 .. k : Coming[m] = <<e, 1>>
    BY <2>1, <2>2 DEF TextInv, Torn
  <2>4. ASSUME m <= CutLen PROVE FALSE
    <3>1. buffer[m] = <<e, 1>> /\ m \in 1 .. Len(buffer)
      <4>1. m \in 1 .. Len(buffer)
        BY <2>2, <2>4, <1>1
      <4> QED BY <2>3, <4>1, ComingFacts
    <3>2. CASE Stale
      <4>1. e \in EventsOf(buffer)
        <5>1. buffer \in Seq(Events \X Nat)
          BY DEF TypeOK
        <5>2. buffer[m] \in Range(buffer)
          BY <3>1, <5>1 DEF Range
        <5> QED BY <3>1, <5>2 DEF EventsOf
      <4> QED BY <4>1, <3>2, <2>1 DEF Stale
    <3>3. CASE Known
      <4>1. /\ sepAt \in 1 .. Len(buffer) /\ buffer[sepAt][2] = 0
        BY <3>3, FirstSepFacts, SMTT(60) DEF Known, TypeOK
      <4>2. CutLen = sepAt /\ Coming[sepAt][2] = 0
        BY <4>1, <1>1, ComingFacts, SMTT(60) DEF CutLen
      <4>3. m < sepAt /\ sepAt < k /\ sepAt \in 1 .. Len(Coming)
        BY <4>1, <4>2, <2>2, <2>3, <2>4, <1>1, SMTT(60)
      <4>4. e <= Coming[sepAt][1] /\ Coming[sepAt][1] < e
        <5>1. e < Coming[sepAt][1] \/ e = Coming[sepAt][1]
          BY <4>3, <2>2, <2>3, SMTT(60) DEF TextInv, InOrder
        <5>2. Coming[sepAt][1] < e
          BY <4>2, <4>3, <2>2 DEF TextInv, InOrder
        <5>3. e \in Int /\ Coming[sepAt][1] \in Int
          BY <4>3, <2>2, <1>2 DEF Events
        <5> QED BY <5>1, <5>2, <5>3
      <4>5. e \in Int /\ Coming[sepAt][1] \in Int
        BY <4>3, <2>2, <1>2 DEF Events
      <4> QED BY <4>4, <4>5
    <3> QED BY <3>2, <3>3
  <2>5. m - CutLen \in 1 .. i /\ Coming'[m - CutLen] = Coming[m]
    <3>1. m - CutLen \in 1 .. i /\ CutLen + (m - CutLen) = m
      BY <2>2, <2>3, <2>4, <1>1
    <3>2. m - CutLen \in 1 .. Len(Coming')
      BY <3>1, <1>1, SMTT(60)
    <3>3. Coming'[m - CutLen] = Coming[CutLen + (m - CutLen)]
      BY <3>2, <1>1
    <3> QED BY <3>1, <3>3
  <2> QED BY <2>1, <2>3, <2>5
<1> QED BY <1>4, <1>5, <1>6, <1>7, <1>8

-----------------------------------------------------------------------------
(* When the loop knows the blank line, a block that holds the beginning of *)
(* an event is that event.                                                 *)
LEMMA WholeBlock ==
  ASSUME TypeOK, TextInv, Known, NEW e \in Events, NEW m \in 1 .. sepAt - 1, buffer[m] = <<e, 1>>
  PROVE  /\ m = 1 /\ sepAt = SizeOf(e) + 1 /\ sepAt <= Len(buffer)
         /\ buffer[sepAt] = <<e, 0>> /\ e \in received
         /\ \A j \in 1 .. SizeOf(e) : buffer[j] = <<e, j>>
<1>1. /\ Len(buffer) \in Nat /\ Len(Coming) \in Nat /\ Len(buffer) <= Len(Coming)
      /\ \A i \in 1 .. Len(buffer) : Coming[i] = buffer[i]
      /\ \A i \in 1 .. Len(Coming) : Coming[i][1] \in Events /\ Coming[i][2] \in Nat
  BY ComingFacts, SMTT(60)
<1>2. /\ sepAt \in 1 .. Len(buffer) /\ buffer[sepAt][2] = 0
      /\ \A i \in 1 .. sepAt - 1 : buffer[i][2] # 0
  <2>1. buffer \in Seq(Events \X Nat) /\ sepAt = FirstSep(buffer) /\ sepAt # 0
    BY DEF Known, TypeOK
  <2>2. PICK b : b = buffer
    OBVIOUS
  <2>3. FirstSep(b) \in 1 .. Len(b) /\ b[FirstSep(b)][2] = 0 /\ Len(b) \in Nat
        /\ \A i \in 1 .. FirstSep(b) - 1 : b[i][2] # 0
    BY <2>1, <2>2, FirstSepFacts, SMTT(30)
  <2> QED BY <2>1, <2>2, <2>3
<1>3. /\ sepAt \in 1 .. Len(Coming) /\ Coming[sepAt][2] = 0
      /\ \A i \in 1 .. sepAt - 1 : i \in 1 .. Len(Coming) /\ Coming[i] = buffer[i] /\ Coming[i][2] # 0
  <2>1. sepAt \in 1 .. Len(Coming) /\ Coming[sepAt] = buffer[sepAt]
    BY <1>1, <1>2
  <2>2. ASSUME NEW i \in 1 .. sepAt - 1 PROVE i \in 1 .. Len(buffer) /\ i \in 1 .. Len(Coming)
    BY <1>1, <1>2
  <2> QED BY <1>1, <1>2, <2>1, <2>2
<1>4. PICK L \in Nat \ {0} : L = SizeOf(e)
  BY EventFacts
<1>5. Coming[m] = <<e, 1>> /\ m \in 1 .. Len(Coming)
  BY <1>3
(* Where an event that begins before the blank line has its own.           *)
<1>6. ASSUME NEW i \in 1 .. sepAt - 1
      PROVE  Coming[sepAt] = <<Coming[i][1], 0>> /\ sepAt = i + SizeOf(Coming[i][1]) - Coming[i][2] + 1
  <2>1. PICK f \in Events : f = Coming[i][1]
    BY <1>1, <1>3
  <2>2. PICK k \in Nat : k = Coming[i][2] /\ k # 0
    BY <1>1, <1>3
  <2>3. PICK S \in Nat : S = SizeOf(f)
    BY EventFacts
  <2>4. k <= S
    BY <1>3, <2>1, <2>2, <2>3 DEF TextInv, Pieces
  <2>5. PICK last \in Int : last = i + S - k
    OBVIOUS
  <2>6. /\ last + 1 <= Len(Coming)
        /\ \A j \in i .. last : Coming[j] = <<f, k + (j - i)>>
        /\ Coming[last + 1] = <<f, 0>>
    BY <1>3, <2>1, <2>2, <2>3, <2>5 DEF TextInv, Complete
  <2>7. ~ (sepAt <= last)
    <3> SUFFICES ASSUME sepAt <= last PROVE FALSE
      OBVIOUS
    <3>1. sepAt \in i .. last
      BY <1>2
    <3>2. Coming[sepAt][2] = k + (sepAt - i)
      BY <2>6, <3>1
    <3> QED BY <1>2, <1>3, <2>2, <3>1, <3>2, SMTT(60)
  <2>8. ~ (last + 1 < sepAt)
    <3> SUFFICES ASSUME last + 1 < sepAt PROVE FALSE
      OBVIOUS
    <3>1. last + 1 \in 1 .. sepAt - 1
      BY <1>2, <2>4, <2>5
    <3> QED BY <1>3, <2>6, <3>1
  <2>9. sepAt = last + 1
    BY <1>2, <2>5, <2>7, <2>8
  <2> QED BY <2>1, <2>2, <2>3, <2>5, <2>6, <2>9
<1>7. Coming[sepAt] = <<e, 0>> /\ sepAt = m + L
  <2>1. Coming[sepAt] = <<Coming[m][1], 0>> /\ sepAt = m + SizeOf(Coming[m][1]) - Coming[m][2] + 1
    BY <1>6
  <2>2. Coming[m][1] = e /\ Coming[m][2] = 1
    BY <1>5
  <2> QED BY <1>2, <1>4, <2>1, <2>2
<1>8. m = 1
  <2> SUFFICES ASSUME m # 1 PROVE FALSE
    OBVIOUS
  <2>1. 1 \in 1 .. sepAt - 1 /\ 1 < m
    BY <1>2
  <2>2. Coming[sepAt][1] = Coming[1][1]
    BY <1>6, <2>1
  <2>3. Coming[1][1] = e
    BY <1>7, <2>2
  <2>4. Coming[1][2] < 1
    BY <1>3, <1>5, <2>1, <2>3 DEF TextInv, InOrder, Events
  <2> QED BY <1>1, <1>3, <2>1, <2>4
<1>9. \A j \in 1 .. L : buffer[j] = <<e, j>>
  <2> SUFFICES ASSUME NEW j \in 1 .. L PROVE buffer[j] = <<e, j>>
    OBVIOUS
  <2>1. j \in 1 .. sepAt - 1
    BY <1>7, <1>8
  <2>2. \A i \in 1 .. (1 + SizeOf(e) - 1) : Coming[i] = <<e, 1 + (i - 1)>>
    BY <1>5, <1>8 DEF TextInv, Complete
  <2>3. j \in 1 .. (1 + SizeOf(e) - 1)
    BY <1>4
  <2>4. Coming[j] = <<e, 1 + (j - 1)>>
    BY <2>2, <2>3
  <2> QED BY <1>3, <2>1, <2>4
<1>10. e \in received
  <2>1. Coming[sepAt][1] \in received <=> sepAt <= Len(buffer)
    BY <1>3 DEF TextInv, BlankLines
  <2> QED BY <1>2, <1>7, <2>1
<1> QED BY <1>2, <1>3, <1>4, <1>7, <1>8, <1>9, <1>10, <1>1

LEMMA TextRange ==
  ASSUME TypeOK, NEW e \in Events
  PROVE  Range(Text(e)) = {<<e, k>> : k \in 1 .. SizeOf(e)} /\ 1 \in 1 .. SizeOf(e)
<1>1. SizeOf(e) \in Nat \ {0}
  BY EventFacts
<1>2. Text(e) = [i \in 1 .. SizeOf(e) |-> <<e, i>>]
  BY DEF Text, SizeOf
<1> QED BY <1>1, <1>2 DEF Range

(* What parses is whole in the block, and the only event that begins there.*)
LEMMA ParsedFacts ==
  ASSUME TypeOK, sepAt # 0, NEW e \in Parsed(Block)
  PROVE  /\ e \in Events
         /\ \A k \in 1 .. SizeOf(e) : \E j \in 1 .. Len(Block) : buffer[j] = <<e, k>>
         /\ \A f \in Events : \A j \in 1 .. Len(Block) : buffer[j] = <<f, 1>> => f = e
<1>1. /\ Block \in Seq(Events \X Nat)
      /\ \A i \in 1 .. Len(Block) : Block[i] = buffer[i]
  BY BlockFacts
<1>2. /\ e \in Events
      /\ {f \in Events : <<f, 1>> \in Range(Block)} = {e}
      /\ Range(Text(e)) \subseteq Range(Block)
  BY DEF Parsed
<1>3. Range(Block) = {Block[i] : i \in 1 .. Len(Block)}
  BY <1>1 DEF Range
<1>4. Range(Text(e)) = {<<e, k>> : k \in 1 .. SizeOf(e)}
  BY <1>2, TextRange
<1>5. ASSUME NEW k \in 1 .. SizeOf(e)
      PROVE  \E j \in 1 .. Len(Block) : buffer[j] = <<e, k>>
  <2>1. <<e, k>> \in {Block[i] : i \in 1 .. Len(Block)}
    BY <1>2, <1>3, <1>4
  <2> QED BY <1>1, <2>1
<1>6. ASSUME NEW f \in Events, NEW j \in 1 .. Len(Block), buffer[j] = <<f, 1>> PROVE f = e
  <2>1. <<f, 1>> \in Range(Block)
    BY <1>1, <1>3, <1>6
  <2> QED BY <1>2, <2>1
<1> QED BY <1>2, <1>5, <1>6

(* A block that is an event parses as that event.                          *)
LEMMA EventParses ==
  ASSUME TypeOK, TextInv, Known, NEW e \in Events, NEW m \in 1 .. sepAt - 1, buffer[m] = <<e, 1>>
  PROVE  Parsed(Block) = {e}
<1>1. /\ sepAt = SizeOf(e) + 1 /\ sepAt <= Len(buffer) /\ m = 1
      /\ \A j \in 1 .. SizeOf(e) : buffer[j] = <<e, j>>
  BY WholeBlock
<1>2. /\ Block \in Seq(Events \X Nat) /\ Len(Block) = SizeOf(e)
      /\ \A i \in 1 .. Len(Block) : Block[i] = buffer[i]
  <2>1. sepAt # 0 /\ SizeOf(e) \in Nat
    BY EventFacts DEF Known
  <2>2. Len(Block) = sepAt - 1
    BY <1>1, <2>1, BlockFacts
  <2> QED BY <1>1, <2>1, <2>2, BlockFacts
<1>3. Range(Block) = {<<e, k>> : k \in 1 .. SizeOf(e)}
  <2>1. Range(Block) = {Block[i] : i \in 1 .. SizeOf(e)}
    BY <1>2, SMTT(60) DEF Range
  <2>2. \A i \in 1 .. SizeOf(e) : Block[i] = <<e, i>>
    BY <1>1, <1>2
  <2> QED BY <2>1, <2>2
<1>4. \A f \in Events : Range(Text(f)) = {<<f, k>> : k \in 1 .. SizeOf(f)} /\ 1 \in 1 .. SizeOf(f)
  BY TextRange
<1>5. \A f \in Events : <<f, 1>> \in Range(Block) <=> f = e
  BY <1>3, <1>4
<1>6. {f \in Events : <<f, 1>> \in Range(Block)} = {e}
  BY <1>5
<1> QED BY <1>3, <1>4, <1>6 DEF Parsed

-----------------------------------------------------------------------------
(* An update that is whole in the text behind the cut is still there after *)
(* it, with a blank line to stop the loop from waiting.                    *)
LEMMA BehindCut ==
  ASSUME TypeOK, TextInv, Known, NEW e \in received, NEW i \in 1 .. Len(buffer),
         buffer[i] = <<e, 1>>, sepAt < i
  PROVE  /\ \E j \in 1 .. Len(Rest) : Rest[j] = <<e, 1>>
         /\ FirstSep(Rest) # 0
<1>1. /\ Len(buffer) \in Nat /\ Len(Coming) \in Nat /\ Len(buffer) <= Len(Coming)
      /\ \A j \in 1 .. Len(buffer) : Coming[j] = buffer[j]
      /\ e \in Events /\ sepAt \in Nat /\ sepAt # 0
  BY ComingFacts, SMTT(60) DEF TypeOK, Known
<1>2. /\ Rest \in Seq(Events \X Nat) /\ Len(Rest) = Len(buffer) - sepAt
      /\ \A j \in 1 .. Len(Rest) : Rest[j] = buffer[sepAt + j]
  <2>1. CutLen = sepAt
    BY <1>1 DEF CutLen
  <2> QED BY <2>1, RestFacts
<1>3. PICK L \in Nat \ {0} : L = SizeOf(e)
  BY <1>1, EventFacts
<1>4. PICK last \in Nat : last = i + L - 1
  BY <1>1
<1>5. last + 1 <= Len(Coming) /\ Coming[last + 1] = <<e, 0>>
  <2>1. i \in 1 .. Len(Coming) /\ Coming[i] = <<e, 1>> /\ last = i + SizeOf(e) - 1
    BY <1>1, <1>3, <1>4, SMTT(60)
  <2>2. Coming[i][1] = e /\ Coming[i][2] = 1 /\ Coming[i][2] # 0
    BY <2>1
  <2> QED BY <2>1, <2>2 DEF TextInv, Complete
<1>6. last + 1 <= Len(buffer)
  <2>1. last + 1 \in 1 .. Len(Coming) /\ Coming[last + 1][1] = e /\ Coming[last + 1][2] = 0
    BY <1>1, <1>5
  <2> QED BY <2>1 DEF TextInv, BlankLines
<1>7. i - sepAt \in 1 .. Len(Rest) /\ Rest[i - sepAt] = <<e, 1>>
  <2>1. i - sepAt \in 1 .. Len(Rest) /\ sepAt + (i - sepAt) = i
    BY <1>1, <1>2
  <2> QED BY <1>2, <2>1
<1>8. last + 1 - sepAt \in 1 .. Len(Rest) /\ Rest[last + 1 - sepAt] = <<e, 0>>
  <2>1. /\ sepAt \in Nat /\ Len(buffer) \in Nat /\ Len(Rest) = Len(buffer) - sepAt
        /\ i \in Nat /\ sepAt < i /\ L >= 1
    BY <1>1, <1>2, <1>3
  <2>2. sepAt < last + 1
    BY <1>4, <2>1
  <2>3. PICK k \in 1 .. Len(Rest) : k = last + 1 - sepAt
    <3>1. last + 1 - sepAt \in 1 .. Len(Rest)
      BY <1>4, <1>6, <2>1, <2>2
    <3> QED BY <3>1
  <2>4. sepAt + k = last + 1 /\ last + 1 \in 1 .. Len(buffer)
    BY <1>4, <1>6, <2>1, <2>3
  <2>5. Rest[k] = buffer[sepAt + k]
    BY <1>2
  <2>6. buffer[last + 1] = Coming[last + 1]
    BY <1>1, <2>4
  <2> QED BY <1>5, <2>3, <2>4, <2>5, <2>6
<1>9. FirstSep(Rest) # 0
  BY <1>2, <1>8, FirstSepFacts
<1> QED BY <1>7, <1>9

(* Where an update stands that was received whole, not behind a heartbeat, *)
(* and is neither cut nor delivered.                                       *)
LEMMA StillThere ==
  ASSUME TypeOK, TextInv, Known \/ Stale, LossInv, ~Disconnected,
         NEW e \in received \ shadowed, kind[e] = "odds", Undelivered(e)
  PROVE  /\ Known /\ e \in Events
         /\ \/ Parsed(Block) = {e}
            \/ FirstSep(Rest) # 0 /\ \E j \in 1 .. Len(Rest) : Rest[j] = <<e, 1>>
<1>1. e \in Events /\ buffer \in Seq(Events \X Nat) /\ Len(buffer) \in Nat
  BY DEF TypeOK
<1>2. PICK i \in 1 .. Len(buffer) : buffer[i] = <<e, 1>>
  BY DEF LossInv, InBuffer
<1>3. Known
  <2>1. e \in EventsOf(buffer)
    <3>1. buffer[i] \in Range(buffer)
      BY <1>1 DEF Range
    <3> QED BY <1>2, <3>1 DEF EventsOf
  <2> QED BY <2>1 DEF Stale
<1>4. sepAt \in 1 .. Len(buffer) /\ buffer[sepAt][2] = 0
  BY <1>1, <1>3, FirstSepFacts DEF Known
<1>5. CASE i < sepAt
  <2>1. i \in 1 .. sepAt - 1
    BY <1>1, <1>4, <1>5
  <2> QED BY <1>1, <1>2, <1>3, <2>1, EventParses
<1>6. CASE i = sepAt
  BY <1>2, <1>4, <1>6
<1>7. CASE sepAt < i
  BY <1>1, <1>2, <1>3, <1>7, BehindCut
<1>8. i < sepAt \/ i = sepAt \/ sepAt < i
  BY <1>1, <1>4
<1> QED BY <1>1, <1>3, <1>5, <1>6, <1>7, <1>8

LEMMA MeetHeartbeatKeeps ==
  ASSUME TypeOK, FrameInv, MeetHeartbeat
  PROVE  FrameInv'
<1>1. /\ conn = "parsing" /\ conn' = conn /\ buffer' = Rest /\ sepAt' = sepAt
      /\ shadowed' = shadowed \cup EventsOf(Rest)
      /\ UNCHANGED <<role, stop, wire, kind, emitted, delivered, received>>
  BY DEF MeetHeartbeat, serverVars
<1>2. TextInv /\ (Known \/ Stale)
  BY <1>1 DEF FrameInv, Connected
<1>3. PICK h \in Parsed(Block) : kind[h] = "heartbeat"
  BY DEF MeetHeartbeat, ParsesAs
<1>4. sepAt # 0
  BY <1>2, StreamAssumption DEF Known, Stale, Kinds
<1>5. h \in Events /\ SizeOf(h) = Length["heartbeat"]
  BY <1>3, <1>4, ParsedFacts DEF SizeOf
<1>6. Stale'
  <2>1. sepAt = Length["heartbeat"] + 1
    <3>1. CASE Stale
      BY <3>1 DEF Stale
    <3>2. CASE Known
      <4>1. 1 \in 1 .. SizeOf(h)
        BY <1>5, TextRange
      <4>2. PICK m \in 1 .. Len(Block) : buffer[m] = <<h, 1>>
        BY <1>3, <1>4, <4>1, ParsedFacts
      <4>3. m \in 1 .. sepAt - 1
        <5>1. Len(Block) <= sepAt - 1 /\ sepAt \in Nat /\ Len(Block) \in Nat
          BY <1>4, BlockFacts DEF TypeOK
        <5> QED BY <5>1
      <4>4. sepAt = SizeOf(h) + 1
        BY <1>2, <1>5, <3>2, <4>2, <4>3, WholeBlock
      <4> QED BY <1>5, <4>4
    <3> QED BY <1>2, <3>1, <3>2
  <2> QED BY <1>1, <2>1 DEF Stale
<1>7. Pieces' /\ InOrder' /\ Complete' /\ Torn' /\ BlankLines'
  BY <1>1, <1>2, CutKeepsText
<1>8. Ahead'
  <2>1. \A i \in 1 .. Len(Coming') : CutLen + i \in 1 .. Len(Coming) /\ Coming'[i] = Coming[CutLen + i]
    BY <1>1, CutMoves
  <2> QED BY <1>1, <1>2, <2>1 DEF TextInv, Ahead
<1>9. LossInv'
  <2> SUFFICES ASSUME ~Disconnected, NEW e \in received \ shadowed', kind[e] = "odds", Undelivered(e)
               PROVE  InBuffer(e)'
    BY <1>1 DEF LossInv, Disconnected, Undelivered
  <2>1. e \in received \ shadowed
    BY <1>1
  <2>2. \/ Parsed(Block) = {e}
        \/ \E j \in 1 .. Len(Rest) : Rest[j] = <<e, 1>>
    BY <1>2, <2>1, StillThere DEF FrameInv
  <2>3. Parsed(Block) # {e}
    BY <1>3
  <2> QED BY <1>1, <2>2, <2>3 DEF InBuffer
<1>10. SentInv' /\ DeliveredInOrder'
  BY <1>1 DEF FrameInv, SentInv, DeliveredInOrder
<1> QED BY <1>6, <1>7, <1>8, <1>9, <1>10 DEF FrameInv, TextInv

(* Cutting at the blank line or behind it, and looking for the next one.   *)
LEMMA NextBlockKeeps ==
  ASSUME TypeOK, TypeOK', FrameInv, conn = "parsing", NextBlock,
         UNCHANGED <<role, stop, wire, kind, emitted, received, shadowed>>
  PROVE  /\ Pieces' /\ InOrder' /\ Complete' /\ Torn' /\ BlankLines'
         /\ conn' = "parsing" => Known'
         /\ ~Disconnected =>
              \A e \in received \ shadowed : kind[e] = "odds" /\ Undelivered(e) =>
                Parsed(Block) = {e} \/ InBuffer(e)'
<1>1. /\ TextInv /\ (Known \/ Stale) /\ LossInv
      /\ buffer' = Rest /\ sepAt' = FirstSep(Rest)
      /\ conn' = IF FirstSep(Rest) = 0 THEN "reading" ELSE "parsing"
  BY DEF FrameInv, Connected, NextBlock
<1>2. Pieces' /\ InOrder' /\ Complete' /\ Torn' /\ BlankLines'
  BY <1>1, CutKeepsText
<1>3. conn' = "parsing" => Known'
  BY <1>1 DEF Known
<1>4. ASSUME ~Disconnected, NEW e \in received \ shadowed, kind[e] = "odds", Undelivered(e)
      PROVE  Parsed(Block) = {e} \/ InBuffer(e)'
  <2>1. \/ Parsed(Block) = {e}
        \/ FirstSep(Rest) # 0 /\ \E j \in 1 .. Len(Rest) : Rest[j] = <<e, 1>>
    BY <1>1, <1>4, StillThere
  <2> QED BY <1>1, <2>1 DEF InBuffer
<1> QED BY <1>2, <1>3, <1>4

LEMMA DropBlockKeeps ==
  ASSUME TypeOK, TypeOK', FrameInv, DropBlock
  PROVE  FrameInv'
<1>1. /\ conn = "parsing" /\ NextBlock /\ ~ParsesAs("odds")
      /\ UNCHANGED <<role, stop, wire, kind, emitted, delivered, received, shadowed>>
  BY DEF DropBlock, serverVars
<1>2. /\ Pieces' /\ InOrder' /\ Complete' /\ Torn' /\ BlankLines'
      /\ conn' = "parsing" => Known'
      /\ ~Disconnected =>
           \A e \in received \ shadowed : kind[e] = "odds" /\ Undelivered(e) =>
             Parsed(Block) = {e} \/ InBuffer(e)'
  BY <1>1, NextBlockKeeps
<1>3. Ahead'
  <2>1. buffer' = Rest
    BY <1>1 DEF NextBlock
  <2>2. \A i \in 1 .. Len(Coming') : CutLen + i \in 1 .. Len(Coming) /\ Coming'[i] = Coming[CutLen + i]
    BY <1>1, <2>1, CutMoves
  <2> QED BY <1>1, <2>2 DEF FrameInv, Connected, TextInv, Ahead
<1>4. LossInv'
  <2>1. \A e : kind[e] = "odds" => Parsed(Block) # {e}
    BY <1>1 DEF ParsesAs
  <2> QED BY <1>1, <1>2, <2>1 DEF LossInv, Disconnected, Undelivered
<1>5. SentInv' /\ DeliveredInOrder'
  BY <1>1 DEF FrameInv, SentInv, DeliveredInOrder
<1> QED BY <1>2, <1>3, <1>4, <1>5 DEF FrameInv, TextInv

(* What the history of deliveries is after a step that may add to it.      *)
LEMMA AppendFacts ==
  ASSUME NEW X, NEW d \in Seq(X), NEW e \in X, NEW n \in Seq(X), n = d \/ n = Append(d, e)
  PROVE  /\ Len(d) \in Nat /\ Len(n) \in Nat /\ Len(d) <= Len(n)
         /\ DOMAIN n = 1 .. Len(n) /\ DOMAIN d = 1 .. Len(d)
         /\ \A k \in 1 .. Len(d) : n[k] = d[k]
         /\ \A k \in 1 .. Len(n) : (k \in 1 .. Len(d) /\ n[k] = d[k]) \/ (k = Len(d) + 1 /\ n[k] = e)
         /\ n = Append(d, e) => Len(d) + 1 \in 1 .. Len(n) /\ n[Len(d) + 1] = e
<1>1. CASE n = d
  BY <1>1
<1>2. CASE n = Append(d, e)
  BY <1>2
<1> QED BY <1>1, <1>2

(* What a block that parses as an update says of the text.                 *)
LEMMA DeliverFacts ==
  ASSUME TypeOK, TextInv, Known \/ Stale, SentInv, NEW e \in Parsed(Block), kind[e] = "odds"
  PROVE  /\ e \in 1 .. emitted
         /\ \A k \in 1 .. Len(delivered) : delivered[k] < e
         /\ e \in received \/ (Length["odds"] <= Length["heartbeat"] /\ e \in shadowed)
         /\ \A i \in 1 .. Len(Coming) : CutLen < i =>
              e < Coming[i][1] \/ (e = Coming[i][1] /\ Coming[i][2] = 0)
<1>1. /\ sepAt \in Nat /\ sepAt # 0 /\ buffer \in Seq(Events \X Nat)
      /\ delivered \in Seq(Events) /\ emitted \in Nat
  BY StreamAssumption DEF Known, Stale, Kinds, TypeOK
<1>2. /\ e \in Events
      /\ \A k \in 1 .. SizeOf(e) : \E j \in 1 .. Len(Block) : buffer[j] = <<e, k>>
  BY <1>1, ParsedFacts
<1>3. PICK L \in Nat \ {0} : L = SizeOf(e) /\ L = Length["odds"]
  BY <1>2, EventFacts DEF SizeOf
<1>4. /\ Len(Block) \in Nat /\ Len(Block) <= sepAt - 1 /\ Len(Block) <= CutLen /\ CutLen \in Nat
      /\ Len(buffer) \in Nat /\ CutLen <= Len(buffer)
  BY <1>1, BlockFacts, RestFacts
<1>5. /\ Len(Coming) \in Nat /\ Len(buffer) <= Len(Coming)
      /\ \A i \in 1 .. Len(buffer) : Coming[i] = buffer[i]
      /\ \A i \in 1 .. Len(Coming) : Coming[i][1] \in Events /\ Coming[i][2] \in Nat
  BY ComingFacts
<1>6. \A j \in 1 .. Len(Block) : j \in 1 .. Len(Coming) /\ Coming[j] = buffer[j]
                                 /\ j \in 1 .. Len(buffer) /\ j \in 1 .. sepAt - 1
  <2> SUFFICES ASSUME NEW j \in 1 .. Len(Block)
               PROVE  j \in 1 .. Len(Coming) /\ Coming[j] = buffer[j]
                      /\ j \in 1 .. Len(buffer) /\ j \in 1 .. sepAt - 1
    OBVIOUS
  <2>1. j \in 1 .. Len(buffer) /\ j \in 1 .. Len(Coming) /\ j \in 1 .. sepAt - 1
    BY <1>1, <1>4, <1>5, SMTT(60)
  <2> QED BY <1>5, <2>1
<1>7. PICK first \in 1 .. Len(Block) : buffer[first] = <<e, 1>>
  <2>1. 1 \in 1 .. SizeOf(e)
    BY <1>3
  <2> QED BY <1>2, <2>1
<1>8. PICK end \in 1 .. Len(Block) : buffer[end] = <<e, L>>
  <2>1. L \in 1 .. SizeOf(e)
    BY <1>3
  <2> QED BY <1>2, <2>1
<1>9. /\ first \in 1 .. Len(Coming) /\ Coming[first][1] = e /\ Coming[first][2] = 1
      /\ end \in 1 .. Len(Coming) /\ Coming[end][1] = e /\ Coming[end][2] = L
  BY <1>6, <1>7, <1>8
<1>10. e \in 1 .. emitted
  BY <1>9 DEF TextInv, Pieces
<1>11. \A k \in 1 .. Len(delivered) : delivered[k] < e
  BY <1>9 DEF TextInv, Ahead
<1>12. e \in received \/ (Length["odds"] <= Length["heartbeat"] /\ e \in shadowed)
  <2>1. CASE Known
    <3>1. first \in 1 .. sepAt - 1
      BY <1>6
    <3> QED BY <1>2, <1>7, <2>1, <3>1, WholeBlock
  <2>2. CASE Stale
    <3>1. e \in shadowed
      <4>1. buffer[first] \in Range(buffer)
        BY <1>1, <1>6 DEF Range
      <4>2. e \in EventsOf(buffer)
        BY <1>7, <4>1 DEF EventsOf
      <4> QED BY <2>2, <4>2 DEF Stale
    <3>2. PICK last \in Int : last = first + L - 1
      BY <1>6
    <3>3. last \in 1 .. Len(Coming) /\ Coming[last] = <<e, L>>
      <4>1. /\ last + 1 <= Len(Coming)
            /\ \A j \in first .. last : Coming[j] = <<e, 1 + (j - first)>>
        <5>1. first + SizeOf(Coming[first][1]) - Coming[first][2] = last
          BY <1>3, <1>9, <3>2
        <5>2. Coming[first][2] # 0
          BY <1>9
        <5> QED BY <1>9, <5>1, <5>2 DEF TextInv, Complete
      <4>2. last \in first .. last /\ 1 + (last - first) = L /\ last \in 1 .. Len(Coming)
        <5>1. first \in Int /\ 1 <= first /\ last + 1 <= Len(Coming)
          BY <4>1
        <5>2. Len(Coming) \in Nat
          BY <1>5
        <5>3. first <= last /\ 1 + (last - first) = L
          BY <3>2, <5>1
        <5> QED BY <5>1, <5>2, <5>3
      <4> QED BY <4>1, <4>2
    <3>4. ~ (end < last)
      <4> SUFFICES ASSUME end < last PROVE FALSE
        OBVIOUS
      <4>1. \/ e < e
            \/ L = 0 \/ L < L
        BY <1>9, <3>3 DEF TextInv, InOrder
      <4>2. e \in Int
        BY <1>2 DEF Events
      <4> QED BY <4>1, <4>2
    <3>5. Length["odds"] <= Length["heartbeat"]
      <4>1. last <= end /\ end <= sepAt - 1 /\ L <= last
        <5>1. first \in Int /\ 1 <= first /\ end \in Int /\ end <= Len(Block)
          OBVIOUS
        <5> QED BY <1>1, <1>4, <3>2, <3>4, <5>1
      <4>2. sepAt - 1 = Length["heartbeat"] /\ Length["heartbeat"] \in Nat
        BY <2>2, StreamAssumption DEF Stale, Kinds
      <4>3. end \in Int
        OBVIOUS
      <4> QED BY <1>1, <1>3, <3>2, <4>1, <4>2, <4>3
    <3> QED BY <3>1, <3>5
  <2> QED BY <2>1, <2>2
<1>13. ASSUME NEW i \in 1 .. Len(Coming), CutLen < i
       PROVE  e < Coming[i][1] \/ (e = Coming[i][1] /\ Coming[i][2] = 0)
  <2>1. end < i
    BY <1>4, <1>13
  <2>2. \/ e < Coming[i][1]
        \/ e = Coming[i][1] /\ (Coming[i][2] = 0 \/ L < Coming[i][2])
    BY <1>9, <2>1 DEF TextInv, InOrder
  <2>3. Coming[i][1] = e => Coming[i][2] <= L
    <3>1. Coming[i][2] \in 0 .. SizeOf(Coming[i][1])
      BY DEF TextInv, Pieces
    <3>2. Coming[i][1] = e => Coming[i][2] \in 0 .. L
      BY <1>3, <3>1
    <3> QED BY <3>2
  <2>4. Coming[i][2] \in Nat
    BY <1>5
  <2> QED BY <2>2, <2>3, <2>4
<1> QED BY <1>10, <1>11, <1>12, <1>13

LEMMA DeliverKeeps ==
  ASSUME TypeOK, TypeOK', FrameInv, Deliver
  PROVE  FrameInv'
<1>1. /\ conn = "parsing" /\ NextBlock
      /\ UNCHANGED <<role, stop, wire, kind, emitted, received, shadowed>>
  BY DEF Deliver, serverVars
<1>2. TextInv /\ (Known \/ Stale) /\ SentInv /\ DeliveredInOrder
  BY <1>1 DEF FrameInv, Connected
<1>3. PICK e \in Parsed(Block) :
        kind[e] = "odds" /\ delivered' = IF Attached THEN Append(delivered, e) ELSE delivered
  BY DEF Deliver
<1>4. /\ e \in 1 .. emitted
      /\ \A k \in 1 .. Len(delivered) : delivered[k] < e
      /\ e \in received \/ (Length["odds"] <= Length["heartbeat"] /\ e \in shadowed)
      /\ \A i \in 1 .. Len(Coming) : CutLen < i =>
           e < Coming[i][1] \/ (e = Coming[i][1] /\ Coming[i][2] = 0)
  BY <1>2, <1>3, DeliverFacts
<1>5. e \in Events /\ delivered \in Seq(Events) /\ delivered' \in Seq(Events) /\ emitted \in Nat
  BY DEF TypeOK, Parsed
<1>6. PICK d : d = delivered'
  OBVIOUS
<1>7. /\ Len(delivered) \in Nat /\ Len(d) \in Nat /\ Len(delivered) <= Len(d)
      /\ DOMAIN d = 1 .. Len(d) /\ DOMAIN delivered = 1 .. Len(delivered)
      /\ \A k \in 1 .. Len(delivered) : d[k] = delivered[k]
      /\ \A k \in 1 .. Len(d) : \/ k \in 1 .. Len(delivered) /\ d[k] = delivered[k]
                                \/ k = Len(delivered) + 1 /\ d[k] = e
      /\ d = Append(delivered, e) => Len(delivered) + 1 \in 1 .. Len(d) /\ d[Len(delivered) + 1] = e
  <2>1. d \in Seq(Events) /\ (d = delivered \/ d = Append(delivered, e))
    BY <1>3, <1>5, <1>6
  <2> QED BY <1>5, <2>1, AppendFacts, SMTT(60)
<1>8. /\ Pieces' /\ InOrder' /\ Complete' /\ Torn' /\ BlankLines'
      /\ conn' = "parsing" => Known'
      /\ ~Disconnected =>
           \A f \in received \ shadowed : kind[f] = "odds" /\ Undelivered(f) =>
             Parsed(Block) = {f} \/ InBuffer(f)'
  BY <1>1, NextBlockKeeps
<1>9. Ahead'
  <2> SUFFICES ASSUME NEW k \in 1 .. Len(d), NEW i \in 1 .. Len(Coming')
               PROVE  d[k] < Coming'[i][1] \/ (d[k] = Coming'[i][1] /\ Coming'[i][2] = 0)
    BY <1>6 DEF Ahead
  <2>1. buffer' = Rest
    BY <1>1 DEF NextBlock
  <2>2. /\ CutLen \in 0 .. Len(buffer) /\ Len(buffer) \in Nat
        /\ Len(Coming') = Len(Coming) - CutLen /\ Len(Coming) \in Nat
        /\ Coming'[i] = Coming[CutLen + i]
    BY <1>1, <2>1, CutMoves, RestFacts
  <2>3. PICK m \in 1 .. Len(Coming) : m = CutLen + i /\ CutLen < m
    BY <2>2
  <2>4. CASE d[k] = e
    BY <1>4, <2>2, <2>3, <2>4
  <2>5. CASE k \in 1 .. Len(delivered) /\ d[k] = delivered[k]
    BY <1>2, <2>2, <2>3, <2>5, SMTT(60) DEF TextInv, Ahead
  <2> QED BY <1>7, <2>4, <2>5
<1>10. LossInv'
  <2> SUFFICES ASSUME ~Disconnected, NEW f \in received \ shadowed, kind[f] = "odds",
                      \A k \in 1 .. Len(d) : d[k] # f
               PROVE  InBuffer(f)'
    BY <1>1, <1>6 DEF LossInv, Disconnected, Undelivered
  <2>1. Undelivered(f)
    <3>1. ASSUME NEW k \in 1 .. Len(delivered) PROVE delivered[k] # f
      <4>1. Len(delivered) \in Nat /\ Len(d) \in Nat /\ Len(delivered) <= Len(d)
        BY <1>7
      <4>2. k \in 1 .. Len(d)
        BY <4>1
      <4> QED BY <1>7, <4>2, ZenonT(60)
    <3> QED BY <3>1 DEF Undelivered
  <2>2. Parsed(Block) # {f}
    <3> SUFFICES ASSUME e = f PROVE FALSE
      BY <1>3
    <3>1. Attached
      BY DEF Attached, Disconnected, TypeOK
    <3> QED BY <1>3, <1>6, <1>7, <3>1
  <2> QED BY <1>8, <2>1, <2>2
<1>11. SentInv'
  <2>1. \A k \in 1 .. Len(d) : d[k] <= emitted
    <3>1. e <= emitted
      BY <1>4, <1>5, SMTT(60)
    <3> QED BY <1>2, <1>7, <3>1 DEF SentInv
  <2> QED BY <1>1, <1>2, <1>6, <2>1, SMTT(60) DEF SentInv
<1>12. DeliveredInOrder'
  <2>1. ASSUME NEW k \in 1 .. Len(d)
        PROVE  /\ kind[d[k]] = "odds"
               /\ d[k] \in received \/ (Length["odds"] <= Length["heartbeat"] /\ d[k] \in shadowed)
    BY <1>2, <1>3, <1>4, <1>7, ZenonT(60) DEF DeliveredInOrder
  <2>2. ASSUME NEW k \in 1 .. Len(d), NEW m \in 1 .. Len(d), k < m PROVE d[k] < d[m]
    <3>1. k \in 1 .. Len(delivered) /\ d[k] = delivered[k]
      <4>1. Len(delivered) \in Nat /\ (m \in 1 .. Len(delivered) \/ m = Len(delivered) + 1)
        BY <1>7
      <4>2. k \in 1 .. Len(delivered)
        BY <2>2, <4>1, SMTT(60)
      <4> QED BY <1>7, <4>2, ZenonT(60)
    <3>2. CASE m \in 1 .. Len(delivered) /\ d[m] = delivered[m]
      BY <1>2, <1>7, <2>2, <3>1, <3>2 DEF DeliveredInOrder
    <3>3. CASE d[m] = e
      BY <1>4, <3>1, <3>3
    <3> QED BY <1>7, <3>2, <3>3, ZenonT(60)
  <2> QED BY <1>1, <1>6, <1>7, <2>1, <2>2, ZenonT(60) DEF DeliveredInOrder
<1> QED BY <1>8, <1>9, <1>10, <1>11, <1>12 DEF FrameInv, TextInv

-----------------------------------------------------------------------------
IsConcat(X, v, b, w) ==
  /\ v \in Seq(X) /\ Len(v) = Len(b) + Len(w)
  /\ Len(b) \in Nat /\ Len(w) \in Nat
  /\ \A i \in 1 .. Len(b) : v[i] = b[i]
  /\ \A i \in 1 .. Len(w) : v[Len(b) + i] = w[i]

LEMMA ConcatIs ==
  ASSUME NEW X, NEW b \in Seq(X), NEW w \in Seq(X), NEW v, v = b \o w
  PROVE  IsConcat(X, v, b, w)
BY ConcatFacts DEF IsConcat

(* Moving the border between two halves leaves the text as it is.          *)
LEMMA SameText ==
  ASSUME NEW X, NEW b \in Seq(X), NEW w \in Seq(X), NEW c \in Seq(X), NEW r \in Seq(X),
         IsConcat(X, w, c, r)
  PROVE  (b \o c) \o r = b \o w
<1>1. PICK v : v = b \o w
  OBVIOUS
<1>2. PICK t : t = b \o c
  OBVIOUS
<1>3. IsConcat(X, t, b, c)
  BY <1>2, ConcatIs
<1>4. PICK u : u = t \o r
  OBVIOUS
<1>5. IsConcat(X, u, t, r)
  <2>1. t \in Seq(X)
    BY <1>3 DEF IsConcat
  <2> QED BY <1>4, <2>1, ConcatIs
<1>6. IsConcat(X, v, b, w)
  BY <1>1, ConcatIs
<1> USE DEF IsConcat
<1>7. Len(u) = Len(v)
  BY <1>3, <1>5, <1>6
<1>8. ASSUME NEW i \in 1 .. Len(u) PROVE u[i] = v[i]
  <2>1. CASE i <= Len(b)
    <3>1. i \in 1 .. Len(b) /\ i \in 1 .. Len(t)
      BY <2>1, <1>3, <1>5, <1>6
    <3> QED BY <3>1, <1>3, <1>5, <1>6
  <2>2. CASE Len(b) < i /\ i <= Len(t)
    <3>1. PICK k \in 1 .. Len(c) : i = Len(b) + k
      <4>1. i - Len(b) \in 1 .. Len(c) /\ i = Len(b) + (i - Len(b))
        BY <2>2, <1>3, <1>5, <1>6
      <4> QED BY <4>1
    <3>2. i \in 1 .. Len(t) /\ k \in 1 .. Len(w)
      BY <2>2, <3>1, <1>3, <1>5, <1>6
    <3>3. u[i] = t[i] /\ t[i] = c[k]
      BY <3>1, <3>2, <1>3, <1>5
    <3>4. v[i] = w[k]
      BY <3>1, <3>2, <1>3, <1>6
    <3> QED BY <3>1, <3>3, <3>4
  <2>3. CASE Len(t) < i
    <3>1. PICK k \in 1 .. Len(r) : i = Len(t) + k
      <4>1. i - Len(t) \in 1 .. Len(r) /\ i = Len(t) + (i - Len(t))
        BY <2>3, <1>3, <1>5, <1>6
      <4> QED BY <4>1
    <3>2. PICK m \in 1 .. Len(w) : m = Len(c) + k /\ i = Len(b) + m
      <4>1. Len(c) + k \in 1 .. Len(w) /\ i = Len(b) + (Len(c) + k)
        BY <3>1, <1>3, <1>5, <1>6
      <4> QED BY <4>1
    <3>3. u[i] = r[k] /\ r[k] = w[m]
      BY <3>1, <3>2, <1>5
    <3>4. v[i] = w[m]
      BY <3>2, <1>3, <1>6
    <3> QED BY <3>3, <3>4
  <2> QED BY <1>3, <1>5, <1>6, <2>1, <2>2, <2>3
<1>9. u = v
  <2>1. u \in Seq(X) /\ v \in Seq(X)
    BY <1>5, <1>6
  <2> HIDE DEF IsConcat
  <2> QED BY <1>7, <1>8, <2>1
<1> QED BY <1>1, <1>2, <1>4, <1>9

(* A chunk moves the border between what is read and what is on its way.   *)
LEMMA ReadKeeps ==
  ASSUME TypeOK, TypeOK', FrameInv, Read
  PROVE  FrameInv'
<1>1. /\ conn = "reading" /\ sepAt' = FirstSep(buffer')
      /\ conn' = IF sepAt' = 0 THEN "reading" ELSE "parsing"
      /\ UNCHANGED <<role, stop, kind, emitted, delivered, shadowed>>
  BY DEF Read
<1>2. TextInv /\ SentInv /\ DeliveredInOrder /\ LossInv
  BY <1>1 DEF FrameInv, Connected
<1>3. PICK n \in 1 .. Len(wire) :
        /\ buffer' = buffer \o SubSeq(wire, 1, n)
        /\ wire' = SubSeq(wire, n + 1, Len(wire))
        /\ received' = received \cup {p[1] : p \in {q \in Range(SubSeq(wire, 1, n)) : IsSep(q)}}
  BY DEF Read, TextAfter
<1>4. PICK c : c = SubSeq(wire, 1, n)
  OBVIOUS
<1>5. PICK r : r = SubSeq(wire, n + 1, Len(wire))
  OBVIOUS
<1>6. /\ c \in Seq(Events \X Nat) /\ Len(c) = n /\ \A i \in 1 .. n : c[i] = wire[i]
      /\ r \in Seq(Events \X Nat) /\ Len(r) = Len(wire) - n
      /\ \A i \in 1 .. Len(wire) - n : r[i] = wire[n + i]
  BY <1>4, <1>5, ChunkFacts
<1>7. buffer \in Seq(Events \X Nat) /\ wire \in Seq(Events \X Nat)
  BY DEF TypeOK
<1>8. Coming' = Coming
  <2>1. PICK b : b = buffer
    OBVIOUS
  <2>2. PICK w : w = wire
    OBVIOUS
  <2>3. (b \o c) \o r = b \o w
    <3>1. PICK X : X = Events \X Nat
      OBVIOUS
    <3>2. b \in Seq(X) /\ w \in Seq(X) /\ c \in Seq(X) /\ r \in Seq(X)
      BY <1>6, <1>7, <2>1, <2>2, <3>1
    <3>3. IsConcat(X, w, c, r)
      BY <1>6, <2>2, <3>1, <3>2, SMTT(60) DEF IsConcat
    <3> QED BY <3>2, <3>3, SameText, SMTT(60)
  <2> QED BY <1>3, <1>4, <1>5, <2>1, <2>2, <2>3 DEF Coming
<1>9. /\ Len(Coming) \in Nat /\ Len(buffer) \in Nat /\ Len(wire) \in Nat
      /\ Len(Coming) = Len(buffer) + Len(wire)
      /\ \A i \in 1 .. Len(buffer) : Coming[i] = buffer[i]
      /\ \A i \in 1 .. Len(wire) : Coming[Len(buffer) + i] = wire[i]
      /\ \A i \in 1 .. Len(Coming) : /\ Coming[i][1] \in Events /\ Coming[i][2] \in Nat
                                     /\ Coming[i] = <<Coming[i][1], Coming[i][2]>>
  BY ComingFacts, SMTT(60)
<1>10. PICK b : b = buffer'
  OBVIOUS
<1>11. /\ b \in Seq(Events \X Nat) /\ Len(b) = Len(buffer) + n
       /\ \A i \in 1 .. Len(b) : Coming[i] = b[i]
  <2>1. b \in Seq(Events \X Nat) /\ Len(b) = Len(buffer) + n
    BY <1>3, <1>4, <1>6, <1>7, <1>10
  <2>2. /\ \A i \in 1 .. Len(b) : (b \o r)[i] = b[i]
    BY <1>6, <2>1, ConcatFacts
  <2>3. Coming' = b \o r
    BY <1>3, <1>5, <1>10 DEF Coming
  <2> QED BY <1>8, <2>1, <2>2, <2>3
(* The events whose blank line is in the chunk.                            *)
<1>12. \A e : e \in received' <=>
         e \in received \/ \E k \in 1 .. Len(b) : Len(buffer) < k /\ Coming[k] = <<e, 0>>
  <2>1. Range(c) = {wire[i] : i \in 1 .. n}
    <3>1. DOMAIN c = 1 .. n /\ \A i \in 1 .. n : c[i] = wire[i]
      BY <1>6
    <3> QED BY <3>1 DEF Range
  <2>2. ASSUME NEW e, e \in {p[1] : p \in {q \in Range(c) : IsSep(q)}}
        PROVE  \E k \in 1 .. Len(b) : Len(buffer) < k /\ Coming[k] = <<e, 0>>
    <3>1. PICK i \in 1 .. n : wire[i][1] = e /\ wire[i][2] = 0
      BY <2>1, <2>2 DEF IsSep
    <3>2. i \in 1 .. Len(wire) /\ Len(buffer) + i \in 1 .. Len(b) /\ Len(buffer) < Len(buffer) + i
          /\ Len(buffer) + i \in 1 .. Len(Coming)
      BY <1>9, <1>11, SMTT(60)
    <3>3. Coming[Len(buffer) + i] = wire[i]
      BY <1>9, <3>2
    <3>4. Coming[Len(buffer) + i] = <<e, 0>>
      BY <1>9, <3>1, <3>2, <3>3
    <3> QED BY <3>2, <3>4
  <2>3. ASSUME NEW e, NEW k \in 1 .. Len(b), Len(buffer) < k, Coming[k] = <<e, 0>>
        PROVE  e \in {p[1] : p \in {q \in Range(c) : IsSep(q)}}
    <3>1. PICK i \in 1 .. n : k = Len(buffer) + i
      <4>1. k - Len(buffer) \in 1 .. n /\ k = Len(buffer) + (k - Len(buffer))
        BY <1>9, <1>11, <2>3
      <4> QED BY <4>1
    <3>2. i \in 1 .. Len(wire)
      BY <1>9
    <3>3. wire[i] = <<e, 0>>
      BY <1>9, <2>3, <3>1, <3>2
    <3> QED BY <2>1, <3>3 DEF IsSep
  <2> QED BY <1>3, <1>4, <2>2, <2>3
<1>13. Pieces' /\ InOrder' /\ Complete' /\ Torn' /\ Ahead'
  <2>1. \A e : SizeOf(e)' = SizeOf(e)
    BY <1>1 DEF SizeOf
  <2>2. Pieces' /\ InOrder'
    BY <1>1, <1>2, <1>8, Zenon DEF TextInv, Pieces, InOrder, SizeOf
  <2>3. Complete' /\ Torn'
    BY <1>1, <1>2, <1>8, Zenon DEF TextInv, Complete, Torn, SizeOf
  <2>4. Ahead'
    BY <1>1, <1>2, <1>8, Zenon DEF TextInv, Ahead
  <2> QED BY <2>2, <2>3, <2>4
<1>14. BlankLines'
  <2> SUFFICES ASSUME NEW i \in 1 .. Len(Coming), Coming[i][2] = 0
               PROVE  Coming[i][1] \in received' <=> i <= Len(b)
    BY <1>8, <1>10 DEF BlankLines
  <2>1. Coming[i][1] \in received <=> i <= Len(buffer)
    BY <1>2 DEF TextInv, BlankLines
  <2>2. Len(buffer) <= Len(b) /\ Len(b) \in Nat /\ Len(b) <= Len(Coming)
    BY <1>9, <1>11
  <2>3. ASSUME NEW k \in 1 .. Len(b), Coming[k] = <<Coming[i][1], 0>> PROVE k = i
    <3>1. k \in 1 .. Len(Coming) /\ Coming[k][1] = Coming[i][1] /\ Coming[k][2] = 0
      BY <2>2, <2>3
    <3>2. Coming[i][1] \in Int
      <4>1. Coming[i][1] \in Events
        BY <1>9
      <4> QED BY <4>1 DEF Events
    <3>3. ~ (k < i) /\ ~ (i < k)
      BY <1>2, <3>1, <3>2, SMTT(60) DEF TextInv, InOrder
    <3> QED BY <1>9, <3>1, <3>3
  <2>4. ASSUME i <= Len(b), Len(buffer) < i
        PROVE  i \in 1 .. Len(b) /\ Coming[i] = <<Coming[i][1], 0>>
    BY <1>9, <2>2, <2>4
  <2>5. ASSUME Coming[i][1] \in received' PROVE i <= Len(b)
    <3>1. CASE Coming[i][1] \in received
      BY <2>1, <2>2, <3>1
    <3>2. CASE \E k \in 1 .. Len(b) : Len(buffer) < k /\ Coming[k] = <<Coming[i][1], 0>>
      <4>1. PICK k \in 1 .. Len(b) : Coming[k] = <<Coming[i][1], 0>>
        BY <3>2
      <4> QED BY <2>2, <2>3, <4>1
    <3> QED BY <1>12, <2>5, <3>1, <3>2
  <2>6. ASSUME i <= Len(b) PROVE Coming[i][1] \in received'
    <3>1. CASE i <= Len(buffer)
      BY <1>12, <2>1, <3>1
    <3>2. CASE Len(buffer) < i
      BY <1>12, <2>4, <2>6, <3>2
    <3> QED BY <1>9, <3>1, <3>2
  <2> QED BY <2>5, <2>6
<1>15. LossInv'
  <2> SUFFICES ASSUME ~Disconnected, NEW e \in received' \ shadowed, kind[e] = "odds", Undelivered(e)
               PROVE  InBuffer(e)'
    BY <1>1 DEF LossInv, Disconnected, Undelivered
  <2>1. e \notin received
    BY <1>1, <1>2 DEF LossInv, InBuffer
  <2>2. PICK k \in 1 .. Len(b) : Coming[k] = <<e, 0>>
    BY <1>12, <2>1
  <2>3. k \in 1 .. Len(Coming) /\ Len(b) \in Nat
    BY <1>9, <1>11
  <2>4. PICK m \in 1 .. k : Coming[m] = <<e, 1>>
    <3>1. k \in 1 .. Len(Coming) /\ Coming[k][1] = e
      BY <2>2, <2>3
    <3>2. e \notin shadowed
      OBVIOUS
    <3> QED BY <1>2, <3>1, <3>2 DEF TextInv, Torn
  <2>5. m \in 1 .. Len(b) /\ b[m] = <<e, 1>>
    <3>1. m \in 1 .. Len(b)
      BY <2>3
    <3> QED BY <1>11, <2>4, <3>1
  <2>6. FirstSep(b) # 0
    <3>1. b[k][2] = 0
      BY <1>11, <2>2
    <3> QED BY <1>11, <3>1, FirstSepFacts
  <2> QED BY <1>1, <1>10, <2>5, <2>6 DEF InBuffer
<1>16. SentInv'
  <2>1. ASSUME NEW e \in received' PROVE e \in 1 .. emitted
    <3>1. CASE e \in received
      BY <1>2, <3>1 DEF SentInv
    <3>2. CASE \E k \in 1 .. Len(b) : Coming[k] = <<e, 0>>
      <4>1. PICK k \in 1 .. Len(b) : Coming[k] = <<e, 0>>
        BY <3>2
      <4>2. k \in 1 .. Len(Coming)
        BY <1>9, <1>11
      <4>3. Coming[k][1] = e
        BY <4>1
      <4> QED BY <1>2, <4>2, <4>3 DEF TextInv, Pieces
    <3> QED BY <1>12, <2>1, <3>1, <3>2
  <2> QED BY <1>1, <1>2, <2>1 DEF SentInv
<1>17. DeliveredInOrder'
  <2>1. received \subseteq received'
    BY <1>3
  <2> QED BY <1>1, <1>2, <2>1 DEF DeliveredInOrder
<1>18. conn' = "parsing" => Known'
  BY <1>1 DEF Known
<1> QED BY <1>13, <1>14, <1>15, <1>16, <1>17, <1>18 DEF FrameInv, TextInv

(* The next event is put behind everything that is coming.                 *)
LEMMA EmitKeeps ==
  ASSUME TypeOK, TypeOK', FrameInv, Emit
  PROVE  FrameInv'
<1>1. /\ emitted < NumEvents /\ emitted' = emitted + 1
      /\ wire' = IF Connected THEN wire \o Frame(emitted + 1) ELSE wire
      /\ UNCHANGED <<role, stop, kind, conn, buffer, sepAt, delivered, received, shadowed>>
  BY DEF Emit, parserVars
<1>2. emitted \in Nat /\ emitted + 1 \in Events
  BY <1>1 DEF TypeOK, Events
<1>3. LossInv' /\ DeliveredInOrder' /\ (conn' = "parsing" => Known' \/ Stale')
  BY <1>1 DEF FrameInv, LossInv, Disconnected, Undelivered, InBuffer, DeliveredInOrder, Known, Stale
<1>4. SentInv'
  <2>1. 1 .. emitted \subseteq 1 .. emitted' /\ \A d \in Events : d <= emitted => d <= emitted'
    BY <1>1, <1>2 DEF Events
  <2>2. \A k \in 1 .. Len(delivered) : delivered[k] \in Events
    BY DEF TypeOK
  <2> QED BY <1>1, <2>1, <2>2 DEF FrameInv, SentInv
<1>5. ASSUME Connected PROVE TextInv'
  <2>1. TextInv /\ SentInv
    BY <1>5 DEF FrameInv
  <2>2. PICK e \in Events : e = emitted + 1
    BY <1>2
  <2>3. PICK L \in Nat \ {0} : L = SizeOf(e)
    BY EventFacts
  <2>4. PICK f : f = Frame(e)
    OBVIOUS
  <2>5. /\ f \in Seq(Events \X Nat) /\ Len(f) = L + 1
        /\ \A i \in 1 .. L : f[i] = <<e, i>>
        /\ f[L + 1] = <<e, 0>>
    BY <2>3, <2>4, EventFacts
  <2>6. PICK w : w = wire \o f
    OBVIOUS
  <2>7. buffer \in Seq(Events \X Nat) /\ wire \in Seq(Events \X Nat)
    BY DEF TypeOK
  <2>8. IsConcat(Events \X Nat, w, wire, f)
    BY <2>5, <2>6, <2>7, ConcatIs
  <2>9. (buffer \o wire) \o f = buffer \o w
    <3>1. PICK b : b = buffer
      OBVIOUS
    <3>2. PICK v : v = wire
      OBVIOUS
    <3>3. PICK X : X = Events \X Nat
      OBVIOUS
    <3>4. b \in Seq(X) /\ v \in Seq(X) /\ f \in Seq(X) /\ w \in Seq(X)
      BY <2>5, <2>7, <2>8, <3>1, <3>2, <3>3 DEF IsConcat
    <3>5. IsConcat(X, w, v, f)
      BY <2>8, <3>2, <3>3
    <3>6. (b \o v) \o f = b \o w
      BY <3>4, <3>5, SameText, SMTT(60)
    <3> QED BY <3>1, <3>2, <3>6
  <2>10. Coming' = Coming \o f
    BY <1>1, <1>5, <2>2, <2>4, <2>6, <2>9 DEF Coming
  <2>11. PICK N \in Nat : N = Len(Coming)
    BY ComingFacts
  <2>12. PICK c : c = Coming'
    OBVIOUS
  <2>13. /\ Coming \in Seq(Events \X Nat)
         /\ \A i \in 1 .. N : Coming[i][1] \in Events /\ Coming[i][2] \in Nat
         /\ Len(buffer) \in Nat /\ Len(buffer) <= N
    BY <2>11, ComingFacts
  <2>14. IsConcat(Events \X Nat, c, Coming, f)
    BY <2>5, <2>10, <2>12, <2>13, ConcatIs
  <2>15. /\ Len(c) = N + L + 1
         /\ \A i \in 1 .. N : c[i] = Coming[i]
         /\ \A k \in 1 .. L : c[N + k] = <<e, k>>
         /\ c[N + L + 1] = <<e, 0>>
    <3>1. Len(c) = N + (L + 1) /\ \A i \in 1 .. N : c[i] = Coming[i]
      BY <2>5, <2>11, <2>14 DEF IsConcat
    <3>2. \A k \in 1 .. L + 1 : c[N + k] = f[k]
      BY <2>5, <2>11, <2>14 DEF IsConcat
    <3>3. c[N + (L + 1)] = <<e, 0>>
      <4>1. L + 1 \in 1 .. L + 1
        OBVIOUS
      <4> QED BY <2>5, <3>2, <4>1
    <3>4. \A k \in 1 .. L : c[N + k] = <<e, k>>
      <4>1. \A k \in 1 .. L : k \in 1 .. L + 1
        OBVIOUS
      <4> QED BY <2>5, <3>2, <4>1
    <3> QED BY <3>1, <3>3, <3>4, SMTT(60)
(* A place in the text is an old one, or one of the new event.             *)
  <2>16. ASSUME NEW i \in 1 .. Len(c)
         PROVE  \/ i \in 1 .. N /\ c[i] = Coming[i] /\ c[i][1] < e /\ c[i][1] \in 1 .. emitted
                \/ \E k \in 1 .. L : i = N + k /\ c[i] = <<e, k>>
                \/ i = N + L + 1 /\ c[i] = <<e, 0>>
    <3>1. CASE i <= N
      <4>1. i \in 1 .. N
        BY <3>1
      <4>2. Coming[i][1] \in 1 .. emitted
        BY <2>1, <2>11, <4>1 DEF TextInv, Pieces
      <4> QED BY <1>2, <2>2, <2>15, <4>1, <4>2, SMTT(60)
    <3>2. CASE N < i /\ i <= N + L
      <4>1. PICK k \in 1 .. L : i = N + k
        <5>1. i - N \in 1 .. L /\ i = N + (i - N)
          BY <3>2
        <5> QED BY <5>1
      <4> QED BY <2>15, <4>1
    <3>3. CASE N + L < i
      <4>1. i = N + L + 1
        BY <2>15, <3>3
      <4> QED BY <2>15, <4>1
    <3> QED BY <3>1, <3>2, <3>3
  <2>17. \A d \in Events : SizeOf(d)' = SizeOf(d)
    BY <1>1 DEF SizeOf
  <2>18. Pieces'
    <3> SUFFICES ASSUME NEW i \in 1 .. Len(c)
                 PROVE  c[i][1] \in 1 .. emitted' /\ c[i][2] \in 0 .. SizeOf(c[i][1])'
      BY <2>12 DEF Pieces
    <3>1. CASE i \in 1 .. N /\ c[i] = Coming[i]
      <4>1. Coming[i][1] \in 1 .. emitted /\ Coming[i][2] \in 0 .. SizeOf(Coming[i][1])
        BY <2>1, <2>11, <3>1 DEF TextInv, Pieces
      <4>2. Coming[i][1] \in 1 .. emitted'
        BY <1>1, <1>2, <4>1
      <4> QED BY <2>13, <2>17, <3>1, <4>1, <4>2
    <3>2. CASE c[i][1] = e /\ c[i][2] \in 0 .. L
      BY <1>1, <1>2, <2>2, <2>3, <2>17, <3>2
    <3>3. \A k \in 1 .. L : k \in 0 .. L
      OBVIOUS
    <3> QED BY <2>16, <3>1, <3>2, <3>3
  <2>19. InOrder'
    <3> SUFFICES ASSUME NEW i \in 1 .. Len(c), NEW j \in 1 .. Len(c), i < j
                 PROVE  \/ c[i][1] < c[j][1]
                        \/ /\ c[i][1] = c[j][1] /\ c[i][2] # 0
                           /\ c[j][2] = 0 \/ c[i][2] < c[j][2]
      BY <2>12 DEF InOrder
    <3>1. CASE j \in 1 .. N /\ c[j] = Coming[j]
      <4>1. i \in 1 .. N
        BY <3>1
      <4>2. c[i] = Coming[i]
        BY <2>15, <4>1
      <4> QED BY <2>1, <2>11, <3>1, <4>1, <4>2 DEF TextInv, InOrder
    <3>2. ASSUME NEW k \in 1 .. L, j = N + k, c[j] = <<e, k>>
          PROVE  c[i][1] < c[j][1] \/ (c[i][1] = c[j][1] /\ c[i][2] # 0 /\ c[i][2] < c[j][2])
      <4>1. i < N + L + 1
        BY <3>2
      <4>2. CASE c[i][1] < e
        BY <3>2, <4>2
      <4>3. ASSUME NEW m \in 1 .. L, i = N + m, c[i] = <<e, m>>
            PROVE  c[i][1] = c[j][1] /\ c[i][2] # 0 /\ c[i][2] < c[j][2]
        <5>1. m < k
          BY <3>2, <4>3
        <5> QED BY <3>2, <4>3, <5>1
      <4>4. i # N + L + 1
        BY <4>1
      <4> QED BY <2>16, <4>2, <4>3, <4>4
    <3>3. ASSUME j = N + L + 1, c[j] = <<e, 0>>
          PROVE  c[i][1] < c[j][1] \/ (c[i][1] = c[j][1] /\ c[i][2] # 0 /\ c[j][2] = 0)
      <4>1. i # N + L + 1
        BY <3>3
      <4> QED BY <2>16, <3>3, <4>1
    <3> QED BY <2>16, <3>1, <3>2, <3>3
  <2>20. Complete'
    <3> SUFFICES ASSUME NEW i \in 1 .. Len(c), c[i][2] # 0,
                        NEW last, last = i + SizeOf(c[i][1])' - c[i][2]
                 PROVE  /\ last + 1 <= Len(c)
                        /\ \A j \in i .. last : c[j] = <<c[i][1], c[i][2] + (j - i)>>
                        /\ c[last + 1] = <<c[i][1], 0>>
      BY <2>12 DEF Complete
    <3>1. CASE i \in 1 .. N /\ c[i] = Coming[i]
      <4>1. /\ last + 1 <= N
            /\ \A j \in i .. last : Coming[j] = <<c[i][1], c[i][2] + (j - i)>>
            /\ Coming[last + 1] = <<c[i][1], 0>>
        <5>1. last = i + SizeOf(Coming[i][1]) - Coming[i][2]
          BY <2>13, <2>17, <3>1
        <5> QED BY <2>1, <2>11, <3>1, <5>1 DEF TextInv, Complete
      <4>2. last \in Int /\ i <= last
        <5>1. PICK d \in Events : d = Coming[i][1]
          BY <2>13, <3>1
        <5>2. PICK s \in Nat : s = SizeOf(d)
          BY EventFacts
        <5>3. Coming[i][2] \in 0 .. SizeOf(Coming[i][1])
          BY <2>1, <2>11, <3>1 DEF TextInv, Pieces
        <5>4. PICK p \in 0 .. s : p = Coming[i][2]
          BY <5>1, <5>2, <5>3
        <5>5. SizeOf(c[i][1])' = s
          BY <2>17, <3>1, <5>1, <5>2 DEF SizeOf
        <5>6. last = i + s - p
          BY <3>1, <5>4, <5>5
        <5> QED BY <5>6
      <4>3. /\ \A j \in i .. last : j \in 1 .. N
            /\ last + 1 \in 1 .. N /\ last + 1 <= Len(c)
        <5>1. Len(c) = N + L + 1 /\ last + 1 <= N
          BY <2>15, <4>1
        <5> QED BY <4>2, <5>1
      <4> QED BY <2>15, <4>1, <4>3
    <3>2. ASSUME NEW k \in 1 .. L, i = N + k, c[i] = <<e, k>>
          PROVE  /\ last + 1 <= Len(c)
                 /\ \A j \in i .. last : c[j] = <<c[i][1], c[i][2] + (j - i)>>
                 /\ c[last + 1] = <<c[i][1], 0>>
      <4>1. last = N + L
        <5>1. last = i + L - k
          BY <2>3, <2>17, <3>2
        <5> QED BY <3>2, <5>1
      <4>2. ASSUME NEW j \in i .. last PROVE c[j] = <<e, k + (j - i)>>
        <5>1. PICK m \in 1 .. L : j = N + m /\ m = k + (j - i)
          <6>1. j - N \in 1 .. L /\ j = N + (j - N) /\ j - N = k + (j - i)
            BY <3>2, <4>1
          <6> QED BY <6>1
        <5> QED BY <2>15, <5>1
      <4>3. last + 1 = N + L + 1 /\ N + L + 1 <= Len(c)
        BY <2>15, <4>1
      <4> QED BY <2>15, <3>2, <4>2, <4>3
    <3> QED BY <2>16, <3>1, <3>2
  <2>21. Torn'
    <3> SUFFICES ASSUME NEW i \in 1 .. Len(c)
                 PROVE  c[i][1] \in shadowed \/ \E j \in 1 .. i : c[j] = <<c[i][1], 1>>
      BY <1>1, <2>12 DEF Torn
    <3>1. CASE i \in 1 .. N /\ c[i] = Coming[i]
      <4>1. Coming[i][1] \in shadowed \/ \E j \in 1 .. i : Coming[j] = <<Coming[i][1], 1>>
        BY <2>1, <2>11, <3>1 DEF TextInv, Torn
      <4>2. \A j \in 1 .. i : j \in 1 .. N
        BY <3>1
      <4> QED BY <2>15, <3>1, <4>1, <4>2
    <3>2. CASE N < i /\ c[i][1] = e
      <4>1. N + 1 \in 1 .. i /\ 1 \in 1 .. L
        BY <3>2
      <4> QED BY <2>15, <3>2, <4>1
    <3>3. \A k \in 1 .. L : N < N + k
      OBVIOUS
    <3>4. N < N + L + 1
      OBVIOUS
    <3> QED BY <2>16, <3>1, <3>2, <3>3, <3>4
  <2>22. BlankLines'
    <3> SUFFICES ASSUME NEW i \in 1 .. Len(c), c[i][2] = 0
                 PROVE  c[i][1] \in received <=> i <= Len(buffer)
      BY <1>1, <2>12 DEF BlankLines
    <3>1. CASE i \in 1 .. N /\ c[i] = Coming[i]
      BY <2>1, <2>11, <3>1 DEF TextInv, BlankLines
    <3>2. CASE i = N + L + 1 /\ c[i] = <<e, 0>>
      <4>1. ~ (i <= Len(buffer))
        BY <2>13, <3>2
      <4>2. e \notin received
        BY <1>2, <2>1, <2>2 DEF SentInv
      <4> QED BY <3>2, <4>1, <4>2
    <3>3. \A k \in 1 .. L : k # 0
      OBVIOUS
    <3> QED BY <2>16, <3>1, <3>2, <3>3
  <2>23. Ahead'
    <3> SUFFICES ASSUME NEW k \in 1 .. Len(delivered), NEW i \in 1 .. Len(c)
                 PROVE  delivered[k] < c[i][1] \/ (delivered[k] = c[i][1] /\ c[i][2] = 0)
      BY <1>1, <2>12 DEF Ahead
    <3>1. CASE i \in 1 .. N /\ c[i] = Coming[i]
      BY <2>1, <2>11, <3>1 DEF TextInv, Ahead
    <3>2. delivered[k] < e
      <4>1. delivered[k] <= emitted /\ delivered[k] \in Events
        BY <2>1, SMTT(60) DEF SentInv, TypeOK
      <4> QED BY <1>2, <2>2, <4>1 DEF Events
    <3> QED BY <2>16, <3>1, <3>2
  <2> QED BY <2>18, <2>19, <2>20, <2>21, <2>22, <2>23 DEF TextInv
<1>6. Connected' = Connected
  BY <1>1 DEF Connected
<1> QED BY <1>3, <1>4, <1>5, <1>6 DEF FrameInv

(* A new connection starts with no text.                                   *)
LEMMA AcceptedKeeps ==
  ASSUME TypeOK, FrameInv, Accepted
  PROVE  FrameInv'
<1>1. /\ conn = "fetching" /\ conn' = "reading" /\ wire' = <<>> /\ buffer' = <<>>
      /\ UNCHANGED <<role, stop, kind, emitted, delivered, received, shadowed>>
  BY DEF Accepted
<1>2. Len(Coming') = 0
  BY <1>1 DEF Coming
<1>3. TextInv'
  BY <1>2 DEF TextInv, Pieces, InOrder, Complete, Torn, BlankLines, Ahead
<1>4. SentInv' /\ DeliveredInOrder'
  BY <1>1 DEF FrameInv, SentInv, DeliveredInOrder
<1>5. LossInv'
  BY <1>1 DEF FrameInv, LossInv, Disconnected, Undelivered, InBuffer
<1> QED BY <1>1, <1>3, <1>4, <1>5 DEF FrameInv

(* The steps that leave the text and its reader alone, or the connection.  *)
LEMMA IdleKeeps ==
  ASSUME FrameInv, UNCHANGED <<role, kind, emitted, buffer, sepAt, delivered, received, shadowed>>,
         \/ UNCHANGED <<wire, conn>>
         \/ conn # "parsing" /\ conn' \notin {"reading", "parsing"},
         Disconnected => Disconnected'
  PROVE  FrameInv'
<1>1. SentInv' /\ DeliveredInOrder'
  BY DEF FrameInv, SentInv, DeliveredInOrder
<1>2. CASE UNCHANGED <<wire, conn>>
  <2>1. Connected' => TextInv'
    <3>1. Coming' = Coming /\ Connected' = Connected
      BY <1>2, SMTT(60) DEF Coming, Connected
    <3>2. \A e : SizeOf(e)' = SizeOf(e)
      BY DEF SizeOf
    <3>3. (Pieces => Pieces') /\ (InOrder => InOrder')
      BY <3>1, <3>2, Zenon DEF Pieces, InOrder
    <3>4. (Complete => Complete') /\ (Torn => Torn')
      BY <3>1, <3>2, Zenon DEF Complete, Torn
    <3>5. (BlankLines => BlankLines') /\ (Ahead => Ahead')
      BY <3>1, Zenon DEF BlankLines, Ahead
    <3>6. TextInv => TextInv'
      BY <3>3, <3>4, <3>5 DEF TextInv
    <3> QED BY <3>1, <3>6 DEF FrameInv
  <2>2. conn' = "parsing" => Known' \/ Stale'
    BY <1>2 DEF FrameInv, Known, Stale
  <2>3. LossInv'
    BY <1>2 DEF FrameInv, LossInv, Undelivered, InBuffer
  <2> QED BY <1>1, <2>1, <2>2, <2>3 DEF FrameInv
<1>3. CASE conn # "parsing" /\ conn' \notin {"reading", "parsing"}
  <2>1. LossInv'
    BY <1>3 DEF FrameInv, LossInv, Undelivered, InBuffer
  <2> QED BY <1>1, <1>3, <2>1 DEF FrameInv, Connected
<1> QED BY <1>2, <1>3

LEMMA FrameNext ==
  ASSUME TypeOK, TypeOK', FrameInv, Start \/ ExpireToken \/ StreamStep \/ Emit \/ Stop \/ Exit
  PROVE  FrameInv'
<1>1. CASE Start \/ TimerFires
  BY <1>1, IdleKeeps DEF Start, TimerFires, Connect, serverVars, parserVars, Disconnected
<1>2. CASE Refused \/ Ended \/ Broken \/ AbortSeen
  <2>1. conn \in {"fetching", "reading"} /\ conn' \in {"timer", "closed"}
    BY <1>2 DEF Refused, Ended, Broken, AbortSeen, AfterFailure
  <2>2. UNCHANGED <<role, stop, kind, emitted, buffer, sepAt, delivered, received, shadowed>>
    BY <1>2 DEF Refused, Ended, Broken, AbortSeen, serverVars, parserVars
  <2> QED BY <2>1, <2>2, IdleKeeps DEF Disconnected
<1>3. CASE ExpireToken \/ Stop \/ Exit
  <2>1. UNCHANGED <<role, kind, emitted, wire, conn, buffer, sepAt, delivered, received, shadowed>>
    BY <1>3 DEF ExpireToken, Stop, Exit, serverVars, parserVars
  <2>2. Disconnected => Disconnected'
    BY <1>3, <2>1 DEF ExpireToken, Stop, Exit, Disconnected
  <2> QED BY <2>1, <2>2, IdleKeeps
<1> QED BY <1>1, <1>2, <1>3, EmitKeeps, AcceptedKeeps, ReadKeeps, MeetHeartbeatKeeps, DeliverKeeps,
  DropBlockKeeps DEF StreamStep

LEMMA FrameInit == Init => FrameInv
<1> SUFFICES ASSUME Init PROVE FrameInv
  OBVIOUS
<1>1. conn = "idle" /\ delivered = <<>> /\ received = {}
  BY DEF Init
<1> QED BY <1>1 DEF FrameInv, SentInv, Connected, LossInv, DeliveredInOrder

LEMMA StreamTypes == IngestionSpec => []TypeOK
<1>1. IngestionTypeOK => TypeOK
  BY DEF IngestionTypeOK
<1> QED BY <1>1, IngestionTypes, PTL

LEMMA FrameIsInvariant == IngestionSpec => []FrameInv
<1>1. IngestionInit => FrameInv
  BY FrameInit DEF IngestionInit
<1>2. TypeOK /\ TypeOK' /\ FrameInv /\ [IngestionNext]_allVars => FrameInv'
  <2> SUFFICES ASSUME TypeOK, TypeOK', FrameInv, [IngestionNext]_allVars PROVE FrameInv'
    OBVIOUS
  <2>1. CASE UNCHANGED vars
    BY <2>1, IdleKeeps DEF vars, serverVars, parserVars, Disconnected
  <2>2. CASE BootStep
    BY <2>1, <2>2 DEF BootStep, Answered, NotServed, AnswerLost, BadBody, Upsert, UpsertFails,
      Synced, Starting
  <2> QED BY <2>1, <2>2, FrameNext DEF IngestionNext, allVars
<1> QED BY <1>1, <1>2, StreamTypes, PTL DEF IngestionSpec

(* However the server's text is cut into chunks, the connection broken and *)
(* made again, and heartbeats met, the handlers get whole odds updates in  *)
(* the server's order, each at most once.                                  *)
THEOREM UpdatesInOrder == IngestionSpec => []DeliveredInOrder
<1>1. FrameInv => DeliveredInOrder
  BY DEF FrameInv
<1> QED BY <1>1, FrameIsInvariant, PTL

(* An update received whole is lost only behind a heartbeat.               *)
THEOREM HeartbeatLosesAlone == IngestionSpec => []LostOnlyBehindHeartbeat
<1>1. TypeOK /\ FrameInv => LostOnlyBehindHeartbeat
  <2> SUFFICES ASSUME TypeOK, FrameInv, conn = "reading", ~Disconnected,
                      NEW e \in received \ shadowed, kind[e] = "odds"
               PROVE  Contains(delivered, e)
    BY DEF LostOnlyBehindHeartbeat
  <2>1. ~ Undelivered(e)
    BY DEF FrameInv, LossInv, InBuffer
  <2> QED BY <2>1 DEF Undelivered, Contains, TypeOK
<1> QED BY <1>1, FrameIsInvariant, StreamTypes, PTL
=============================================================================
