-------------------------------- MODULE Sse --------------------------------
(***************************************************************************)
(* How the tokens of a response are counted: the proxy tees the bytes into *)
(* a bounded buffer (internal/proxy), the first cap of them and, past      *)
(* those, the last TailCap; when the body is closed the consumer extracts  *)
(* the usage from the two pieces (internal/parse).                         *)
(*                                                                         *)
(* Data.  A symbol is a CR, an LF, or text without either: "name" is the   *)
(* `event:` line, and a `data:` line is two symbols, so that it can be     *)
(* torn: Open carries the field's name and the payload's first half, Shut  *)
(* the rest.  Only the two halves of one payload in one line are JSON.     *)
(* Model and input tokens are one value, and so is a stop reason with its  *)
(* output tokens.                                                          *)
(***************************************************************************)
EXTENDS Naturals, Sequences, FiniteSets, FiniteSetsExt

CONSTANTS
  Bodies,   \* responses: [ctype, encoded, events, eol]
  Caps,     \* values of config.BodyCapBytes
  TailCap,  \* usageTailBytes
  MaxWrite  \* bound: symbols in one write of the copy loop

ASSUME SseAssumption ==
  /\ Caps \subseteq Nat \ {0} /\ TailCap \in Nat \ {0} /\ MaxWrite \in Nat
  /\ \A b \in Bodies :
       /\ b.events \in Seq([type : STRING, n : Nat])
       /\ b.eol \in {<<[k |-> "LF"]>>, <<[k |-> "CR"]>>, <<[k |-> "CR"], [k |-> "LF"]>>}
       /\ b.ctype = "application/json" => b.events # <<>>

VARIABLES
  cap,      \* config.BodyCapBytes
  body,     \* the response upstream sends
  sent,     \* how much of it has come
  head,     \* boundedBuffer.buf
  tail,     \* boundedBuffer.tail
  closed    \* the body is closed and the call submitted

sseVars == <<cap, body, sent, head, tail, closed>>

CR == [k |-> "CR"]
LF == [k |-> "LF"]
Name == [k |-> "name"]
Open(e) == [k |-> "open", ev |-> e]
Shut(e) == [k |-> "shut", ev |-> e]
Eol == {CR, LF}

----------------------------------------------------------------------------
(* What upstream sends.                                                    *)

\* One event: its two lines and the blank line.
EventText(e, eol) == <<Name>> \o eol \o <<Open(e), Shut(e)>> \o eol \o eol

EventSize(b) == 3 * Len(b.eol) + 3

\* Event after event; JSON is one payload.
Text(b) ==
  IF b.ctype = "application/json" THEN <<Open(b.events[1]), Shut(b.events[1])>>
  ELSE [i \in 1..(Len(b.events) * EventSize(b)) |->
          EventText(b.events[(i - 1) \div EventSize(b) + 1], b.eol)[((i - 1) % EventSize(b)) + 1]]

----------------------------------------------------------------------------
(* internal/parse: the event parser.                                       *)

NoUsage == [input |-> 0, output |-> 0, stream |-> FALSE, events |-> 0]
NewParser == [buf |-> <<>>, usage |-> NoUsage, events |-> 0, err |-> FALSE]

\* The length of the blank line that begins at i, 0 if none does as yet.
EndsAt(buf, i) ==
  CASE i < Len(buf) /\ buf[i] \in Eol /\ buf[i+1] = buf[i] -> 2
    [] i + 3 <= Len(buf) /\ SubSeq(buf, i, i + 3) = <<CR, LF, CR, LF>> -> 4
    [] OTHER -> 0

EventEnds(buf) == {i \in DOMAIN buf : EndsAt(buf, i) > 0}

\* The `data:` lines of a block, without their ends.
LineStarts(raw) == {i \in DOMAIN raw : i = 1 \/ raw[i-1] \in Eol}
LineEnd(raw, i) == Min({j \in i..(Len(raw) + 1) : j = Len(raw) + 1 \/ raw[j] \in Eol}) - 1
DataLines(raw) ==
  {SubSeq(raw, i, LineEnd(raw, i)) : i \in {j \in LineStarts(raw) : raw[j].k = "open"}}

\* The payload is JSON: one line, both halves of one event.
Payload(raw) == {e \in {raw[i].ev : i \in {j \in DOMAIN raw : raw[j].k = "open"}} :
                   DataLines(raw) = {<<Open(e), Shut(e)>>}}

ApplyEvent(p, e) ==
  CASE e.type = "message_start" -> [p EXCEPT !.usage.input = e.n]
    [] e.type = "message_delta" -> [p EXCEPT !.usage.output = e.n]
    [] e.type = "error"         -> [p EXCEPT !.err = TRUE]
    [] OTHER                    -> p

\* A block with data counts, one that is JSON applies.
ProcessEvent(p, raw) ==
  LET counted == [p EXCEPT !.events = @ + 1] IN
  CASE DataLines(raw) = {} -> p
    [] DataLines(raw) # {} /\ Payload(raw) = {} -> counted
    [] OTHER -> ApplyEvent(counted, CHOOSE e \in Payload(raw) : TRUE)

\* The first complete event of the carried bytes, unless one was an error.
TakeEvent(p) ==
  IF p.err \/ EventEnds(p.buf) = {} THEN p
  ELSE LET i == Min(EventEnds(p.buf))
           rest == SubSeq(p.buf, i + EndsAt(p.buf, i), Len(p.buf))
       IN  ProcessEvent([p EXCEPT !.buf = rest], SubSeq(p.buf, 1, i - 1))

\* All of them; there are fewer than symbols.
Drain(p) ==
  LET after[n \in 0..Len(p.buf)] == IF n = 0 THEN p ELSE TakeEvent(after[n-1])
  IN  after[Len(p.buf)]

Feed(p, chunk) == IF p.err THEN p ELSE Drain([p EXCEPT !.buf = @ \o chunk])

\* What was carried is an event too.  After an error the usage stands as it
\* was when the error came.
Finish(p) ==
  LET last == ProcessEvent([p EXCEPT !.buf = <<>>], p.buf) IN
  IF p.err THEN p.usage
  ELSE [last.usage EXCEPT !.stream = TRUE, !.events = last.events]

\* A whole body in one piece of JSON, or nothing.
ParseNonStream(text) ==
  IF \E e \in {text[i].ev : i \in {j \in DOMAIN text : text[j].k = "open"}} :
       text = <<Open(e), Shut(e)>>
  THEN [NoUsage EXCEPT !.input = text[1].ev.n, !.events = 1]
  ELSE NoUsage

ExtractUsage(text, ctype) ==
  CASE ctype = "application/json"  -> ParseNonStream(text)
    [] ctype = "text/event-stream" -> Finish(Feed(NewParser, text))
    [] OTHER                       -> NoUsage

\* [mutant] the pieces joined as they are
SpliceUnclosed(first, rest) == Feed(Feed(NewParser, first), rest)

\* A blank line closes what the head left torn.
Splice(first, rest) == Feed(Feed(Feed(NewParser, first), <<LF, LF>>), rest)

ExtractUsageWithTail(first, rest, ctype) ==
  IF ctype = "text/event-stream" /\ rest # <<>> THEN Finish(Splice(first, rest))
  ELSE ExtractUsage(first, ctype)

\* prepareCall's use of the two pieces.  A compressed head is decoded, which
\* gives what the head begins with; its tail is of no use.
UsageOf(b, first, rest) ==
  IF ~b.encoded /\ rest # <<>> THEN ExtractUsageWithTail(first, rest, b.ctype)
  ELSE ExtractUsage(first, b.ctype)

----------------------------------------------------------------------------
(* The tee.                                                                *)

SseInit ==
  /\ cap \in Caps /\ body \in Bodies
  /\ sent = 0 /\ head = <<>> /\ tail = <<>> /\ closed = FALSE

Last(s, n) == SubSeq(s, IF Len(s) > n THEN Len(s) - n + 1 ELSE 1, Len(s))

KeepTail(rest) == Last(tail \o rest, TailCap)

\* boundedBuffer.Write: what there is room for, then the newest of the rest.
Write(p) ==
  LET room == IF cap - Len(head) < Len(p) THEN cap - Len(head) ELSE Len(p)
      rest == SubSeq(p, room + 1, Len(p))
  IN
  /\ head' = head \o SubSeq(p, 1, room)
  /\ tail' = IF rest = <<>> THEN tail ELSE KeepTail(rest)

\* The copy loop reads what has arrived, of any length.
Copy ==
  /\ ~closed
  /\ \E n \in 1..MaxWrite :
       /\ sent + n <= Len(Text(body))
       /\ sent' = sent + n
       /\ Write(SubSeq(Text(body), sent + 1, sent + n))
  /\ UNCHANGED <<cap, body, closed>>

\* The response ends, upstream breaks off or the client leaves: teeCloser
\* submits the call as it stands.
Close ==
  /\ ~closed /\ closed' = TRUE
  /\ UNCHANGED <<cap, body, sent, head, tail>>

SseNext == Copy \/ Close

SseSpec == SseInit /\ [][SseNext]_sseVars
----------------------------------------------------------------------------
(* Properties.                                                             *)

\* Where the two halves of the payload of the j-th event are in the text.
PayloadAt(b, j) ==
  LET shut == IF b.ctype = "application/json" THEN 2
              ELSE (j - 1) * EventSize(b) + Len(b.eol) + 3
  IN  <<shut - 1, shut>>

\* Events kept whole, in the head or in the tail, and not after an error.
Kept ==
  LET InHead(at) == at[2] <= Len(head)
      InTail(at) == ~body.encoded /\ at[1] > sent - Len(tail) /\ at[2] <= sent
      whole == {j \in DOMAIN body.events :
                  InHead(PayloadAt(body, j)) \/ InTail(PayloadAt(body, j))}
  IN  {j \in whole : \A i \in whole : body.events[i].type = "error" => j < i}

\* The last count of a type among the events kept.
Newest(type) ==
  LET js == {j \in Kept : body.events[j].type = type} IN
  IF js = {} THEN 0 ELSE body.events[Max(js)].n

\* However the bytes were cut into writes, wherever they broke off and
\* wherever the head ends and the tail begins, the usage of a stream is that
\* of the events kept whole: no delta is added to another, none is made up
\* of two, and the last one kept wins unless an error came first.
UsageExact ==
  closed =>
    LET usage == UsageOf(body, head, tail) IN
    /\ body.ctype = "text/event-stream" =>
         /\ usage.input = Newest("message_start")
         /\ usage.output = Newest("message_delta")
         /\ usage.stream => usage.events \in Cardinality(Kept)..(Cardinality(Kept) + 2)
    /\ body.ctype = "application/json" =>
         usage.input = IF Len(head) = 2 THEN body.events[1].n ELSE 0
    /\ body.ctype \notin {"text/event-stream", "application/json"} => usage = NoUsage
=============================================================================
