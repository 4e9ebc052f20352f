---------------------------- MODULE StreamDecoder ----------------------------
(***************************************************************************)
(* LiveStreamDecoder over IncrementalSseParser and Utf8ChunkDecoder: the   *)
(* body of an answer arrives in chunks that end anywhere and may stop      *)
(* anywhere.  A body is a sequence of units: "n" and "r" are the line      *)
(* feed and the carriage return, "d" and "e" the names of the fields data  *)
(* and event, "L" and "T" the two bytes of one character (decoded: "C"),   *)
(* "?" the replacement character; in a payload "." is [DONE], "c" a        *)
(* terminal event of Responses, "E" an error and "!" makes the JSON        *)
(* invalid; "{" and "}" open and close a body that is one JSON value (the  *)
(* braces inside of it, as all other bytes, are told apart by nothing).    *)
(***************************************************************************)
EXTENDS Naturals, Sequences, SequencesExt

CONSTANTS Bodies \* the bodies: records of bytes, typed (content type), responses (mode)

VARIABLES
    body,    \* what the server sends
    at,      \* how much of it has arrived
    pending, \* Utf8ChunkDecoder
    buffer, scanned, \* IncrementalSseParser
    head, raw, sse,  \* LiveStreamDecoder: sse is "unknown", "yes" or "no"
    applied, \* the payloads handed to the assembler
    result   \* "none", "turn" or the error

vars == <<body, at, pending, buffer, scanned, head, raw, sse, applied, result>>

Arrived == SubSeq(body.bytes, 1, at)

\* ------------------------------------------------------- Utf8ChunkDecoder
\* from_utf8 on the pending bytes, again and again: what is valid is passed
\* on, what is invalid becomes "?", an incomplete character stays.
DecodeByte(s, b) ==
    CASE s.rest = <<>> /\ b = "L" -> [s EXCEPT !.rest = <<"L">>]
      [] s.rest = <<>> /\ b = "T" -> [s EXCEPT !.text = Append(@, "?")]
      [] s.rest = <<>> /\ b \notin {"L", "T"} -> [s EXCEPT !.text = Append(@, b)]
      [] s.rest # <<>> /\ b = "T" -> [text |-> Append(s.text, "C"), rest |-> <<>>]
      [] s.rest # <<>> /\ b = "L" -> [text |-> Append(s.text, "?"), rest |-> <<"L">>]
      [] s.rest # <<>> /\ b \notin {"L", "T"} ->
            [text |-> s.text \o <<"?", b>>, rest |-> <<>>]

\* Mutant: what is left over from the last chunk is forgotten.
DecodeForgetful(rest, chunk) ==
    FoldLeft(DecodeByte, [text |-> <<>>, rest |-> <<>>], chunk)

Decode(rest, chunk) ==
    FoldLeft(DecodeByte, [text |-> <<>>, rest |-> <<>>], rest \o chunk)

\* ---------------------------------------------------- IncrementalSseParser
\* an event ends with an empty line; the two characters or four lie after `from`
EndsAt(text, from, e) ==
    \/ e - 2 >= from /\ SubSeq(text, e - 1, e) = <<"n", "n">>
    \/ e - 4 >= from /\ SubSeq(text, e - 3, e) = <<"r", "n", "r", "n">>

Field(name, value, event) ==
    CASE name = <<"d">> ->
            [event EXCEPT !.data = IF @ = <<>> THEN value ELSE @ \o <<"n">> \o value]
      [] name = <<"e">> -> [event EXCEPT !.name = value]
      [] name \notin {<<"d">>, <<"e">>} -> event

ApplyLine(event, line) ==
    LET l == IF line # <<>> /\ Last(line) = "r" THEN Front(line) ELSE line
        colon == SelectInSeq(l, LAMBDA c : c = ":")
        value == SubSeq(l, colon + 1, Len(l))
    IN IF l = <<>> \/ colon = 1 THEN event
       ELSE [Field(IF colon = 0 THEN l ELSE SubSeq(l, 1, colon - 1),
                   IF colon = 0 THEN <<>>
                   ELSE IF value # <<>> /\ Head(value) = " " THEN Tail(value)
                   ELSE value,
                   event) EXCEPT !.seen = TRUE]

NoEvent == [data |-> <<>>, name |-> <<>>, seen |-> FALSE]

\* parse_event_block: one character after the other, a line at each "n"
ParseChar(s, c) ==
    IF c = "n" THEN [event |-> ApplyLine(s.event, s.line), line |-> <<>>]
    ELSE [s EXCEPT !.line = Append(@, c)]

ParseBlock(block) ==
    FoldLeft(ParseChar, [event |-> NoEvent, line |-> <<>>], Append(block, "n")).event

EventsOf(block) == LET e == ParseBlock(block) IN IF e.seen THEN <<e>> ELSE <<>>

\* drain_complete_events: from the end of an event to the next one
DrainEvent(s, text) ==
    LET ends == {e \in s.search + 1..Len(text) : EndsAt(text, s.search, e)}
        e == CHOOSE e \in ends : \A f \in ends : e <= f
    IN IF ends = {} THEN s
       ELSE [events |-> s.events \o EventsOf(SubSeq(text, s.consumed + 1, e)),
             consumed |-> e, search |-> e]

Drain(text, start) ==
    FoldLeft(DrainEvent, [events |-> <<>>, consumed |-> 0, search |-> start],
             [i \in 1..Len(text) |-> text])

\* Mutant: the end of the buffer is not looked at again.
RescanNothing(n) == n

Rescan(n) == IF n > 3 THEN n - 3 ELSE 0

\* ------------------------------------------------------ LiveStreamDecoder
\* where data.trim() has its characters
Bare(data) == {i \in DOMAIN data : data[i] \notin {" ", "n"}}
IsDone(data) == \E i \in DOMAIN data : Bare(data) = {i} /\ data[i] = "."

StartsWith(text, s) == IsPrefix(s, text)

DetectSse(bytes) ==
    LET d == Decode(<<>>, bytes)
        start == FoldLeft(LAMBDA s, c : IF s = <<>> /\ c \in {" ", "n", "r"}
                                        THEN s ELSE Append(s, c), <<>>, d.text)
    IN IF body.typed \/ \E s \in {<<":">>, <<"d", ":">>, <<"e", ":">>} : StartsWith(start, s)
       THEN "yes"
       ELSE IF StartsWith(start, <<"{">>) THEN "no" ELSE "unknown"

\* apply_sse_events: one event after another, until the terminal one or an error
ApplyEvent(s, event) ==
    IF s.complete \/ s.error # "none" THEN s
    ELSE CASE IsDone(event.data) -> [s EXCEPT !.complete = TRUE]
           [] Bare(event.data) = {} -> s
           [] OTHER ->
                IF Contains(event.data, "!") THEN [s EXCEPT !.error = "malformed"]
                ELSE IF Contains(event.data, "E") \/ event.name = <<"E">>
                     THEN [s EXCEPT !.error = "finish_error"]
                ELSE [s EXCEPT !.applied = Append(@, event.data),
                               !.complete = body.responses /\ Contains(event.data, "c")]

ApplyEvents(done, events) ==
    FoldLeft(ApplyEvent, [applied |-> done, complete |-> FALSE, error |-> "none"], events)

StreamInit ==
    /\ body \in Bodies
    /\ at = 0
    /\ pending = <<>> /\ buffer = <<>> /\ scanned = 0
    /\ head = <<>> /\ raw = <<>> /\ sse = "unknown"
    /\ applied = <<>> /\ result = "none"

PushSse(chunk) ==
    LET decoded == Decode(pending, chunk)
        text == buffer \o decoded.text
        drained == Drain(text, scanned)
        rest == SubSeq(text, drained.consumed + 1, Len(text))
        after == ApplyEvents(applied, drained.events)
    IN /\ pending' = decoded.rest
       /\ buffer' = rest
       /\ scanned' = Rescan(Len(rest))
       /\ applied' = after.applied
       /\ result' = IF after.error # "none" THEN after.error
                    ELSE IF after.complete THEN "turn" ELSE "none"

Arrive(k) == SubSeq(body.bytes, at + 1, at + k)

\* A chunk of k units arrives.
Push(k) ==
    /\ result = "none" /\ at + k <= Len(body.bytes)
    /\ at' = at + k
    /\ CASE sse = "no" ->
                /\ raw' = raw \o Arrive(k)
                /\ UNCHANGED <<pending, buffer, scanned, head, sse, applied, result>>
         [] sse = "yes" -> PushSse(Arrive(k)) /\ UNCHANGED <<head, raw, sse>>
         [] sse = "unknown" ->
                LET known == head \o Arrive(k) IN
                /\ sse' = DetectSse(known)
                /\ head' = IF sse' = "unknown" THEN known ELSE <<>>
                /\ raw' = IF sse' = "no" THEN known ELSE raw
                /\ IF sse' = "yes" THEN PushSse(known)
                   ELSE UNCHANGED <<pending, buffer, scanned, applied, result>>
    /\ UNCHANGED body

\* serde_json: one value, and white space before and after it
White == {" ", "n", "r"}
IsJson(bytes) ==
    /\ \E i \in DOMAIN bytes : bytes[i] = "{" /\ \A j \in 1..i - 1 : bytes[j] \in White
    /\ \E i \in DOMAIN bytes :
            bytes[i] = "}" /\ \A j \in i + 1..Len(bytes) : bytes[j] \in White
    /\ ~Contains(bytes, "!")

JsonError(bytes) ==
    IF bytes = <<>> THEN "empty"
    ELSE IF ~IsJson(bytes) THEN "malformed"
    ELSE IF Contains(bytes, "E") THEN "finish_error" ELSE "none"

\* Mutant: what was complete when the stream broke off is good enough.
ErrorAtEndLenient ==
    IF applied # <<>> THEN "none"
    ELSE IF sse = "yes" \/ body.typed THEN "stream_closed" ELSE JsonError(raw \o head)

\* what finish says of a body that came to its end without a terminal event
ErrorAtEnd ==
    IF sse = "yes" \/ body.typed THEN "stream_closed" ELSE JsonError(raw \o head)

\* The body ends, whole or broken off; a body that is one JSON value is read.
Finish ==
    /\ result = "none"
    /\ result' = IF ErrorAtEnd = "none" THEN "turn" ELSE ErrorAtEnd
    /\ applied' = IF result' = "turn" THEN Append(applied, raw) ELSE applied
    /\ UNCHANGED <<body, at, pending, buffer, scanned, head, raw, sse>>

\* The connection fails while the body is read.
Break ==
    /\ result = "none"
    /\ result' = "transport"
    /\ UNCHANGED <<body, at, pending, buffer, scanned, head, raw, sse, applied>>

Finished == result # "none" /\ UNCHANGED vars

Next ==
    (\E k \in 1..Len(body.bytes) : Push(k)) \/ Finish \/ Break \/ Finished

Spec == StreamInit /\ [][Next]_vars

-----------------------------------------------------------------------------
\* What the bodies must be: white space alone follows the "}" that closes a
\* JSON value.
BodiesAssumption ==
    \A b \in Bodies :
        /\ b.bytes \in Seq(ToSet(b.bytes))
        /\ b.typed \in BOOLEAN /\ b.responses \in BOOLEAN
        /\ \A i \in 1..Len(b.bytes) :
                b.bytes[i] = "}" => \A j \in i + 1..Len(b.bytes) : b.bytes[j] \in White

TypeOK ==
    /\ body \in Bodies
    /\ at \in 0..Len(body.bytes)
    /\ pending \in {<<>>, <<"L">>}
    /\ scanned \in 0..Len(buffer)
    /\ sse \in {"unknown", "yes", "no"}
    /\ result \in {"none", "turn", "malformed", "finish_error",
                   "stream_closed", "empty", "transport"}

\* What a decoder would have applied that is given the text in one piece, from
\* the definition of a block alone.
WholeEvents(bytes) ==
    LET text == Decode(<<>>, bytes).text
        ends == {e \in 1..Len(text) : EndsAt(text, 0, e)}
        before(e) == {f \in ends : f < e}
        start(e) == IF before(e) = {} THEN 0
                    ELSE CHOOSE f \in before(e) : \A g \in before(e) : g <= f
        block(i) == IF i \in ends THEN EventsOf(SubSeq(text, start(i) + 1, i)) ELSE <<>>
    IN FlattenSeq([i \in 1..Len(text) |-> block(i)])

\* However a stream is cut into chunks, inside a character, a line end or an
\* event, each event is applied as soon as its last byte is there, once and in
\* order, and the stream ends, well or badly, exactly where it would end if it
\* came in one piece (IncrementalSseParser::push, LiveStreamDecoder::push).
CutsDoNotMatter ==
    LET whole == IF DetectSse(Arrived) = "yes"
                 THEN ApplyEvents(<<>>, WholeEvents(Arrived))
                 ELSE ApplyEvents(<<>>, <<>>)
    IN sse = "yes" \/ result = "none" =>
        /\ applied = whole.applied
        /\ result = "none" => ~whole.complete /\ whole.error = "none"
        /\ result = "turn" => whole.complete
        /\ result \in {"malformed", "finish_error"} => whole.error = result

\* A turn is only made of an answer that arrived to its end: the terminal
\* event of a stream with its empty line, or the whole of a JSON value.  What a
\* broken connection leaves, however complete it looks, is no turn.
NoTurnFromATruncation ==
    result = "turn" =>
        IF sse = "yes"
        THEN \E i \in 1..at, j \in 1..at :
                /\ i < j
                /\ body.bytes[i] \in {".", "c"}
                /\ EndsAt(body.bytes, 0, j)
        ELSE \A i \in at + 1..Len(body.bytes) : body.bytes[i] \in White
=============================================================================
