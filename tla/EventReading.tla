----------------------------- MODULE EventReading -----------------------------
(***************************************************************************)
(* The readers of line structured streams, on the bytes a peer chose and   *)
(* in the chunks they come in: EventParser of the Rust SSE client          *)
(* (crates/reddb-io-toon-rpc-sse/src/lib.rs), SseEventParser of the        *)
(* TypeScript one (packages/toon-rpc/src/sse.ts), and drainFrames of the   *)
(* dual dialect stream (packages/toon-rpc/src/acp-stream.ts).              *)
(*                                                                         *)
(* Bytes are abstracted to the two that end lines, the field name "data: " *)
(* as one byte, an opening brace or bracket, and any other.                *)
(***************************************************************************)
EXTENDS LineFeed, Naturals, Sequences, SequencesExt

CONSTANTS
  CR, DATA, BRACE, ANY,
  MaxEventBytes,  \* max_event_bytes, maxEventBytes
  MaxText,        \* bound: bytes of the stream
  MaxRead         \* bound: bytes of a chunk

VARIABLES
  source, \* what the peer sends
  seen,   \* how many of these bytes were read
  rust,   \* EventParser and what next_event returned
  ts,     \* SseEventParser and what onEvent was given
  dual    \* the buffer of the dual dialect stream and the frames it yielded

readVars == <<source, seen, rust, ts, dual>>

TextBytes == {LF, CR, DATA, BRACE, ANY}
Texts == Seq(TextBytes)
Parsers == [buffer : Texts, hasData : BOOLEAN, data : Texts, events : Seq(Texts), failed : BOOLEAN]
DualStreams == [buffer : Texts, frames : Seq([frame : Texts, dialect : {"jsonrpc", "toonrpc"}]), ended : BOOLEAN]
NewParser == [buffer |-> <<>>, hasData |-> FALSE, data |-> <<>>, events |-> <<>>, failed |-> FALSE]
NewStream == [buffer |-> <<>>, frames |-> <<>>, ended |-> FALSE]

ReadInit ==
  /\ source \in BoundedSeq(TextBytes, MaxText)
  /\ seen = 0
  /\ rust = NewParser
  /\ ts = NewParser
  /\ dual = NewStream

-----------------------------------------------------------------------------
\* Server-sent events, as both parsers understand them.

StripCR(line) == IF line # <<>> /\ Last(line) = CR THEN Front(line) ELSE line

\* A blank line ends an event, if it has data; what is not data is ignored.
ProcessLine(parser, line) ==
  IF line = <<>>
  THEN [parser EXCEPT !.events = IF parser.hasData THEN Append(@, parser.data) ELSE @,
                      !.hasData = FALSE, !.data = <<>>]
  ELSE IF Head(line) # DATA THEN parser
  ELSE [parser EXCEPT !.hasData = TRUE,
                      !.data = IF parser.hasData THEN @ \o <<LF>> \o Tail(line) ELSE Tail(line)]

TakeByte(parser, byte) ==
  IF byte # LF THEN [parser EXCEPT !.buffer = Append(@, byte)]
  ELSE ProcessLine([parser EXCEPT !.buffer = <<>>], StripCR(parser.buffer))

TakeBytes(parser, bytes) ==
  LET taken[i \in 0..Len(bytes)] ==
        IF i = 0 THEN parser ELSE TakeByte(taken[i - 1], bytes[i])
  IN  taken[Len(bytes)]

\* What a parser holds of an event that is not complete: its data, to which the
\* TypeScript one adds a byte for the last line's end, and the line at hand.
HeldByRust(parser) == Len(parser.data) + Len(parser.buffer)
HeldByTs(parser) == (IF parser.hasData THEN Len(parser.data) + 1 ELSE 0) + Len(parser.buffer)

\* EventParser::push looks at the limit behind a chunk; the events the chunk
\* completed are lost with it, as the caller asks no more after an error.
RustPush(parser, chunk) ==
  LET pushed == TakeBytes(parser, chunk)
  IN  IF HeldByRust(pushed) > MaxEventBytes THEN [parser EXCEPT !.failed = TRUE] ELSE pushed

\* As if the limit were looked at behind a chunk only.
CheckByte_late(parser, byte) == IF parser.failed THEN parser ELSE TakeByte(parser, byte)
\* SseEventParser.push looks at it behind every line, too; events it completed
\* before are in the queue.
CheckByte(parser, byte) ==
  LET next == TakeByte(parser, byte)
  IN  IF parser.failed THEN parser
      ELSE [next EXCEPT !.failed = byte = LF /\ HeldByTs(next) > MaxEventBytes]
CheckBytes(parser, chunk) ==
  LET checked[i \in 0..Len(chunk)] ==
        IF i = 0 THEN parser ELSE CheckByte(checked[i - 1], chunk[i])
  IN  checked[Len(chunk)]
TsPush(parser, chunk) ==
  LET pushed == CheckBytes(parser, chunk)
  IN  [pushed EXCEPT !.failed = @ \/ HeldByTs(pushed) > MaxEventBytes]

\* encode_event and encodeEvent.
Escaped(byte) == IF byte = LF THEN <<LF, DATA>> ELSE <<byte>>
EncodeEvent(document) ==
  LET event[i \in 0..Len(document)] ==
        IF i = 0 THEN <<DATA>> ELSE event[i - 1] \o Escaped(document[i])
  IN  event[Len(document)] \o <<LF, LF>>

-----------------------------------------------------------------------------
\* The frames of a dual dialect stream.

sniffDialect(text) == IF Head(text) = BRACE THEN "jsonrpc" ELSE "toonrpc"

Padding(text) == SelectInSeq(text, LAMBDA byte : byte \notin {CR, LF}) - 1
Unpadded(text) == IF Padding(text) < 0 THEN <<>> ELSE SubSeq(text, Padding(text) + 1, Len(text))

\* The length of a line end at a place, with or without a CR; 0 if there is none.
LineEnd(text, i) ==
  CASE i <= Len(text) /\ text[i] = LF -> 1
    [] i < Len(text) /\ text[i] = CR /\ text[i + 1] = LF -> 2
    [] OTHER -> 0
BlankLine(text, i) ==
  LET first == LineEnd(text, i)
      second == IF first = 0 THEN 0 ELSE LineEnd(text, i + first)
  IN  IF second = 0 THEN 0 ELSE first + second

\* The loop of drainFrames: a JSON frame is a line, a TOON frame ends before a
\* blank line.  Every frame takes bytes, so there are no more rounds than bytes.
NextFrame(stream) ==
  LET text == Unpadded(stream.buffer)
      line == SelectInSeq(text, LAMBDA byte : byte = LF)
      blanks == {i \in 1..Len(text) : BlankLine(text, i) > 0}
      blank == Min(blanks)
      yields(frame, dialect, from) ==
        [stream EXCEPT !.frames = Append(@, [frame |-> frame, dialect |-> dialect]),
                       !.buffer = SubSeq(text, from, Len(text))]
  IN  IF text # <<>> /\ sniffDialect(text) = "jsonrpc" /\ line > 0
      THEN yields(StripCR(SubSeq(text, 1, line - 1)), "jsonrpc", line + 1)
      ELSE IF text # <<>> /\ sniffDialect(text) = "toonrpc" /\ blanks # {}
      THEN yields(SubSeq(text, 1, blank - 1), "toonrpc", blank + BlankLine(text, blank))
      ELSE [stream EXCEPT !.buffer = text]
drainFrames(stream) ==
  LET drain[rounds \in 0..Len(stream.buffer)] ==
        [s \in DualStreams |-> IF rounds = 0 THEN s ELSE drain[rounds - 1][NextFrame(s)]]
  IN  drain[Len(stream.buffer)][stream]

\* At the end of the input, what is left is a frame.
Flushed(stream) ==
  LET text == Reverse(Unpadded(Reverse(Unpadded(stream.buffer))))
  IN  IF text = <<>> THEN [stream EXCEPT !.ended = TRUE]
      ELSE [stream EXCEPT !.ended = TRUE,
              !.frames = Append(@, [frame |-> text, dialect |-> sniffDialect(text)])]

\* encodeFrame: one line of JSON, or a TOON document and a blank line.
EncodeMessage(frame, dialect) ==
  frame \o (IF dialect = "jsonrpc" THEN <<LF>> ELSE <<LF, LF>>)

-----------------------------------------------------------------------------

ReadBytes(size) ==
  /\ seen + size <= Len(source)
  /\ seen' = seen + size
  /\ LET chunk == SubSeq(source, seen + 1, seen + size)
     IN  /\ rust' = IF rust.failed THEN rust ELSE RustPush(rust, chunk)
         /\ ts' = IF ts.failed THEN ts ELSE TsPush(ts, chunk)
         /\ dual' = drainFrames([dual EXCEPT !.buffer = @ \o chunk])
  /\ UNCHANGED source

\* An event that is not complete is dropped.
ReadsEnd ==
  /\ seen = Len(source) /\ ~dual.ended
  /\ dual' = Flushed(dual)
  /\ UNCHANGED <<source, seen, rust, ts>>

ReadNext == (\E size \in 1..MaxRead : ReadBytes(size)) \/ ReadsEnd

ReadSpec == ReadInit /\ [][ReadNext]_readVars

-----------------------------------------------------------------------------

Uncut(n) == TakeBytes(NewParser, SubSeq(source, 1, n))

\* However a stream is cut, a parser gives the events it would give of the whole,
\* or refuses it after some of them, and only where the whole holds more of an
\* unfinished event than the limit; no event is over the limit, but for what a
\* chunk completes at once in Rust.
EventsIgnoreCuts ==
  LET whole == Uncut(seen)
  IN  /\ IF rust.failed THEN /\ IsPrefix(rust.events, whole.events)
                             /\ \E n \in 0..seen : HeldByRust(Uncut(n)) > MaxEventBytes
         ELSE rust = whole
      /\ IF ts.failed THEN /\ IsPrefix(ts.events, whole.events)
                           /\ \E n \in 0..seen : HeldByTs(Uncut(n)) > MaxEventBytes
         ELSE ts = whole
      /\ \A i \in DOMAIN ts.events : Len(ts.events[i]) < MaxEventBytes
      /\ \A i \in DOMAIN rust.events : Len(rust.events[i]) <= MaxEventBytes + MaxRead

\* And a dual dialect stream yields the frames of the whole.
FramesIgnoreCuts ==
  LET whole == drainFrames([NewStream EXCEPT !.buffer = SubSeq(source, 1, seen)])
  IN  dual = IF dual.ended THEN Flushed(whole) ELSE whole

\* What an encoder writes is read as it was: documents without a CR, which TOON
\* escapes, as events; messages of either dialect, one behind the other, as frames.
Documents == BoundedSeq({LF, BRACE, ANY}, 3)
WireMessages == {[frame |-> <<BRACE, ANY>>, dialect |-> "jsonrpc"],
                 [frame |-> <<ANY, LF, BRACE>>, dialect |-> "toonrpc"]}
EncodedIsRead ==
  /\ \A document \in Documents :
       TakeBytes(NewParser, EncodeEvent(document)).events = <<document>>
  /\ \A first, second \in WireMessages :
       drainFrames([NewStream EXCEPT !.buffer =
         EncodeMessage(first.frame, first.dialect) \o EncodeMessage(second.frame, second.dialect)]).frames
       = <<first, second>>

\* Both parsers and the stream of both dialects find the same in any cut of a stream,
\* and what the encoders wrote.
ReadsTheEventsSent == EventsIgnoreCuts /\ FramesIgnoreCuts /\ (seen = 0 => EncodedIsRead)
=============================================================================
