---------------------------- MODULE MCDocuments ----------------------------
(***************************************************************************)
(* What a peer sends and what is computed from values and files, one part  *)
(* at a time: a peer's bytes through the frame reader (FrameReading) and   *)
(* through the readers of lines (EventReading), its document through a     *)
(* server's dispatcher (Messages), a filter over rows (TqLaws), a value    *)
(* through the codec (ToonLaws), records through a stream file (Toonl).    *)
(* The parts share nothing and the ones that do not run rest.              *)
(***************************************************************************)
EXTENDS FrameReading, EventReading, Messages

VARIABLES part,                                       \* what runs
          filter, wraps,                              \* TqLaws
          doc, grown,                                 \* ToonLaws
          file, writer, accepted, calls, failures, torn  \* Toonl

CONSTANTS MaxWraps, MaxLawWraps, MAX_ARRAY_GROWTH,         \* of TqLaws
          MAX_EVAL_DEPTH, MAX_PRODUCED, Streams,
          MaxGrowth,                                       \* of ToonLaws
          MaxCalls, MaxFailures, TOONL_TAGGED_LANE_LIMIT   \* of Toonl

ASSUME TqBounds == /\ MAX_EVAL_DEPTH \in Nat \ {0} /\ MAX_PRODUCED \in Nat \ {0}
                   /\ MAX_ARRAY_GROWTH \in Nat

filterVars == <<filter, wraps>>
textVars == <<doc, grown>>
fileVars == <<file, writer, accepted, calls, failures, torn>>
wireVars == <<readingVars, readVars, messageVars>>
docVars == <<part, filterVars, textVars, fileVars, wireVars>>

Tq == INSTANCE TqLaws
Text == INSTANCE ToonLaws
Files == INSTANCE Toonl

-----------------------------------------------------------------------------
(* The documents' entries and the handlers of Messages, with MAX_INT       *)
(* = 40000 and MAX_SAFE_INTEGER = 50000.                                   *)

Envelope(version, method, params, id) ==
  LET given == {p \in {<<"toonrpc", version>>, <<"method", method>>, <<"params", params>>, <<"id", id>>} : p[2] # <<>>}
  IN  Obj([name \in {p[1] : p \in given} |-> (CHOOSE p \in given : p[1] = name)[2][1]])
V == <<TOONRPC_VERSION>>
M(name) == <<String(name)>>
One == <<Num(1)>>
Nested(n) == LET nested[k \in 0..n] == IF k = 0 THEN Null ELSE Arr(<<nested[k - 1]>>) IN nested[n]

MCRegistered == {"echo", "unsafe", "params", "fails", "offset99", "offset600", "app", "reserved", "own", "forged", "baddata"}
MCHandler(method, params, id) ==
  CASE method = "echo"      -> [is |-> "Ok", result |-> IF params = <<>> THEN Null ELSE params[1]]
    [] method = "unsafe"    -> [is |-> "Ok", result |-> Arr(<<Num(50001)>>)]
    [] method = "params"    -> [is |-> "InvalidParams"]
    [] method = "fails"     -> [is |-> "Failed"]
    [] method = "offset99"  -> [is |-> "ServerError", offset |-> 99]
    [] method = "offset600" -> [is |-> "ServerError", offset |-> 600]
    [] method = "app"       -> [is |-> "ApplicationError", code |-> -31999]
    [] method = "reserved"  -> [is |-> "ApplicationError", code |-> -32768]
    [] method = "own"       -> [is |-> "ResponseError", code |-> Other(-32769), data |-> <<Arr(<<Null>>)>>]
    [] method = "forged"    -> [is |-> "ResponseError", code |-> Other(-32601), data |-> <<>>]
    [] method = "baddata"   -> [is |-> "ResponseError", code |-> ErrorCode("InternalError"), data |-> <<Num(50001)>>]

MCRequests == {Envelope(V, M(name), <<Arr(<<>>)>>, One) : name \in MCRegistered \cup {"nope"}}
Echoes == {Envelope(V, M("echo"), params, id) :
             params \in {<<>>, <<Obj("k" :> Nested(2))>>, <<Nested(3)>>, <<Nested(4)>>},
             id \in {<<>>, <<Null>>, <<String("s")>>, <<Num(45000)>>}}
NotCalls ==
  {Envelope(version, M("echo"), <<>>, One) : version \in {<<>>, M("2.0"), One}}
    \cup {Envelope(V, method, <<>>, One) : method \in {M(""), One}}
    \cup {Envelope(V, M("echo"), params, One) : params \in {<<Null>>, <<Arr(<<Num(-50001)>>)>>}}
    \cup {Envelope(V, M("echo"), <<>>, <<id>>) : id \in {Fraction, Num(50001), Bool(TRUE)}}
    \cup {Null, Arr(<<>>)}
Answer(name, value) == Obj("toonrpc" :> TOONRPC_VERSION @@ "id" :> Num(1) @@ name :> value)
MCError(n, message) == Obj("code" :> Num(n) @@ "message" :> message)
NotAnswered == Obj(Answer("result", Null).members @@ "method" :> String("echo"))
MCAnswers == {Answer("result", Null), Answer("error", MCError(-32601, String("m"))), Answer("error", MCError(45000, String("m"))),
              Answer("error", MCError(-32601, Null)), Obj(Answer("result", Null).members @@ "error" :> MCError(-32601, String("m")))}
MCEntries == MCRequests \cup Echoes \cup NotCalls \cup MCAnswers \cup {NotAnswered}
ASSUME CallsAssumption == \A e \in MCEntries : IsCall(e) <=> e \in MCRequests \cup Echoes \cup {NotAnswered}

-----------------------------------------------------------------------------

\* Rows that tq reads: lists and numbers, and a line that does not parse.
MCStreams ==
  LET row(v) == <<v>>
      list(n) == Tq!Arr(<<Tq!Num(n)>>)
  IN  {<<>>, <<row(Tq!Num(1)), row(list(2))>>, <<row(Tq!Null), Tq!Bad, row(Tq!Num(3))>>,
       <<row(list(3)), row(Tq!Obj(<<Tq!Field(Tq!a, Tq!Bool(FALSE))>>)), row(Tq!Arr(<<>>))>>}

FilterRests == filter = Tq!Identity /\ wraps = 0
TextRests == doc = "none" /\ grown = 0
FilesRest == /\ file = <<>> /\ writer = "rests" /\ accepted = <<>>
             /\ calls = 0 /\ failures = 0 /\ torn = FALSE
ComputingRests == FilterRests /\ TextRests /\ FilesRest
FramesRest == ReadingInit /\ input = <<>>
\* An empty line has been read, which neither parser nor stream keeps.
EventsRest == /\ source = <<LF>> /\ seen = 1
              /\ rust = NewParser /\ ts = NewParser /\ dual = NewStream
MessagesRest == array = TRUE /\ entries = <<>>
WireRests == FramesRest /\ EventsRest /\ MessagesRest

MCInit ==
  \/ part = "frames" /\ ReadingInit /\ EventsRest /\ MessagesRest /\ ComputingRests
  \/ part = "events" /\ FramesRest /\ ReadInit /\ MessagesRest /\ ComputingRests
  \/ part = "messages" /\ FramesRest /\ EventsRest /\ MessagesInit /\ ComputingRests
  \/ part = "filter" /\ Tq!LawInit /\ TextRests /\ FilesRest /\ WireRests
  \/ part = "text" /\ FilterRests /\ Text!Init /\ FilesRest /\ WireRests
  \/ part = "files" /\ FilterRests /\ TextRests /\ Files!ToonlInit /\ WireRests
\* A state is looked at once, by a step that does nothing else: TLC evaluates
\* there what takes too long to be expanded as an invariant is.
Looking == part \in {"filter", "text", "files"} /\ part' = "seen"
Look == Looking /\ UNCHANGED <<filterVars, textVars, fileVars, wireVars>>
\* Bound: the entries of a batch beyond the limit, which refuses it unread.
Filler == {Null, NotAnswered}
FillsUp == Len(entries) < max_batch_length \/ \E e \in Filler : entries' = Append(entries, e)
MCNext ==
  \/ /\ part = "frames" /\ ReadingNext
     /\ UNCHANGED <<part, readVars, messageVars, filterVars, textVars, fileVars>>
  \/ /\ part = "events" /\ ReadNext
     /\ UNCHANGED <<part, readingVars, messageVars, filterVars, textVars, fileVars>>
  \/ /\ part = "messages" /\ MessagesNext /\ FillsUp
     /\ UNCHANGED <<part, readingVars, readVars, filterVars, textVars, fileVars>>
  \/ part = "filter" /\ Tq!LawNext /\ UNCHANGED <<part, textVars, fileVars, wireVars>>
  \/ part = "text" /\ Text!Next /\ UNCHANGED <<part, filterVars, fileVars, wireVars>>
  \/ part = "files" /\ Files!ToonlNext /\ UNCHANGED <<part, filterVars, textVars, wireVars>>
  \/ Look
MCSpec == MCInit /\ [][MCNext]_docVars

\* eval.rs and paths.rs: a filter's paths lead to what the filter produces.
PathsFollowValues == [][Looking /\ part = "filter" => Tq!PathsMatch]_docVars
\* docs/tq-language.md:77, halt.rs:5: a halt ends the run, whatever is around it.
HaltsPassThrough == [][Looking /\ part = "filter" => Tq!HaltsPass]_docVars
\* builtins/*.rs, assign.rs: a builtin does what the filter that defines it does.
DefinitionsHold == [][Looking /\ part = "filter" => Tq!DefinitionsAgree]_docVars
\* cli/mod.rs, run_toonl: a run over rows ends the same whichever way they are read.
RowModesAgree == [][Looking /\ part = "filter" => Tq!ModesAgree]_docVars

\* encode.rs:8-9: what the encoder writes is read back as it was, by whichever
\* options it is written, where decoding agrees with it on the columns at all;
\* a document that was cut short is noticed or lacks whole fields only; reading
\* leniently, with comments or under a limit never changes what is read.
TextsKeepMeaning == [][Looking /\ part = "text" =>
  /\ Text!PlainRoundTrips /\ Text!ExtensionsRoundTrip /\ Text!CyclicRoundTrips
  /\ Text!CutsAreNoticed /\ Text!ReadersAgree]_docVars
\* encode.rs:8-9 without a condition.
RoundTripsAsDocumented == [][Looking /\ part = "text" => Text!RoundTripsAsDocumented]_docVars

\* What a writer accepted is in its file for both readers, from any cursor on,
\* and as documents; a file cut inside a segment is reported.
StreamFilesKeepRecords == [][Looking /\ part = "files" => Files!StreamFilesKeepRecords]_docVars
=============================================================================
