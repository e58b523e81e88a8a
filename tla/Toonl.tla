------------------------------- MODULE Toonl -------------------------------
(***************************************************************************)
(* TOONL files: ToonlWriter over a sink that may fail, and the readers of  *)
(* what it wrote: ToonlStream::parse, ToonlRowReader with its cursors, the *)
(* truncation report and the close transforms.  A file is its lines.  The  *)
(* calls of the writer are made one after the other, in any order.         *)
(***************************************************************************)
EXTENDS ToonDecode

CONSTANTS MaxCalls,                 \* calls of a writer
          MaxFailures,              \* writes of its sink that fail
          TOONL_TAGGED_LANE_LIMIT   \* 8 in the code

VARIABLES file,       \* the lines written
          writer,     \* the ToonlWriter
          accepted,   \* what was written by calls that returned Ok
          calls, failures, torn   \* counts, and whether a header was lost behind a trailer

toonlVars == <<file, writer, accepted, calls, failures, torn>>

-----------------------------------------------------------------------------
(* Lines *)

toonl_header_fields(delimiter, fields) == Joined([i \in DOMAIN fields |-> canonical_key(fields[i])], delimiter)
toonl_header_text(delimiter, header_fields, continuation) ==
  "[" \o (IF continuation THEN "~" ELSE "") \o (IF delimiter = "," THEN "" ELSE delimiter)
      \o "]{" \o header_fields \o "}:"
tagged_toonl_header_text(tag, header_fields) == "[]<" \o tag \o ">{" \o header_fields \o "}:"
toonl_trailer(n) == "[=" \o ToString(n) \o "]"

TagChars == Letters \union Digits \union {"_", "-"}
validate_toonl_tag(tag) == tag # "" /\ Chars(tag) \subseteq TagChars

\* A trailer's count, if the line is one; -1 when it is not a number.
toonl_trailer_count(line) ==
  IF Upto(line, 2) # "[=" \/ ~EndsWith(line, "]") THEN <<>>
  ELSE LET n == SubSeq(line, 3, Len(line) - 1)
       IN  <<IF n # "" /\ Chars(n) \subseteq Digits THEN ToNat(n) ELSE -1>>

NoHeader == [is |-> "none"]
BadHeader == [is |-> "bad"]
parse_toonl_header(line) ==
  LET close    == FirstOf(At(line, "]"))
      bracket  == SubSeq(line, 2, close - 1)
      again    == Ch(bracket, 1) = "~"
      text     == IF again THEN From(bracket, 2) ELSE bracket
      rest     == From(line, close + 1)
      tagged   == ~again /\ Ch(rest, 1) = "<"
      tag      == IF tagged THEN SubSeq(rest, 2, FirstOf(At(rest, ">")) - 1) ELSE ""
      suffix   == IF tagged THEN From(rest, Len(tag) + 3) ELSE rest
      header   == SubSeq(suffix, 2, Len(suffix) - 2)
      names    == split_delimited(header, IF text = "" THEN "," ELSE text)
      keys     == [i \in DOMAIN names |-> parse_key(names[i])]
  IN  IF Ch(line, 1) # "[" THEN NoHeader
      ELSE IF close # 0 /\ ~again /\ Ch(text, 1) = "=" THEN NoHeader
      ELSE IF \/ close = 0 \/ text \notin {"", "|", "\t"}
              \/ tagged /\ (~validate_toonl_tag(tag) \/ text # "")
              \/ Ch(suffix, 1) # "{" \/ ~EndsWith(suffix, "}:")
              \/ ~Terminated(header) \/ names = <<>> \/ \E i \in DOMAIN keys : keys[i] \in {<<>>, <<"">>}
        THEN BadHeader
      ELSE [is |-> "header", delimiter |-> IF text = "" THEN "," ELSE text, header_fields |-> header,
            fields |-> [i \in DOMAIN keys |-> keys[i][1]], continuation |-> again, tag |-> tag]

\* Where a row's tag ends: 0 for an untagged row, -1 for an invalid tag.
toonl_tagged_row_prefix(line) ==
  LET colon == FirstOf(At(line, ":"))
      tag   == Upto(line, colon - 1)
  IN  IF colon < 2 THEN 0
      ELSE IF validate_toonl_tag(tag) THEN colon
      ELSE IF Ch(tag, 1) \in TagChars /\ Chars(tag) \intersect {",", "[", "]", "|", "{", "}", "\t", " "} = {}
        THEN -1
      ELSE 0

\* The cells of a row with so many fields.
parse_toonl_row(text, segment) ==
  LET row == split_delimited(text, segment.delimiter)
  IN  IF \/ ~Terminated(text) \/ Len(row) # Len(segment.fields)
         \/ \E i \in DOMAIN row : parse_scalar(row[i]) = <<>>
        THEN <<>> ELSE <<row>>
toonl_row_value(segment, row) ==
  Obj([i \in DOMAIN row |-> Field(segment.fields[i], parse_scalar(row[i])[1])])

-----------------------------------------------------------------------------
(* The writer.  A call collects what it writes; the write that fails ends  *)
(* it, and what it did to the writer before that stays.                    *)

NoLane == [fields |-> <<>>, shapes |-> {}]
ToonlWriter(delimiter, rows, bytes) ==
  [delimiter |-> delimiter, fields |-> <<>>, header_fields |-> "", shapes |-> {}, lanes |-> [tag \in {} |-> NoLane],
   row_count |-> 0, rows_since |-> 0, bytes_since |-> 0, every_rows |-> rows, every_bytes |-> bytes,
   finished |-> FALSE]

Call(w, failing) == [w |-> w, out |-> <<>>, failing |-> failing, err |-> ""]
Refuse(c, why) == IF c.err # "" THEN c ELSE [c EXCEPT !.err = why]
write_all(c, line) ==
  IF c.err # "" THEN c
  ELSE IF c.failing = 1 THEN [c EXCEPT !.failing = 0, !.err = "write error"]
  ELSE [c EXCEPT !.out = Append(@, line), !.failing = @ - 1]

IsRow(record) == record.t = "object" /\ record.fields # <<>> /\ \A i \in DOMAIN record.fields : is_primitive(record.fields[i].v)
toonl_value_fields(record) == [i \in DOMAIN record.fields |-> record.fields[i].k]
toonl_value_cells(record, fields, delimiter) ==
  [i \in DOMAIN fields |-> primitive_text(Get(record.fields, fields[i]), delimiter)]
\* Records of one shape take the order of the first one.
canonical_toonl_fields(fields, shapes) ==
  LET same == {known \in shapes : Len(known) = Len(fields) /\ Range(known) = Range(fields)}
  IN  IF same = {} THEN fields ELSE CHOOSE known \in same : TRUE

close_segment(c) == IF c.w.fields = <<>> THEN c ELSE write_all(c, toonl_trailer(c.w.row_count))
write_header(c, fields) ==
  LET header == toonl_header_fields(c.w.delimiter, fields)
      d      == write_all(c, toonl_header_text(c.w.delimiter, header, FALSE))
  IN  IF d.err # "" THEN d ELSE [d EXCEPT !.w.header_fields = header]
Rotated(c, fields) ==
  LET d == write_header(close_segment(c), fields)
  IN  IF d.err # "" THEN d
      ELSE [d EXCEPT !.w.fields = fields, !.w.row_count = 0, !.w.rows_since = 0, !.w.bytes_since = 0]
continuation_due(w) ==
  \/ w.every_rows # 0 /\ w.rows_since >= w.every_rows
  \/ w.every_bytes # 0 /\ w.bytes_since >= w.every_bytes
write_continuation_if_due(c) ==
  LET d == write_all(c, toonl_header_text(c.w.delimiter, c.w.header_fields, TRUE))
  IN  IF c.err # "" \/ ~continuation_due(c.w) THEN c
      ELSE IF d.err # "" THEN d ELSE [d EXCEPT !.w.rows_since = 0, !.w.bytes_since = 0]
write_value_row(c, record) ==
  LET row == Joined(toonl_value_cells(record, c.w.fields, c.w.delimiter), c.w.delimiter)
      d   == write_all(c, row)
  IN  IF d.err # "" THEN d
      ELSE [d EXCEPT !.w.row_count = @ + 1, !.w.rows_since = @ + 1, !.w.bytes_since = @ + Len(row) + 1]
write_record(c0, record) ==
  LET fields == canonical_toonl_fields(toonl_value_fields(record), c0.w.shapes)
      c      == [c0 EXCEPT !.w.shapes = @ \union {fields}]
      d      == write_continuation_if_due(IF c.w.fields = fields THEN c ELSE Rotated(c, fields))
  IN  IF c0.w.finished THEN Refuse(c0, "closed")
      ELSE IF ~IsRow(record) THEN Refuse(c0, "flat objects")
      ELSE IF d.err # "" THEN d ELSE write_value_row(d, record)

WithLane(w, tag) == IF tag \in DOMAIN w.lanes THEN w ELSE [w EXCEPT !.lanes = (tag :> NoLane) @@ @]
LaneHasRoom(w, tag) == tag \in DOMAIN w.lanes \/ Cardinality(DOMAIN w.lanes) < TOONL_TAGGED_LANE_LIMIT
\* A lane's header goes in front of the rows that need it.
Declared(c, tag, fields) ==
  LET w == WithLane(c.w, tag)
      d == write_all(c, tagged_toonl_header_text(tag, toonl_header_fields(",", fields)))
  IN  IF w.lanes[tag].fields = fields THEN c
      ELSE IF d.err # "" THEN d ELSE [d EXCEPT !.w = [w EXCEPT !.lanes[tag].fields = fields]]
normalize_toonl_header_fields(names) ==
  LET keys == [i \in DOMAIN names |-> parse_key(names[i])]
  IN  IF \E i \in DOMAIN keys : keys[i] \in {<<>>, <<"">>} THEN <<>> ELSE [i \in DOMAIN keys |-> keys[i][1]]
declare_lane(c, tag, names) ==
  LET fields == normalize_toonl_header_fields(names)
  IN  IF c.w.finished THEN Refuse(c, "closed")
      ELSE IF ~validate_toonl_tag(tag) \/ ~LaneHasRoom(c.w, tag) \/ fields = <<>> THEN Refuse(c, "lane")
      ELSE Declared(c, tag, fields)
\* The lane is made before the record is looked at.
write_tagged_record(c, tag, record) ==
  LET w      == WithLane(c.w, tag)
      fields == canonical_toonl_fields(toonl_value_fields(record), w.lanes[tag].shapes)
      known  == [w EXCEPT !.lanes[tag].shapes = @ \union {fields}]
      d      == Declared([c EXCEPT !.w = known], tag, fields)
  IN  IF c.w.finished THEN Refuse(c, "closed")
      ELSE IF ~validate_toonl_tag(tag) \/ ~LaneHasRoom(c.w, tag) THEN Refuse(c, "lane")
      ELSE IF ~IsRow(record) THEN Refuse([c EXCEPT !.w = w], "flat objects")
      ELSE write_all(d, tag \o ":" \o Joined(toonl_value_cells(record, fields, ","), ","))
\* finish takes the writer away, whatever it returns.
finish(c) ==
  LET d == IF c.w.finished THEN c ELSE close_segment(c) IN [d EXCEPT !.w.finished = TRUE]

-----------------------------------------------------------------------------
(* The readers.  Both go through the lines that are not empty; `declared`  *)
(* is the header that a line is, `row` the segment it is a row of.         *)

Reserved == "- "
ensure_continuation_matches(current, header) ==
  /\ current # <<>>
  /\ current[1].delimiter = header.delimiter /\ current[1].header_fields = header.header_fields
\* What a line is to a reader with these lanes and this open segment.
Kind(line, lanes, current) ==
  LET header == parse_toonl_header(line)
      colon  == toonl_tagged_row_prefix(line)
      tag    == Upto(line, colon - 1)
      wrong(why) == [is |-> "error", why |-> why]
  IN  IF Upto(line, 2) = Reserved THEN wrong("reserved line prefix")
      ELSE IF toonl_trailer_count(line) # <<>>
        THEN IF toonl_trailer_count(line) = <<-1>> THEN wrong("invalid trailer count")
             ELSE IF current = <<>> THEN wrong("trailer without header")
             ELSE IF current[1].row_count # toonl_trailer_count(line)[1] THEN wrong("trailer count mismatch")
             ELSE [is |-> "trailer"]
      ELSE IF header = BadHeader THEN wrong("invalid header")
      ELSE IF header # NoHeader
        THEN IF header.continuation
               THEN IF ensure_continuation_matches(current, header) THEN [is |-> "continuation"]
                    ELSE wrong("continuation header mismatch")
             ELSE IF header.tag # "" /\ header.tag \notin DOMAIN lanes
                     /\ Cardinality(DOMAIN lanes) >= TOONL_TAGGED_LANE_LIMIT
               THEN wrong("too many tagged lanes")
             ELSE header
      ELSE IF colon = -1 THEN [is |-> "bad row", why |-> "invalid tag"]
      ELSE IF colon > 0 /\ tag \in DOMAIN lanes THEN [is |-> "row", lane |-> tag, text |-> From(line, colon + 1)]
      ELSE IF current # <<>> THEN [is |-> "row", lane |-> "", text |-> line]
      ELSE [is |-> "bad row", why |-> IF colon > 0 THEN "unknown tag" ELSE "row before header"]

Segment(header) == [lane |-> header.tag, delimiter |-> header.delimiter, fields |-> header.fields,
                    header_fields |-> header.header_fields, row_count |-> 0, rows |-> <<>>]
WithRow(segment, row) == [segment EXCEPT !.row_count = @ + 1, !.rows = Append(@, row)]

\* ToonlStream::parse, line by line.
NoStream == [err |-> "", anonymous |-> <<>>, current |-> <<>>, lanes |-> [tag \in {} |-> <<>>],
             order |-> <<>>, interleaved |-> <<>>, tagged |-> FALSE]
append_interleaved_toonl_row(segments, segment, row) ==
  LET last == Last(segments)
  IN  IF segments # <<>> /\ last.lane = segment.lane /\ last.delimiter = segment.delimiter
         /\ last.header_fields = segment.header_fields
        THEN [segments EXCEPT ![Len(segments)] = WithRow(@, row)]
        ELSE Append(segments, WithRow([segment EXCEPT !.rows = <<>>, !.row_count = 0], row))
ParseRow(p, lane, text) ==
  LET segment == IF lane = "" THEN p.current[1] ELSE Last(p.lanes[lane])
      row     == parse_toonl_row(text, segment)
      longer  == WithRow(segment, row[1])
      q       == [p EXCEPT !.interleaved = append_interleaved_toonl_row(@, segment, row[1])]
  IN  IF row = <<>> THEN [p EXCEPT !.err = "row arity mismatch"]
      ELSE IF lane = "" THEN [q EXCEPT !.current = <<longer>>]
      ELSE [q EXCEPT !.lanes[lane] = Append(Front(@), longer), !.tagged = TRUE]
ParseLine(p, line) ==
  LET kind  == Kind(line, p.lanes, p.current)
      after == [p EXCEPT !.anonymous = @ \o p.current, !.current = <<>>]
      named(lane) == IF \E i \in DOMAIN p.order : p.order[i] = lane THEN p.order ELSE Append(p.order, lane)
  IN  IF p.err # "" \/ line = "" \/ kind.is = "continuation" THEN p
      ELSE IF kind.is \in {"error", "bad row"} THEN [p EXCEPT !.err = kind.why]
      ELSE IF kind.is = "trailer" THEN after
      ELSE IF kind.is = "row" THEN ParseRow(p, kind.lane, kind.text)
      ELSE IF kind.tag = "" THEN [after EXCEPT !.current = <<Segment(kind)>>, !.order = named("")]
      ELSE [p EXCEPT !.tagged = TRUE, !.order = named(kind.tag),
                     !.lanes = (kind.tag :> Append(IF kind.tag \in DOMAIN @ THEN @[kind.tag] ELSE <<>>, Segment(kind))) @@ @]
parse(lines) ==
  LET p         == Folded(ParseLine, NoStream, lines)
      anonymous == p.anonymous \o p.current
  IN  [err |-> p.err, lanes |-> p.tagged,
       segments |-> IF ~p.tagged THEN anonymous
                    ELSE Flat([i \in DOMAIN p.order |-> IF p.order[i] = "" THEN anonymous ELSE p.lanes[p.order[i]]]),
       interleaved_segments |-> IF p.tagged THEN p.interleaved ELSE anonymous]
row_values(segments) ==
  Flat([i \in DOMAIN segments |-> [j \in DOMAIN segments[i].rows |-> toonl_row_value(segments[i], segments[i].rows[j])]])
to_closed_toon_document(segment) ==
  <<"[" \o ToString(Len(segment.rows)) \o (IF segment.delimiter = "," THEN "" ELSE segment.delimiter)
        \o "]{" \o toonl_header_fields(segment.delimiter, segment.fields) \o "}:">>
    \o [i \in DOMAIN segment.rows |-> "  " \o Joined(segment.rows[i], segment.delimiter)]

\* ToonlRowReader: what next() yields is in `out`, an error of a row does not
\* end the reader.  Offsets are counted in lines.
ToonlRowReader ==
  [offset |-> 0, header |-> "", since |-> 0, anchor |-> "", current |-> <<>>, lanes |-> [tag \in {} |-> <<>>],
   out |-> <<>>, finished |-> FALSE]
Yield(rd, item) == [rd EXCEPT !.out = Append(@, item)]
RowError(why) == [t |-> "error", why |-> why]
ReadRow(rd, lane, text) ==
  LET segment == IF lane = "" THEN rd.current[1] ELSE rd.lanes[lane]
      row     == parse_toonl_row(text, segment)
      counted == [segment EXCEPT !.row_count = @ + 1]
      read    == Yield(rd, toonl_row_value(segment, row[1]))
  IN  IF row = <<>> THEN Yield(rd, RowError("row arity mismatch"))
      ELSE IF lane = "" THEN [read EXCEPT !.current = <<counted>>, !.since = @ + 1]
      ELSE [read EXCEPT !.lanes[lane] = counted]
consume_line(rd, line) ==
  LET kind == Kind(line, rd.lanes, rd.current)
      r    == [rd EXCEPT !.offset = @ + 1, !.anchor = line]
  IN  IF rd.finished THEN rd
      ELSE IF line = "" \/ kind.is = "continuation" THEN r
      ELSE IF kind.is = "error" THEN [Yield(r, RowError(kind.why)) EXCEPT !.finished = TRUE]
      ELSE IF kind.is = "bad row" THEN Yield(r, RowError(kind.why))
      ELSE IF kind.is = "trailer" THEN [r EXCEPT !.current = <<>>]
      ELSE IF kind.is = "row" THEN ReadRow(r, kind.lane, kind.text)
      ELSE IF kind.tag # "" THEN [r EXCEPT !.lanes = (kind.tag :> Segment(kind)) @@ @]
      ELSE [r EXCEPT !.header = toonl_header_text(kind.delimiter, kind.header_fields, FALSE), !.since = 0,
                     !.current = <<Segment(kind)>>]
ReadAll(rd, lines) == Folded(consume_line, rd, lines)

HasCursor(rd) == rd.header # ""
cursor(rd) == [byte_offset |-> rd.offset, active_header_line |-> rd.header, rows_since_header |-> rd.since,
               anchor |-> rd.anchor]
\* As if the resumed segment had no rows yet.
resume_from_bytes_fromZero(lines, c) ==
  LET header == parse_toonl_header(c.active_header_line)
  IN  IF \/ Len(lines) < c.byte_offset
         \/ c.byte_offset > 0 /\ lines[c.byte_offset] # c.anchor
         \/ header \in {NoHeader, BadHeader}
        THEN <<>>
        ELSE <<[ToonlRowReader EXCEPT !.offset = c.byte_offset, !.header = c.active_header_line,
                                      !.since = c.rows_since_header, !.anchor = c.anchor,
                                      !.current = <<[Segment(header) EXCEPT !.row_count = 0]>>]>>

\* The reader of the rest, none when the file is not the one of the cursor.
resume_from_bytes(lines, c) ==
  LET header == parse_toonl_header(c.active_header_line)
  IN  IF \/ Len(lines) < c.byte_offset
         \/ c.byte_offset > 0 /\ lines[c.byte_offset] # c.anchor
         \/ header \in {NoHeader, BadHeader}
        THEN <<>>
        ELSE <<[ToonlRowReader EXCEPT !.offset = c.byte_offset, !.header = c.active_header_line,
                                      !.since = c.rows_since_header, !.anchor = c.anchor,
                                      !.current = <<[Segment(header) EXCEPT !.row_count = c.rows_since_header]>>]>>

\* Every line of an open segment that is no trailer counts as a row of it.
detect_toonl_truncation(lines) ==
  LET see(st, line) ==
        IF st.kind # "" \/ line = "" THEN st
        ELSE IF toonl_trailer_count(line) # <<>>
          THEN IF st.open = <<>> THEN [st EXCEPT !.kind = "invalid"]
               ELSE IF toonl_trailer_count(line) # st.open THEN [st EXCEPT !.kind = "trailer_count_mismatch"]
               ELSE [st EXCEPT !.open = <<>>]
        ELSE IF st.open # <<>> THEN [st EXCEPT !.open = <<@[1] + 1>>]
        ELSE IF Ch(line, 1) = "[" /\ EndsWith(line, ":") THEN [st EXCEPT !.open = <<0>>]
        ELSE st
      end == Folded(see, [open |-> <<>>, kind |-> ""], lines)
  IN  IF end.kind = "" /\ end.open # <<>> THEN "missing_trailer" ELSE end.kind

-----------------------------------------------------------------------------
(* tq trim --keep-last (crates/tq/src/cli/toonl_trim.rs)                   *)

\* The live header lines in the order their lanes were first declared.
SetLive(live, tag, line) ==
  IF \E i \in DOMAIN live : live[i].tag = tag
    THEN [i \in DOMAIN live |-> IF live[i].tag = tag THEN [tag |-> tag, line |-> line] ELSE live[i]]
    ELSE Append(live, [tag |-> tag, line |-> line])
is_toonl_tagged_row(line, live) ==
  LET tag == Upto(line, FirstOf(At(line, ":")) - 1)
  IN  At(line, ":") # {} /\ validate_toonl_tag(tag) /\ \E i \in DOMAIN live : live[i].tag = tag
\* A segment is where its header and its trailer are; 0 for no trailer.
scan_toonl_trim_units(lines) ==
  LET see(st, i) ==
        LET line   == lines[i]
            header == parse_toonl_header(line)
        IN  IF line = "" THEN st
            ELSE IF toonl_trailer_count(line) # <<>>
              THEN [st EXCEPT !.segments[st.current].trailer = i, !.current = 0]
            ELSE IF header # NoHeader /\ header.continuation THEN st
            ELSE IF header # NoHeader
              THEN LET d == [st EXCEPT !.live = SetLive(@, header.tag, line)]
                   IN  IF header.tag # "" THEN d
                       ELSE [d EXCEPT !.current = Len(st.segments) + 1,
                                      !.segments = Append(@, [header |-> i, trailer |-> 0])]
            ELSE [st EXCEPT !.rows = Append(@, [start |-> i, live |-> st.live,
                    segment |-> IF is_toonl_tagged_row(line, st.live) THEN 0 ELSE st.current])]
  IN  Folded(see, [segments |-> <<>>, rows |-> <<>>, current |-> 0, live |-> <<>>], [i \in DOMAIN lines |-> i])
append_trimmed_suffix(lines, cut, scan) ==
  LET retained(k) == Cardinality({r \in DOMAIN scan.rows : scan.rows[r].start >= cut /\ scan.rows[r].segment = k})
      cutThrough(i) == {k \in DOMAIN scan.segments : scan.segments[k].trailer = i /\ scan.segments[k].header < cut}
  IN  [n \in 1..Len(lines) - cut + 1 |->
         LET i == cut + n - 1
         IN  IF cutThrough(i) = {} THEN lines[i]
             ELSE toonl_trailer(retained(CHOOSE k \in cutThrough(i) : TRUE))]
trim_toonl_keep_last(lines, keep_last) ==
  LET scan    == scan_toonl_trim_units(lines)
      cut     == scan.rows[Len(scan.rows) - keep_last + 1]
      live(l) == [i \in DOMAIN l |-> l[i].line]
      closed  == scan.segments # <<>> /\ Last(scan.segments).trailer # 0
  IN  IF Len(scan.rows) <= keep_last THEN lines
      ELSE IF keep_last = 0 THEN live(scan.live) \o (IF closed THEN <<toonl_trailer(0)>> ELSE <<>>)
      ELSE live(cut.live) \o append_trimmed_suffix(lines, cut.start, scan)

-----------------------------------------------------------------------------
(* The machine: one caller's calls, and a sink whose k-th write in a call  *)
(* may fail and then has written nothing.                                  *)

A == String("t:x")
Records == {Obj(<<Field("a", Number("1")), Field("b", A)>>), Obj(<<Field("b", String("")), Field("a", Null)>>),
            Obj(<<Field("k", String("[=1]"))>>)}
BadRecord == Obj(<<Field("k", Arr(<<>>))>>)
Tags == {"t", "u"}
Cadences == {[delimiter |-> "|", rows |-> 1, bytes |-> 0], [delimiter |-> ",", rows |-> 0, bytes |-> 15]}

ToonlInit ==
  /\ file = <<>> /\ accepted = <<>> /\ calls = 0 /\ failures = 0 /\ torn = FALSE
  /\ \E c \in Cadences : writer = ToonlWriter(c.delimiter, c.rows, c.bytes)

Wanted == {0} \union (IF failures < MaxFailures THEN 1..4 ELSE {})
IsTrailer(line) == toonl_trailer_count(line) # <<>>
Made(c, record) ==
  /\ writer' = c.w
  /\ file' = file \o c.out
  /\ calls' = calls + 1
  /\ failures' = failures + (IF c.err = "write error" THEN 1 ELSE 0)
  /\ accepted' = IF c.err = "" THEN accepted \o record ELSE accepted
  \* The open segment was closed and the next one's header is missing.
  /\ torn' = (torn \/ (c.err = "write error" /\ c.out # <<>> /\ IsTrailer(Last(c.out))))

Write == /\ ~writer.finished /\ calls < MaxCalls
         /\ \E record \in Records, k \in Wanted : Made(write_record(Call(writer, k), record), <<record>>)
Declare == /\ ~writer.finished /\ calls < MaxCalls
           /\ \E tag \in Tags, k \in Wanted \intersect {0, 1} : Made(declare_lane(Call(writer, k), tag, <<"k">>), <<>>)
WriteTagged == /\ ~writer.finished /\ calls < MaxCalls
               /\ \E record \in Records \union {BadRecord}, k \in Wanted \intersect 0..2 :
                    Made(write_tagged_record(Call(writer, k), "t", record), <<record>>)
Finish == /\ ~writer.finished
          /\ \E k \in Wanted \intersect {0, 1} : Made(finish(Call(writer, k)), <<>>)
ToonlNext == Write \/ Declare \/ WriteTagged \/ Finish

-----------------------------------------------------------------------------
(* Properties *)

SameRow(v, w) == Len(v.fields) = Len(w.fields) /\ Range(v.fields) = Range(w.fields)
SameRows(vs, ws) == Len(vs) = Len(ws) /\ \A i \in DOMAIN vs : SameRow(vs[i], ws[i])
\* The reader before each line and at the end.
Readers == Folded(LAMBDA rds, line : Append(rds, consume_line(Last(rds), line)), <<ToonlRowReader>>, file)

\* core.rs:862, toonl_and_cyclic_decode.rs:489: what the writer accepted is what
\* both readers give, in order across lanes; a file whose segment was lost
\* between trailer and header, and used again, is refused.
RecordsReadBack(stream, rds) ==
  /\ ~torn => stream.err = ""
  /\ stream.err = "" => /\ SameRows(row_values(stream.interleaved_segments), accepted)
                        /\ SameRows(Last(rds).out, accepted)
                        /\ Len(row_values(stream.segments)) = Len(accepted)

\* toonl_and_cyclic_decode.rs:621: a reader resumed after any line goes on where
\* the first one stood, unless it knew lanes; a file that has become shorter
\* is refused.
ResumesWhereItStopped(rds) ==
  \A i \in DOMAIN rds :
    LET resumed == resume_from_bytes(file, cursor(rds[i]))
        rest == ReadAll(resumed[1], From(file, i))
    IN  HasCursor(rds[i]) =>
          /\ resumed # <<>>
          /\ DOMAIN rds[i].lanes = {} => rds[i].out \o rest.out = Last(rds).out
          /\ i > 1 => resume_from_bytes(Upto(file, i - 2), cursor(rds[i])) = <<>>

\* core.rs:447: a file without lanes and repeated headers is complete when its
\* last segment is closed, and only then.
CutsAreReported(rds) ==
  (DOMAIN Last(rds).lanes = {} /\ \A i \in DOMAIN file : Upto(file[i], 2) # "[~") =>
    \A i \in 0..Len(file) :
      detect_toonl_truncation(Upto(file, i)) = IF i = 0 \/ IsTrailer(file[i]) THEN "" ELSE "missing_trailer"

\* to_closed_toon_document: every segment is the TOON document of its rows.
StrictOptions == [indent |-> 2, object_array_columns |-> FALSE, strict |-> TRUE, max_depth |-> 0,
                  max_array_length |-> 0, max_keys |-> 0]
ClosesAsDocuments(segment) ==
  LET d == decode_events_into(to_closed_toon_document(segment), StrictOptions)
  IN  d.err = "" /\ SameRows(build_value_from_events(d.out, FALSE).items, row_values(<<segment>>))

\* docs/toonl-reddb-spec.md:737: a trimmed file is a stream of the last rows, and
\* as complete as it was.
TrimKeepsLast(keep_last) ==
  LET trimmed == trim_toonl_keep_last(file, keep_last)
      stream  == parse(trimmed)
      plain   == ~stream.lanes /\ \A i \in DOMAIN file : Upto(file[i], 2) # "[~"
  IN  /\ stream.err = ""
      /\ SameRows(row_values(stream.interleaved_segments),
                  From(accepted, Len(accepted) - keep_last + 1))
      /\ plain => detect_toonl_truncation(trimmed) = detect_toonl_truncation(file)

StreamFilesKeepRecords ==
  LET stream == parse(file)
      rds    == Readers
  IN  /\ RecordsReadBack(stream, rds)
      /\ ~torn => /\ ResumesWhereItStopped(rds)
                  /\ CutsAreReported(rds)
                  /\ \A i \in DOMAIN stream.segments : ClosesAsDocuments(stream.segments[i])
                  /\ \A keep_last \in 0..Len(accepted) - 1 : TrimKeepsLast(keep_last)
=============================================================================
