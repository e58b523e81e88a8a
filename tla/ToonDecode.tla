----------------------------- MODULE ToonDecode -----------------------------
(***************************************************************************)
(* The TOON decoder: stream.rs, its tabular extensions                     *)
(* (stream_extensions.rs), the value builder and truncation reports.  A    *)
(* document is its sequence of lines.  A decode is a record that the       *)
(* grammar's functions pass on: the lines, how far they are read, the      *)
(* events so far and the error, after which nothing changes.  The source   *)
(* positions of events and errors are left out.                            *)
(***************************************************************************)
EXTENDS ToonText

-----------------------------------------------------------------------------
(* Lines *)

check_stream_header_depth(text, max_depth) ==
  LET plain == scan_unquoted_ascii(text).plain
      deep  == Folded(LAMBDA d, i :
                 IF i \notin plain THEN d
                 ELSE IF Ch(text, i) = "{" THEN [now |-> d.now + 1, most |-> Max({d.most, d.now + 1})]
                 ELSE IF Ch(text, i) = "}" THEN [d EXCEPT !.now = Max({0, @ - 1})] ELSE d,
                 [now |-> 0, most |-> 0], Places(text))
  IN  max_depth = 0 \/ deep.most <= max_depth

\* A content line, or the reason why it is none; blank lines and comments
\* are skipped, a blank one is remembered by the line after it.
StreamLine(raw, blank, x) ==
  LET others  == {i \in 1..Len(raw) : Ch(raw, i) \notin {" ", "\t"}}
      lead    == IF others = {} THEN Len(raw) ELSE Min(others) - 1
      tabs    == Cardinality({i \in 1..lead : Ch(raw, i) = "\t"})
      depth   == (lead - tabs) \div x.indent + tabs
      content == From(raw, lead + 1)
  IN  [depth |-> depth, content |-> content, blank |-> blank,
       err |-> IF x.strict /\ tabs > 0 THEN "tab used as indentation"
               ELSE IF x.strict /\ (lead - tabs) % x.indent # 0 THEN "invalid indentation"
               ELSE IF (x.max_depth # 0 /\ depth > x.max_depth)
                       \/ ~check_stream_header_depth(content, x.max_depth)
                 THEN "maximum nesting depth exceeded" ELSE ""]
is_comment_line(text) == LET t == trim_u0020(text) IN Ch(t, 1) = "#"
TrimEnd(text) == LET kept == 1..Len(text) \ At(text, " ") IN Upto(text, Max(kept \union {0}))
fill(raw, x) ==
  Folded(LAMBDA st, text :
             IF TrimEnd(text) = "" THEN [st EXCEPT !.blank = TRUE]
             ELSE IF is_comment_line(text) THEN st
             ELSE [lines |-> Append(st.lines, StreamLine(TrimEnd(text), st.blank, x)), blank |-> FALSE],
           [lines |-> <<>>, blank |-> FALSE], raw).lines

Fail(r, why) == IF r.err = "" THEN [r EXCEPT !.err = why] ELSE r
peek(r) ==
  IF r.err = "" /\ r.at <= Len(r.lines) /\ r.lines[r.at].err # "" THEN Fail(r, r.lines[r.at].err) ELSE r
\* The next line; an end of input or an error is a line of no depth.
Ahead(r) == IF peek(r).err = "" /\ r.at <= Len(r.lines) THEN r.lines[r.at]
            ELSE [depth |-> -1, content |-> "", blank |-> FALSE]
take(r) ==
  IF r.err # "" THEN r
  ELSE IF r.x.strict /\ r.span > 0 /\ Ahead(r).blank THEN Fail(r, "blank line inside a header span")
  ELSE [r EXCEPT !.at = @ + 1]
Span(r, by) == [r EXCEPT !.span = @ + by]

emit(r, event) == IF r.err = "" THEN [r EXCEPT !.out = Append(@, event)] ELSE r
StartObject == [e |-> "object"]
StartArray == [e |-> "array"]
End == [e |-> "end"]
KeyEvent(k) == [e |-> "key", key |-> k]
Primitive(r, text) ==
  LET v == parse_scalar(text)
  IN  IF v = <<>> THEN Fail(r, "invalid quoted string") ELSE emit(r, [e |-> "primitive", value |-> v[1]])
Primitives(r, texts) == Folded(Primitive, r, texts)
EmptyObject(r) == emit(emit(r, StartObject), End)
EmptyArray(r) == emit(emit(r, StartArray), End)

-----------------------------------------------------------------------------
(* Headers *)

None == [is |-> "none"]
Malformed == [is |-> "error"]

valid_stream_length(s) == s # "" /\ Chars(s) \subseteq Digits /\ (s = "0" \/ Ch(s, 1) # "0")
\* How deep a place is inside brackets.
Nesting(s, plain, i, open, close) ==
  Cardinality({j \in plain : j < i /\ Ch(s, j) = open})
  - Cardinality({j \in plain : j < i /\ Ch(s, j) = close})
match_stream_brace(s) ==
  LET plain == scan_unquoted_ascii(s).plain
  IN  FirstOf({i \in plain : Ch(s, i) = "}" /\ Nesting(s, plain, i, "{", "}") = 1})
stream_closing_quote(s) ==
  LET plain == scan_unquoted_ascii(s).plain
      quotes == {i \in At(s, "\"") : i > 1 /\ scan_unquoted_ascii(Upto(s, i)).quoted = FALSE}
  IN  FirstOf(quotes)

Node(name, children, list, fixed) ==
  [name |-> name, children |-> children, list_delimiter |-> list, fixed_len |-> fixed]
valid_list_delimiter(s, active) ==
  Len(s) = 1 /\ s \notin {active, " ", "\t", "\r", "\n", "\"", "[", "]", "{", "}", ":"}
parse_fixed_width_list(s, active) ==
  LET digits == Upto(s, consume_digits(s, 1) - 1)
      rest   == From(s, Len(digits) + 1)
  IN  IF ~valid_stream_length(digits) \/ rest \notin {"", "\t", "|"} THEN None
      ELSE IF (IF rest = "" THEN "," ELSE rest) # active THEN Malformed
      ELSE [is |-> "fixed", len |-> ToNat(digits)]

RECURSIVE parse_stream_field_list(_, _, _), parse_stream_field_entry(_, _, _)
\* The fields, none when one is malformed.
parse_stream_field_list(s, delimiter, active) ==
  LET plain   == scan_unquoted_ascii(s).plain
      cuts    == {i \in plain : /\ Ch(s, i) = delimiter
                                /\ Nesting(s, plain, i, "{", "}") = 0
                                /\ Nesting(s, plain, i, "[", "]") = 0}
      chunks  == Pieces(s, cuts)
      entries == [i \in DOMAIN chunks |-> parse_stream_field_entry(chunks[i], delimiter, active)]
  IN  IF \E i \in DOMAIN entries : entries[i] = <<>> THEN <<>>
      ELSE [i \in DOMAIN entries |-> entries[i][1]]
parse_stream_field_entry(s, delimiter, active) ==
  LET skip     == IF Ch(s, 1) = "\"" THEN stream_closing_quote(s) ELSE 0
      marker   == FirstOf({i \in At(s, "{") \union At(s, "[") : i > skip})
      name     == parse_key(IF marker = 0 THEN s ELSE Upto(s, marker - 1))
      bracket  == SubSeq(s, marker + 1, Len(s) - 1)
      fixed    == parse_fixed_width_list(bracket, active)
      children == parse_stream_field_list(bracket, delimiter, active)
  IN  IF s = "" \/ name = <<>> THEN <<>>
      ELSE IF marker = 0 THEN <<Node(name[1], <<>>, <<>>, <<>>)>>
      ELSE IF Ch(s, marker) = "["
        THEN IF ~EndsWith(s, "]") \/ fixed = Malformed THEN <<>>
             ELSE IF fixed # None THEN <<Node(name[1], <<>>, <<>>, <<fixed.len>>)>>
             ELSE IF valid_list_delimiter(bracket, active) THEN <<Node(name[1], <<>>, <<bracket>>, <<>>)>>
             ELSE <<>>
      ELSE IF match_stream_brace(From(s, marker)) + marker - 1 # Len(s) \/ children = <<>> THEN <<>>
      ELSE <<Node(name[1], <<children>>, <<>>, <<>>)>>

\* The text in brackets: a length, a colon when the array is keyed, and the
\* delimiter of its rows.
BracketSegment(s) ==
  LET colon == FirstOf(At(s, ":"))
      after == IF colon = 0 THEN (IF EndsWith(s, "\t") \/ EndsWith(s, "|") THEN From(s, Len(s)) ELSE "")
               ELSE From(s, colon + 1)
      digits == IF colon = 0 THEN Upto(s, Len(s) - Len(after)) ELSE Upto(s, colon - 1)
  IN  IF after \in {"", "\t", "|"} /\ valid_stream_length(digits)
        THEN [is |-> "segment", length |-> ToNat(digits), keyed |-> colon # 0,
              delimiter |-> IF after = "" THEN "," ELSE after]
        ELSE Malformed

HeaderWith(content, bracket, close, segment) ==
  LET rest   == From(content, close + 1)
      braces == Ch(rest, 1) = "{"
      end    == IF braces THEN match_stream_brace(rest) ELSE 0
      names  == SubSeq(rest, 2, end - 1)
      by     == IF segment.delimiter # "," /\ find_unquoted(names, ",") > 0
                   /\ At(names, "[") \union At(names, "{") # {} THEN "," ELSE segment.delimiter
      fields == IF braces /\ end > 0 THEN parse_stream_field_list(names, by, segment.delimiter) ELSE <<>>
      inline == trim_u0020(From(rest, end + 2))
      key    == IF bracket = 1 THEN <<>> ELSE parse_key(Upto(content, bracket - 1))
  IN  IF \/ braces # (fields # <<>>)
         \/ segment.keyed /\ ~braces
         \/ Ch(rest, end + 1) # ":"
         \/ braces /\ inline # ""
         \/ bracket > 1 /\ key = <<>>
        THEN Malformed
        ELSE [is |-> "header", key |-> key, length |-> segment.length, keyed |-> segment.keyed,
              delimiter |-> segment.delimiter, fields |-> fields, inline |-> inline]
parse_stream_header(content) ==
  LET bracket == find_unquoted(content, "[")
      colon   == find_unquoted(content, ":")
      close   == FirstOf({i \in At(content, "]") : i > bracket})
      segment == BracketSegment(SubSeq(content, bracket + 1, close - 1))
  IN  IF bracket = -1 THEN Malformed
      ELSE IF bracket = 0 THEN None
      ELSE IF colon = -1 THEN Malformed
      ELSE IF colon \in 1..bracket - 1 THEN None
      ELSE IF Ch(content, bracket - 1) \in Controls \union {" "} THEN Malformed
      ELSE IF close = 0 THEN None
      ELSE IF segment = Malformed THEN Malformed
      ELSE HeaderWith(content, bracket, close, segment)
\* A malformed header is read as something else where decoding is not strict;
\* a header past the limits is an error everywhere.
HeaderOf(content, x) ==
  LET h == parse_stream_header(content) IN IF h = Malformed /\ ~x.strict THEN None ELSE h
check_header_limits(r, h) ==
  IF h = Malformed THEN Fail(r, "malformed header")
  ELSE IF h = None THEN r
  ELSE IF r.x.max_array_length # 0 /\ h.length > r.x.max_array_length
    THEN Fail(r, "array length exceeds maxArrayLength")
  ELSE IF r.x.max_keys # 0 /\ Len(h.fields) > r.x.max_keys THEN Fail(r, "object exceeds maxKeys") ELSE r

RECURSIVE count_stream_leaves(_), DuplicateNames(_)
count_stream_leaves(fields) ==
  Folded(LAMBDA n, f : n + (IF f.children = <<>> THEN 1 ELSE count_stream_leaves(f.children[1])), 0, fields)
DuplicateNames(fields) ==
  \/ \E i, j \in DOMAIN fields : i # j /\ fields[i].name = fields[j].name
  \/ \E i \in DOMAIN fields : fields[i].children # <<>> /\ DuplicateNames(fields[i].children[1])
assert_no_duplicate_stream_fields(r, fields) ==
  IF r.x.strict /\ DuplicateNames(fields) THEN Fail(r, "duplicate field name in header") ELSE r

\* A count that is not the declared one ends a strict decode; truncation
\* reports read the last array span that came up short.
Counted_mostOnly(r, declared, actual) ==
  IF r.err = "" /\ r.x.strict /\ actual > declared THEN Fail(r, "array count mismatch") ELSE r
Counted(r, declared, actual) ==
  IF r.err = "" /\ r.x.strict /\ declared # actual
    THEN Fail([r EXCEPT !.spans = <<[declared |-> declared, actual |-> actual]>>], "array count mismatch")
    ELSE r
assert_stream_count(r, got, expected) ==
  IF r.x.strict /\ got # expected THEN Fail(r, "array count mismatch") ELSE r
OverIndented(r) == Fail(r, "over-indented line")

-----------------------------------------------------------------------------
(* Rows *)

\* A line at row depth is a row unless a colon comes before its first delimiter.
is_stream_row(content, delimiter) ==
  LET colon == find_unquoted(content, ":")
      at    == find_unquoted(content, delimiter)
  IN  colon = 0 \/ (colon > 0 /\ at \in 1..colon - 1)
Broken(content) == find_unquoted(content, ":") = -1

RECURSIVE emit_row_object(_, _, _)
\* r.cell is the next cell of the row.
emit_row_object(r, fields, cells) ==
  LET field(s, f) ==
        LET k == emit(s, KeyEvent(f.name))
        IN  IF f.children # <<>> THEN emit_row_object(k, f.children[1], cells)
            ELSE [Primitive(k, IF s.cell \in DOMAIN cells THEN cells[s.cell] ELSE "")
                    EXCEPT !.cell = s.cell + 1]
  IN  emit(Folded(field, emit(r, StartObject), fields), End)
Row(r, fields, cells) ==
  emit_row_object([assert_stream_count(r, Len(cells), count_stream_leaves(fields)) EXCEPT !.cell = 1],
                  fields, cells)

record_stream_key(r, key) ==
  IF key \in r.seen /\ r.x.strict THEN Fail(r, "duplicate object key")
  ELSE LET s == [r EXCEPT !.seen = @ \union {key}]
       IN  IF r.x.max_keys # 0 /\ Cardinality(s.seen) > r.x.max_keys
             THEN Fail(r, "object exceeds maxKeys") ELSE s
\* Any token is a key; only a quoted one must be well formed.
decode_stream_key(token) ==
  LET key == parse_key(token)
  IN  IF key # <<>> \/ Ch(token, 1) = "\"" THEN key ELSE <<token>>
Keyed(r, token) ==
  LET key == decode_stream_key(trim_u0020(token))
  IN  IF key = <<>> THEN Fail(r, "invalid quoted string")
      ELSE emit(record_stream_key(r, key[1]), KeyEvent(key[1]))

RECURSIVE TabularRows(_, _, _, _), KeyedRows(_, _, _, _)
TabularRows(r0, depth, h, rows) ==
  LET r    == peek(r0)
      line == Ahead(r)
      row  == Span(take(r), IF rows = 0 THEN 1 ELSE 0)
      done == Counted(Span(r, IF rows = 0 THEN 0 ELSE -1), h.length, rows)
  IN  IF r.err # "" THEN r
      ELSE IF line.depth <= depth THEN emit(done, End)
      ELSE IF line.depth # depth + 1 THEN OverIndented(r)
      ELSE IF Broken(line.content) THEN Fail(r, "unterminated string: missing closing quote")
      ELSE IF ~is_stream_row(line.content, h.delimiter) THEN emit(done, End)
      ELSE TabularRows(Row(row, h.fields, split_stream_cells(line.content, h.delimiter)),
                       depth, h, rows + 1)
emit_tabular_rows(r, depth, h) == TabularRows(r, depth, h, 0)

KeyedRows(r0, depth, h, rows) ==
  LET r     == peek(r0)
      line  == Ahead(r)
      colon == find_unquoted(line.content, ":")
      row   == Keyed(Span(take(r), IF rows = 0 THEN 1 ELSE 0), Upto(line.content, colon - 1))
      cells == split_stream_cells(From(line.content, colon + 1), h.delimiter)
  IN  IF r.err # "" THEN r
      ELSE IF line.depth <= depth
        THEN emit(Counted(Span(r, IF rows = 0 THEN 0 ELSE -1), h.length, rows), End)
      ELSE IF line.depth # depth + 1 THEN OverIndented(r)
      ELSE IF colon = -1 THEN Fail(r, "unterminated string: missing closing quote")
      ELSE IF colon = 0 THEN IF r.x.strict THEN Fail(r, "expected a keyed entry row")
                             ELSE KeyedRows(take(r), depth, h, rows)
      ELSE KeyedRows(Row(row, h.fields, cells), depth, h, rows + 1)
\* Objects nest: each has its own keys.
InObject(r, inner(_)) == [inner([r EXCEPT !.seen = {}]) EXCEPT !.seen = r.seen]
emit_keyed_object(r, depth, h) ==
  InObject(emit(assert_no_duplicate_stream_fields(r, h.fields), StartObject),
           LAMBDA s : KeyedRows(s, depth, h, 0))

-----------------------------------------------------------------------------
(* Rows with lists, matrices and child tables (stream_extensions.rs)       *)

has_complex_stream_fields(fields) ==
  \E i \in DOMAIN fields : fields[i].list_delimiter # <<>> \/ fields[i].fixed_len # <<>> \/ fields[i].children # <<>>
RECURSIVE has_fixed_stream_fields(_), stream_leaf_width(_)
has_fixed_stream_fields(fields) ==
  \E i \in DOMAIN fields :
    fields[i].fixed_len # <<>> \/ (fields[i].children # <<>> /\ has_fixed_stream_fields(fields[i].children[1]))
stream_field_width(f, width(_)) ==
  IF f.fixed_len # <<>> THEN f.fixed_len[1] ELSE IF f.children # <<>> THEN width(f.children[1]) ELSE 1
stream_leaf_width(fields) ==
  Folded(LAMBDA n, f : n + stream_field_width(f, stream_leaf_width), 0, fields)
stream_minimum_row_width(fields) ==
  Folded(LAMBDA n, f : n + stream_field_width(f, LAMBDA children : 1), 0, fields)
parse_stream_child_count(text) == IF valid_stream_length(text) THEN <<ToNat(text)>> ELSE <<>>

Refused == [ok |-> FALSE]
Accepted(next, consumed) == [ok |-> TRUE, next |-> next, consumed |-> consumed]
LineAt(lines, i) == IF i \in DOMAIN lines THEN lines[i]
                    ELSE [depth |-> -1, content |-> "", blank |-> FALSE, err |-> ""]

RECURSIVE infer_stream_child_table_fields(_, _, _, _, _, _, _),
          validate_stream_rows_with_kind(_, _, _, _, _, _, _, _)
\* Which fields with children are child tables: the choice under which the
\* rows consume most child rows, then the one with fewest tables.  None when
\* no choice fits the lines.
infer_stream_child_table_fields(len, fields, delimiter, lines, start, depth, x) ==
  LET candidates == {i \in DOMAIN fields : fields[i].children # <<>>}
      fits == [tables \in SUBSET candidates |->
                 validate_stream_rows_with_kind(len, fields, tables, delimiter, lines, start, depth, x)]
      Order(tables) == FoldSet(LAMBDA i, n : n + 2 ^ i, 0, tables)
      Better(s, t) == \/ fits[s].consumed > fits[t].consumed
                      \/ /\ fits[s].consumed = fits[t].consumed
                         /\ \/ Cardinality(s) < Cardinality(t)
                            \/ Cardinality(s) = Cardinality(t) /\ Order(s) <= Order(t)
      good == {s \in SUBSET candidates : fits[s].ok}
  IN  IF candidates = {} THEN <<{}>>
      ELSE IF Cardinality(candidates) > 12 \/ good = {} THEN <<>>
      ELSE <<CHOOSE s \in good : \A t \in good : Better(s, t)>>

validate_stream_row_with_kind(fields, tables, cells, delimiter, lines, start, depth, x) ==
  LET step(st, i) ==
        LET f      == fields[i]
            count  == IF st.cell \in DOMAIN cells THEN parse_stream_child_count(cells[st.cell]) ELSE <<>>
            kinds  == infer_stream_child_table_fields(count[1], f.children[1], delimiter, lines, st.next, depth, x)
            rows   == validate_stream_rows_with_kind(count[1], f.children[1], kinds[1], delimiter, lines,
                                                     st.next, depth, x)
            after  == IF i \in tables
                        THEN IF count = <<>> THEN Refused
                             ELSE IF kinds = <<>> THEN Refused
                             ELSE IF ~rows.ok THEN Refused
                             ELSE [ok |-> TRUE, cell |-> st.cell + 1, next |-> rows.next,
                                   consumed |-> st.consumed + count[1] + rows.consumed]
                        ELSE [st EXCEPT !.cell = @ + stream_field_width(f, stream_leaf_width)]
        IN  IF ~st.ok THEN st
            ELSE IF ~after.ok \/ after.cell > Len(cells) + 1 THEN Refused ELSE after
      end == Folded(step, [ok |-> TRUE, cell |-> 1, next |-> start, consumed |-> 0],
                      [i \in DOMAIN fields |-> i])
  IN  IF ~end.ok THEN Refused
      ELSE IF end.cell = Len(cells) + 1 THEN Accepted(end.next, end.consumed) ELSE Refused

validate_stream_rows_with_kind(len, fields, tables, delimiter, lines, start, depth, x) ==
  LET step(st, n) ==
        LET line == LineAt(lines, st.next)
            row  == validate_stream_row_with_kind(fields, tables, split_delimited(line.content, delimiter),
                                                  delimiter, lines, st.next + 1, depth + 1, x)
        IN  IF ~st.ok THEN st
            ELSE IF \/ line.depth # depth
                    \/ line.blank /\ x.strict
                    \/ ~is_stream_row(line.content, delimiter)
                    \/ ~Terminated(line.content)
              THEN Refused
            ELSE IF ~row.ok THEN Refused
            ELSE IF LineAt(lines, row.next).depth > depth THEN Refused
            ELSE Accepted(row.next, st.consumed + row.consumed)
      end == Folded(step, Accepted(start, 0), [n \in 1..len |-> n])
  IN  IF ~end.ok THEN Refused ELSE IF LineAt(lines, end.next).depth >= depth THEN Refused ELSE end

LengthMismatch(r) == Fail(r, "array length mismatch")
RowMismatch(r) == Fail(r, "array row length mismatch")

RECURSIVE emit_stream_structured_rows(_, _, _, _, _, _, _),
          emit_stream_structured_field(_, _, _, _, _, _, _, _)
\* A row's state is kept in r: its next cell, the line after it and its child
\* tables, none when they could not be inferred.
emit_stream_structured_row(r, fields, cells, lines, depth, delimiter, root) ==
  LET field(s, i) ==
        emit_stream_structured_field(emit(s, KeyEvent(fields[i].name)), fields[i],
          SubSeq(fields, i + 1, Len(fields)),
          IF s.kinds = <<>> THEN <<>> ELSE <<i \in s.kinds[1]>>, cells, lines, depth, delimiter)
  IN  IF root /\ Len(fields) = 1 /\ fields[1].fixed_len # <<>>
        THEN emit_stream_structured_field(r, fields[1], <<>>, <<FALSE>>, cells, lines, depth, delimiter)
        ELSE emit(Folded(field, emit(r, StartObject), [i \in DOMAIN fields |-> i]), End)

emit_stream_structured_rows(r, len, fields, delimiter, lines, depth, root) ==
  LET kinds == IF r.x.object_array_columns
                 THEN infer_stream_child_table_fields(len, fields, delimiter, lines, r.next, depth, r.x)
                 ELSE <<{}>>
      step(s, n) ==
        LET line  == LineAt(lines, s.next)
            cells == split_delimited(line.content, delimiter)
            row   == emit_stream_structured_row(
                       [s EXCEPT !.cell = 1, !.next = @ + 1, !.kinds = kinds, !.width = stream_leaf_width(fields)],
                       fields, cells, lines, depth + 1, delimiter, root)
        IN  IF s.err # "" \/ s.stop \/ line.depth # depth THEN [s EXCEPT !.stop = TRUE]
            ELSE IF Broken(line.content) \/ ~Terminated(line.content)
              THEN Fail(s, "unterminated string: missing closing quote")
            ELSE IF ~is_stream_row(line.content, delimiter) THEN [s EXCEPT !.stop = TRUE]
            ELSE IF line.blank /\ s.x.strict THEN Fail(s, "blank line inside a header span")
            ELSE IF row.err = "" /\ row.cell # Len(cells) + 1 THEN RowMismatch(row)
            ELSE [row EXCEPT !.rows = s.rows + 1]
      end == Folded(step, [r EXCEPT !.rows = 0, !.stop = FALSE], [n \in 1..len |-> n])
  IN  IF end.err = "" /\ r.x.strict /\ (end.rows # len \/ LineAt(lines, end.next).depth >= depth)
        THEN LengthMismatch(end) ELSE [end EXCEPT !.stop = FALSE]

emit_stream_structured_field(r, f, remaining, known, cells, lines, depth, delimiter) ==
  LET count   == IF r.cell \in DOMAIN cells THEN parse_stream_child_count(cells[r.cell]) ELSE <<>>
      inner   == f.children[1]
      guessed == /\ count # <<>>
                 /\ r.x.object_array_columns
                 /\ \/ LineAt(lines, r.next).depth = depth
                    \/ /\ Len(cells) # r.width
                       /\ Len(cells) - r.cell < stream_leaf_width(inner) + stream_minimum_row_width(remaining)
      table   == IF known = <<>> THEN guessed ELSE known[1]
      rows    == emit_stream_structured_rows([emit(r, StartArray) EXCEPT !.cell = @ + 1], count[1], inner,
                                             delimiter, lines, depth, FALSE)
      group   == Folded(LAMBDA s, c :
                   emit_stream_structured_field(emit(s, KeyEvent(c.name)), c, <<>>, <<>>, cells, lines, depth, delimiter),
                   [emit(r, StartObject) EXCEPT !.kinds = <<>>], inner)
      width   == IF f.fixed_len # <<>> THEN f.fixed_len[1] ELSE 1
      texts   == IF f.list_delimiter # <<>> THEN split_delimited(cells[r.cell], f.list_delimiter[1])
                 ELSE SubSeq(cells, r.cell, r.cell + width - 1)
  IN  IF r.err # "" THEN r
      ELSE IF f.children # <<>>
        THEN IF ~table THEN [emit(group, End) EXCEPT !.kinds = r.kinds]
             ELSE IF count = <<>> THEN RowMismatch(r)
             ELSE [emit(rows, End) EXCEPT !.cell = r.cell + 1, !.kinds = r.kinds, !.width = r.width,
                                          !.rows = r.rows]
      ELSE IF r.cell + width > Len(cells) + 1 THEN RowMismatch(r)
      ELSE IF f.list_delimiter # <<>> /\ ~Terminated(cells[r.cell])
        THEN Fail(r, "unterminated string: missing closing quote")
      ELSE LET s == [r EXCEPT !.cell = @ + width]
           IN  IF f.fixed_len = <<>> /\ f.list_delimiter = <<>> THEN Primitives(s, texts)
               ELSE emit(Primitives(emit(s, StartArray), texts), End)

RECURSIVE SpanLines(_, _)
\* The lines under a header, taken one by one.
SpanLines(r0, depth) ==
  LET r == peek(r0)
  IN  IF r.err # "" \/ Ahead(r).depth <= depth THEN r ELSE SpanLines(take(r), depth)
emit_complex_tabular_rows(r, depth, h) ==
  LET end   == Span(SpanLines(Span(r, 1), depth), -1)
      lines == SubSeq(r.lines, r.at, end.at - 1)
      rows  == emit_stream_structured_rows([end EXCEPT !.next = 1], h.length, h.fields, h.delimiter,
                                           lines, depth + 1, TRUE)
  IN  IF ~r.x.object_array_columns /\ has_fixed_stream_fields(h.fields) THEN Fail(r, "invalid array header")
      ELSE IF end.err # "" THEN end
      ELSE IF rows.err = "" /\ r.x.strict /\ rows.next # Len(lines) + 1 THEN LengthMismatch(rows)
      ELSE emit(rows, End)

-----------------------------------------------------------------------------
(* Objects, arrays and list items *)

IsItem(content) == content = "-" \/ Upto(content, 2) = "- "

RECURSIVE emit_object(_, _), ReadEntries(_, _), emit_entry(_, _, _), emit_array(_, _, _), Items(_, _, _, _),
          emit_list_item(_, _), ItemFields(_, _)
\* Fields at a depth; emit_object_from_first is the same at depth 0, after
\* the first of them.
ReadEntries(r0, depth) ==
  LET r == peek(r0)
      line == Ahead(r)
  IN  IF r.err # "" THEN r
      ELSE IF line.depth < depth THEN emit(r, End)
      ELSE IF line.depth > depth THEN OverIndented(r)
      ELSE ReadEntries(emit_entry(take(r), line.content, depth), depth)
emit_object(r, depth) == InObject(emit(r, StartObject), LAMBDA s : ReadEntries(s, depth))

KeyValue(r, content, depth) ==
  LET colon == find_unquoted(content, ":")
      k     == Keyed(r, Upto(content, colon - 1))
      rest  == trim_u0020(From(content, colon + 1))
      child == Ahead(k)
  IN  IF colon = -1 THEN Fail(r, "unterminated string: missing closing quote")
      ELSE IF colon = 0 THEN Fail(r, "missing colon after key")
      ELSE IF rest = "[]" THEN EmptyArray(k)
      ELSE IF rest # "" THEN Primitive(k, rest)
      ELSE IF peek(k).err # "" THEN peek(k)
      ELSE IF child.depth > depth + 1 THEN OverIndented(k)
      ELSE IF child.depth = depth + 1 THEN emit_object(k, depth + 1)
      ELSE EmptyObject(k)
emit_entry(r, content, depth) ==
  LET h == HeaderOf(content, r.x)
      s == check_header_limits(r, h)
  IN  IF s.err # "" THEN s
      ELSE IF h = None THEN KeyValue(s, content, depth)
      ELSE IF h.key = <<>>
        THEN IF s.x.strict THEN Fail(s, "keyless header is only valid at the root or as a list item")
             ELSE KeyValue(s, content, depth)
      ELSE LET k == emit(record_stream_key(s, h.key[1]), KeyEvent(h.key[1]))
           IN  IF h.keyed THEN emit_keyed_object(k, depth, h) ELSE emit_array(k, depth, h)

emit_array(r, depth, h) ==
  LET a     == emit(r, StartArray)
      named == assert_no_duplicate_stream_fields(a, h.fields)
      cells == split_stream_cells(h.inline, h.delimiter)
  IN  IF h.fields # <<>>
        THEN IF has_complex_stream_fields(h.fields) THEN emit_complex_tabular_rows(named, depth, h)
             ELSE emit_tabular_rows(named, depth, h)
      ELSE IF h.inline # "" THEN emit(Primitives(Counted(a, h.length, Len(cells)), cells), End)
      ELSE Items(a, depth, h, 0)
Items(r0, depth, h, items) ==
  LET r    == peek(r0)
      line == Ahead(r)
      done == emit(Counted(Span(r, IF items = 0 THEN 0 ELSE -1), h.length, items), End)
  IN  IF r.err # "" THEN r
      ELSE IF line.depth <= depth THEN done
      ELSE IF line.depth # depth + 1 THEN OverIndented(r)
      ELSE IF ~IsItem(line.content) THEN done
      ELSE Items(emit_list_item(Span(take(r), IF items = 0 THEN 1 ELSE 0), line), depth, h, items + 1)

\* The fields after the first of an object that starts on a hyphen line.
ItemFields(r0, depth) ==
  LET r    == peek(r0)
      line == Ahead(r)
  IN  IF r.err # "" THEN r
      ELSE IF line.depth # depth + 1 \/ IsItem(line.content) THEN emit(r, End)
      ELSE ItemFields(emit_entry(take(r), line.content, depth + 1), depth)
emit_list_item(r, line) ==
  LET text == trim_u0020(From(line.content, 3))
      h    == HeaderOf(text, r.x)
      s    == check_header_limits(r, h)
      object == IF h = None THEN find_unquoted(text, ":") > 0 ELSE h.key # <<>>
  IN  IF line.content = "-" THEN EmptyObject(r)
      ELSE IF text = "[]" THEN EmptyArray(r)
      ELSE IF s.err # "" THEN s
      ELSE IF object
        THEN InObject(emit(s, StartObject), LAMBDA o : ItemFields(emit_entry(o, text, line.depth + 1), line.depth))
      ELSE IF h = None
        THEN IF find_unquoted(text, ":") = -1 THEN Fail(s, "unterminated string: missing closing quote")
             ELSE Primitive(s, text)
      ELSE IF ~h.keyed /\ h.fields = <<>> THEN emit_array(s, line.depth, h)
      ELSE IF s.x.strict THEN Fail(s, "keyless fields-bearing header is only valid at the root")
      ELSE Primitive(s, text)

-----------------------------------------------------------------------------
(* Documents *)

Start(raw, x) ==
  [x |-> x, lines |-> fill(raw, x), at |-> 1, span |-> 0, out |-> <<>>, err |-> "", spans |-> <<>>,
   seen |-> {}, cell |-> 1, next |-> 1, kinds |-> <<>>, width |-> 0, rows |-> 0, stop |-> FALSE]
expect_stream_end(r) ==
  LET p == peek(r)
  IN  IF p.err = "" /\ p.at <= Len(p.lines) /\ p.x.strict THEN Fail(p, "expected end of document") ELSE p
decode_events_into(raw, x) ==
  LET r     == peek(Start(raw, x))
      first == Ahead(r)
      text  == first.content
      h     == HeaderOf(text, x)
      s     == check_header_limits(r, h)
      body  == take(s)
  IN  IF x.indent = 0 THEN Fail(r, "invalid indentation")
      ELSE IF r.err # "" THEN r
      ELSE IF first.depth = -1 THEN EmptyObject(r)
      ELSE IF first.depth # 0 THEN Fail(r, "invalid indentation")
      ELSE IF text = "[]" THEN expect_stream_end(EmptyArray(take(r)))
      ELSE IF s.err # "" THEN s
      ELSE IF h # None /\ h.key = <<>>
        THEN expect_stream_end(IF h.keyed THEN emit_keyed_object(body, 0, h) ELSE emit_array(body, 0, h))
      ELSE IF h = None /\ find_unquoted(text, ":") = -1 THEN Fail(s, "unterminated string: missing closing quote")
      ELSE IF h = None /\ find_unquoted(text, ":") = 0
        THEN IF peek(body).err # "" THEN peek(body)
             ELSE IF body.at > Len(body.lines) THEN Primitive(body, trim_u0020(text))
             ELSE emit_entry(emit(body, StartObject), text, 0)
      ELSE IF peek(body).err # "" THEN peek(body)
      ELSE expect_stream_end(ReadEntries(emit_entry(emit(body, StartObject), text, 0), 0))

\* EventValueBuilder: open containers with the key that waits for a value.
attach(b, v, dedupe) ==
  LET top == Last(b.stack)
      old == {i \in DOMAIN top.fields : dedupe /\ top.fields[i].k = top.key[1]}
      new == IF top.e = "array" THEN [top EXCEPT !.items = Append(@, v)]
             ELSE IF top.key = <<>> THEN top
             ELSE IF old # {} THEN [top EXCEPT !.fields[Min(old)].v = v, !.key = <<>>]
             ELSE [top EXCEPT !.fields = Append(@, Field(top.key[1], v)), !.key = <<>>]
  IN  IF b.stack = <<>> THEN [b EXCEPT !.root = <<v>>] ELSE [b EXCEPT !.stack = Append(Front(@), new)]
push(b, event, dedupe) ==
  CASE event.e \in {"object", "array"} ->
         [b EXCEPT !.stack = Append(@, [e |-> event.e, items |-> <<>>, fields |-> <<>>, key |-> <<>>])]
    [] event.e = "end" ->
         LET top == Last(b.stack)
         IN  attach([b EXCEPT !.stack = Front(@)],
                    IF top.e = "object" THEN Obj(top.fields) ELSE Arr(top.items), dedupe)
    [] event.e = "key" -> [b EXCEPT !.stack[Len(b.stack)].key = <<event.key>>]
    [] event.e = "primitive" -> attach(b, event.value, dedupe)
build_value_from_events(events, dedupe) ==
  LET b == Folded(LAMBDA s, e : push(s, e, dedupe), [stack |-> <<>>, root |-> <<>>], events)
  IN  IF b.root = <<>> THEN Obj(<<>>) ELSE b.root[1]

\* The report on a document that may have been cut off.
detect_truncation(raw, x) ==
  LET r == decode_events_into(raw, x)
  IN  IF r.err = "" THEN "complete" ELSE IF r.spans # <<>> THEN "array_length_mismatch" ELSE "invalid"
=============================================================================
