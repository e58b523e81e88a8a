----------------------------- MODULE ToonEncode -----------------------------
(***************************************************************************)
(* The TOON encoder (encode.rs) and its shape detection                    *)
(* (tabular_encoder.rs): a value becomes the lines of a document.          *)
(***************************************************************************)
EXTENDS ToonText

\* A panic, wherever in the output it happens, is the output's only meaning.
Panic == "panicked"

RECURSIVE validate_encode_depth_recursive(_, _, _)
validate_encode_depth_recursive(v, depth, max_depth) ==
  /\ max_depth = 0 \/ depth <= max_depth
  /\ v.t = "object" =>
       \A i \in DOMAIN v.fields :
         validate_encode_depth_recursive(v.fields[i].v,
           IF v.fields[i].v.t = "object" THEN depth + 1 ELSE depth, max_depth)
  /\ v.t = "array" =>
       \A i \in DOMAIN v.items :
         is_primitive(v.items[i]) \/ validate_encode_depth_recursive(v.items[i], depth + 1, max_depth)

-----------------------------------------------------------------------------
(* Shapes: the columns that rows have in common *)

Column(key, kind, arg, children) == [key |-> key, kind |-> kind, arg |-> arg, children |-> children]
Shape(fields) == [is |-> "shape", fields |-> fields]
NoShape == [is |-> "none"]
\* check_encode_depth failed, which the callers expect never to happen.
TooDeep == [is |-> "deep"]

AllPrimitive(values) == \A i \in DOMAIN values : is_primitive(values[i])
AllArrays(values) == \A i \in DOMAIN values : values[i].t = "array"
matrix_column_shape(values) ==
  LET n == Len(values[1].items)
  IN  IF /\ values # <<>> /\ AllArrays(values)
         /\ \A i \in DOMAIN values : Len(values[i].items) = n /\ AllPrimitive(values[i].items)
        THEN n ELSE 0

RECURSIVE object_shape(_, _, _)
object_shape(values, depth, x) ==
  LET first == values[1].fields
      alike == /\ values # <<>>
               /\ \A i \in DOMAIN values : values[i].t = "object"
               /\ first # <<>>
               /\ \A i \in DOMAIN values : /\ Len(values[i].fields) = Len(first)
                                           /\ \A j \in DOMAIN first : Has(values[i].fields, first[j].k)
      column(key) ==
        LET cells == [i \in DOMAIN values |-> Get(values[i].fields, key)]
            items == Flat([i \in DOMAIN cells |-> cells[i].items])
            lists == AllArrays(cells)
            table == object_shape(items, depth + 1, x)
            group == object_shape(cells, depth + 1, x)
        IN  IF AllPrimitive(cells) THEN Column(key, "cell", 0, <<>>)
            ELSE IF x.primitive_array_columns /\ lists /\ AllPrimitive(items)
              THEN Column(key, "list", 0, <<>>)
            ELSE IF x.object_array_columns /\ lists /\ matrix_column_shape(cells) > 0
              THEN Column(key, "fixed", matrix_column_shape(cells), <<>>)
            ELSE IF x.object_array_columns /\ lists /\ table.is # "none"
              THEN IF table.is = "deep" THEN TooDeep ELSE Column(key, "table", 0, table.fields)
            ELSE IF group.is # "shape" THEN group ELSE Column(key, "group", 0, group.fields)
      columns == [j \in DOMAIN first |-> column(first[j].k)]
      failed == {j \in DOMAIN columns : "is" \in DOMAIN columns[j]}
  IN  IF x.max_depth # 0 /\ depth > x.max_depth THEN TooDeep
      ELSE IF ~alike THEN NoShape
      ELSE IF failed # {} THEN columns[Min(failed)] ELSE Shape(columns)

\* Rows that are lists themselves make one column that stands for the row.
tabular_shape(values, depth, x) ==
  LET width == matrix_column_shape(values)
  IN  IF x.object_array_columns /\ width > 0 THEN Shape(<<Column("values", "row", width, <<>>)>>)
      ELSE object_shape(values, depth, x)
Values(fields) == [i \in DOMAIN fields |-> fields[i].v]
canonical_keyed_shape(fields, depth, x) ==
  IF Len(fields) < 2 THEN NoShape ELSE tabular_shape(Values(fields), depth, x)

-----------------------------------------------------------------------------
(* Headers and rows *)

indentation(depth, x) == Folded(LAMBDA out, i : out \o " ", "", [i \in 1..depth * x.indent |-> i])
delimiter_prefix_text(delimiter) == IF delimiter = "," THEN "" ELSE delimiter
RECURSIVE format_fields(_, _)
format_fields(columns, delimiter) ==
  Joined([i \in DOMAIN columns |->
            LET c == columns[i]
            IN  canonical_key(c.key)
                \o CASE c.kind = "list" -> "[;]"
                     [] c.kind \in {"fixed", "row"} ->
                          "[" \o ToString(c.arg) \o delimiter_prefix_text(delimiter) \o "]"
                     [] c.kind \in {"table", "group"} -> "{" \o format_fields(c.children, delimiter) \o "}"
                     [] OTHER -> ""],
         delimiter)
header(key, length, columns, delimiter, keyed) ==
  (IF key = <<>> THEN "" ELSE canonical_key(key[1]))
  \o "[" \o ToString(length) \o (IF keyed THEN ":" ELSE "") \o delimiter_prefix_text(delimiter) \o "]"
  \o (IF columns = <<>> THEN "" ELSE "{" \o format_fields(columns, delimiter) \o "}") \o ":"

canonical_list_item_text(v, active, list) ==
  IF v.t = "string" /\ list \in Chars(v.s) THEN quote_string(v.s) ELSE canonical_primitive_text(v, active)
CellTexts(values, delimiter) == [i \in DOMAIN values |-> canonical_primitive_text(values[i], delimiter)]
encode_cells(values, delimiter) == Joined(CellTexts(values, delimiter), delimiter)

RECURSIVE encode_tabular_row(_, _, _, _)
\* The cells of a row and the lines of its child tables.
encode_tabular_row(row, columns, depth, x) ==
  LET part(c) ==
        LET v == IF c.kind = "row" THEN row ELSE Get(row.fields, c.key)
            rows == [i \in DOMAIN v.items |-> encode_tabular_row(v.items[i], c.children, depth + 1, x)]
        IN  CASE c.kind = "cell" -> [cells |-> CellTexts(<<v>>, x.delimiter), lines |-> <<>>]
              [] c.kind = "list" ->
                   [cells |-> <<Joined([i \in DOMAIN v.items |-> canonical_list_item_text(v.items[i], x.delimiter, ";")], ";")>>,
                    lines |-> <<>>]
              [] c.kind \in {"fixed", "row"} -> [cells |-> CellTexts(v.items, x.delimiter), lines |-> <<>>]
              [] c.kind = "group" -> encode_tabular_row(v, c.children, depth, x)
              [] c.kind = "table" ->
                   [cells |-> <<ToString(Len(v.items))>>,
                    lines |-> Flat([i \in DOMAIN rows |->
                      <<indentation(depth, x) \o Joined(rows[i].cells, x.delimiter)>> \o rows[i].lines])]
      parts == [i \in DOMAIN columns |-> part(columns[i])]
  IN  [cells |-> Flat([i \in DOMAIN parts |-> parts[i].cells]),
       lines |-> Flat([i \in DOMAIN parts |-> parts[i].lines])]

\* A header and its rows, which are keyed when they have labels.
Table(lead, key, labels, values, columns, depth, x) ==
  <<lead \o header(key, Len(values), columns, x.delimiter, labels # <<>>)>>
  \o Flat([i \in DOMAIN values |->
       LET row == encode_tabular_row(values[i], columns, depth + 1, x)
       IN  <<indentation(depth, x) \o (IF labels = <<>> THEN "" ELSE canonical_key(labels[i]) \o ": ")
             \o Joined(row.cells, x.delimiter)>> \o row.lines])

-----------------------------------------------------------------------------
(* Values *)

RECURSIVE encode_list_item(_, _, _), encode_object(_, _, _)
\* An array whose header follows `lead`, with its body at a depth.
EncodeArray(lead, key, values, shape, depth, x) ==
  IF values # <<>> /\ AllPrimitive(values)
    THEN <<lead \o header(key, Len(values), <<>>, x.delimiter, FALSE) \o " " \o encode_cells(values, x.delimiter)>>
  ELSE IF shape.is = "deep" THEN <<Panic>>
  ELSE IF shape.is = "shape" THEN Table(lead, key, <<>>, values, shape.fields, depth, x)
  ELSE <<lead \o header(key, Len(values), <<>>, x.delimiter, FALSE)>>
       \o Flat([i \in DOMAIN values |-> encode_list_item(values[i], depth, x)])
EmptyField(lead, key) == <<lead \o (IF key = <<>> THEN "[]" ELSE canonical_key(key[1]) \o ": []")>>
encode_array(lead, key, values, depth, x) ==
  IF values = <<>> THEN EmptyField(lead, key)
  ELSE EncodeArray(lead, key, values, tabular_shape(values, depth + 1, x), depth + 1, x)

\* A field with nested fields at a depth; `depth` is where shapes are looked for.
EncodeObject(lead, f, depth, body, x) ==
  LET shape == canonical_keyed_shape(f.v.fields, depth, x)
  IN  IF shape.is = "deep" THEN <<Panic>>
      ELSE IF shape.is = "shape"
        THEN Table(lead, <<f.k>>, [i \in DOMAIN f.v.fields |-> f.v.fields[i].k], Values(f.v.fields),
                   shape.fields, body, x)
      ELSE <<lead \o canonical_key(f.k) \o ":">> \o encode_object(f.v.fields, body, x)
encode_field(f, depth, x) ==
  LET lead == indentation(depth, x)
  IN  IF is_primitive(f.v)
        THEN <<lead \o canonical_key(f.k) \o ": " \o canonical_primitive_text(f.v, x.delimiter)>>
      ELSE IF f.v.t = "array" THEN encode_array(lead, <<f.k>>, f.v.items, depth, x)
      ELSE EncodeObject(lead, f, depth + 1, depth + 1, x)
encode_object(fields, depth, x) ==
  Flat([i \in DOMAIN fields |-> encode_field(fields[i], depth, x)])

\* The first field of a list item is on the hyphen's line, with its body two
\* levels deeper.
encode_first_container(f, depth, x) ==
  LET lead  == indentation(depth, x) \o "- "
      shape == tabular_shape(f.v.items, depth + 1, x)
  IN  IF f.v.t = "object" THEN EncodeObject(lead, f, depth + 1, depth + 2, x)
      ELSE IF f.v.items = <<>> THEN IF shape.is = "deep" THEN <<Panic>> ELSE EmptyField(lead, <<f.k>>)
      ELSE EncodeArray(lead, <<f.k>>, f.v.items, shape, depth + 2, x)
encode_object_list_item(fields, depth, x) ==
  IF fields = <<>> THEN <<indentation(depth, x) \o "-">>
  ELSE (IF is_primitive(fields[1].v)
          THEN <<indentation(depth, x) \o "- " \o canonical_key(fields[1].k) \o ": "
                 \o canonical_primitive_text(fields[1].v, x.delimiter)>>
          ELSE encode_first_container(fields[1], depth, x))
       \o encode_object(Tail(fields), depth + 1, x)
encode_list_item(v, depth, x) ==
  LET lead == indentation(depth, x) \o "- "
  IN  CASE is_primitive(v) -> <<lead \o canonical_primitive_text(v, x.delimiter)>>
        [] v.t = "array" -> EncodeArray(lead, <<>>, v.items, NoShape, depth + 1, x)
        [] v.t = "object" -> encode_object_list_item(v.fields, depth, x)

encode_value(v, x) ==
  CASE is_primitive(v) -> <<canonical_primitive_text(v, x.delimiter)>>
    [] v.t = "array" -> encode_array("", <<>>, v.items, 0, x)
    [] v.t = "object" ->
         LET shape == canonical_keyed_shape(v.fields, 1, x)
         IN  IF shape.is = "deep" THEN <<Panic>>
             ELSE IF shape.is = "shape"
               THEN Table("", <<>>, [i \in DOMAIN v.fields |-> v.fields[i].k], Values(v.fields), shape.fields, 1, x)
             ELSE encode_object(v.fields, 0, x)

Panicked(lines) == \E i \in DOMAIN lines : lines[i] = Panic
=============================================================================
