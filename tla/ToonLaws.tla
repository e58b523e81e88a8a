------------------------------ MODULE ToonLaws ------------------------------
(***************************************************************************)
(* What holds of every document: values grow one container or one round of *)
(* events at a time, are encoded under several options, and their texts    *)
(* are read back whole, cut short, commented, and under limits.            *)
(***************************************************************************)
EXTENDS ToonDecode, ToonCyclic

CONSTANT MaxGrowth    \* containers around a plain leaf, rounds of events

VARIABLES doc,        \* the value
          grown       \* how often it grew

-----------------------------------------------------------------------------
(* The codec's entry points *)

\* EncodeOptions and DecodeStreamOptions; a limit of 0 is no limit.
Plain == [delimiter |-> ",", indent |-> 2, primitive_array_columns |-> FALSE, object_array_columns |-> FALSE,
          cyclic |-> FALSE, strict |-> TRUE, max_depth |-> 0, max_array_length |-> 0, max_keys |-> 0]
encode_inner(v, x) ==
  LET cyclic == write_cyclic_discriminated_arrays(v)
  IN  IF ~validate_encode_depth_recursive(v, 0, x.max_depth) THEN <<>>
      ELSE <<IF x.cyclic /\ cyclic # <<>> THEN cyclic ELSE encode_value(v, x)>>
decode_with_options(lines, x) ==
  LET r == decode_events_into(lines, x)
      v == build_value_from_events(r.out, ~x.strict)
  IN  IF r.err # "" THEN <<>> ELSE IF x.cyclic THEN expand_cyclic_discriminated_arrays(v) ELSE <<v>>

-----------------------------------------------------------------------------
(* Documents *)

One == Number("1")
Leaves == {One, Null, Bool(TRUE), Number("-0"), Number("1.50e2"), String(""), String("a,b|c;d"), String("- #x"),
           String("05"), String("k: 1"), String("a\nb\"\\"), String(" x"), Arr(<<>>), Obj(<<>>)}
Containers(v) ==
  {Arr(<<v>>), Arr(<<v, v>>), Arr(<<v, Arr(<<>>)>>), Obj(<<Field("k", v)>>), Obj(<<Field("a b", v), Field("c", v)>>),
   Obj(<<Field("a", v), Field("b", Arr(<<>>))>>), Obj(<<Field("a", v), Field("b", One)>>)}

Event(label, fields) == Obj(<<Field("type", String(label))>> \o fields)
Rounds ==
  {<<Event("purchase", <<Field("n", One), Field("a", String("x|y"))>>),
     Event("log,in", <<Field("n", Null), Field("b", Obj(<<Field("x", One), Field("y", Arr(<<One, Null>>))>>))>>)>>,
   <<Obj(<<Field("id", One), Field("type", String("purchase")), Field("a", Arr(<<>>))>>),
     Event("logging in", <<Field("b", Arr(<<Obj(<<Field("x", One)>>)>>)), Field("id", Null)>>)>>,
   <<Event("purchase", <<Field("length", String("1"))>>), Event("receipt", <<Field("a b", One)>>)>>,
   <<Event("purchase", <<Field("a", Obj(<<>>)), Field("c", One)>>), Event("receipt", <<Field("b", One)>>)>>,
   <<Event("purchase", <<Field("length", Number("1"))>>), Event("receipt", <<Field("a.b", Obj(<<>>))>>)>>,
   <<Event("discriminator", <<Field("a", One)>>), Event("receipt", <<Field("b", One)>>)>>}
Events(rows) == Obj(<<Field("log", Arr(rows))>>)
Log == doc.fields[1].v.items
IsLog == doc.t = "object" /\ doc.fields # <<>> /\ doc.fields[1].k = "log"

docVars == <<doc, grown>>
Init == \/ doc = Obj(<<Field("k", One)>>) /\ grown = 0
        \/ doc = One /\ grown = 1
        \/ doc \in Leaves /\ grown = MaxGrowth - 1
        \/ doc \in {Events(r) : r \in Rounds} /\ grown = 0
Wrap == /\ ~IsLog
        /\ grown < MaxGrowth
        /\ doc' \in Containers(doc)
        /\ grown' = grown + 1
\* Every round is like the first two events, a last one may differ.
NextRound == /\ IsLog
             /\ grown <= MaxGrowth
             /\ \/ doc' = Events(Log \o SubSeq(Log, 1, 2)) /\ grown' = grown + 1
                \/ \E r \in Rounds : doc' = Events(Log \o r) /\ grown' = MaxGrowth + 1
Next == Wrap \/ NextRound

-----------------------------------------------------------------------------
(* Texts are read back *)

RECURSIVE Canonical(_), Same(_, _), CutShort(_, _)
Canonical(v) ==
  CASE v.t = "number" -> Number(canonical_number(v.n))
    [] v.t = "array" -> Arr([i \in DOMAIN v.items |-> Canonical(v.items[i])])
    [] v.t = "object" -> Obj([i \in DOMAIN v.fields |-> Field(v.fields[i].k, Canonical(v.fields[i].v))])
    [] OTHER -> v
\* Equal but for the order of fields.
Same(v, w) ==
  /\ v.t = w.t
  /\ v.t = "array" => Len(v.items) = Len(w.items) /\ \A i \in DOMAIN v.items : Same(v.items[i], w.items[i])
  /\ v.t = "object" =>
       /\ Range(Keys(v.fields)) = Range(Keys(w.fields))
       /\ \A i \in DOMAIN v.fields : Same(v.fields[i].v, Get(w.fields, v.fields[i].k))
  /\ is_primitive(v) => v = w
\* w is v without fields at its end: no element of an array is missing.
CutShort(w, v) ==
  \/ w = v
  \/ /\ w.t = "object" /\ v.t = "object"
     /\ LET n == Len(w.fields)
        IN  /\ n <= Len(v.fields)
            /\ \A i \in 1..n - 1 : w.fields[i] = v.fields[i]
            /\ n > 0 => w.fields[n].k = v.fields[n].k /\ CutShort(w.fields[n].v, v.fields[n].v)
  \/ /\ w.t = "array" /\ v.t = "array"
     /\ LET n == Len(w.items)
        IN  /\ n = Len(v.items)
            /\ \A i \in 1..n - 1 : w.items[i] = v.items[i]
            /\ n > 0 => CutShort(w.items[n], v.items[n])

RECURSIVE Holds(_, _), ChildTablesTold(_, _), ExtensionsTold(_, _)
Holds(columns, kinds) ==
  \E i \in DOMAIN columns : columns[i].kind \in kinds \/ Holds(columns[i].children, kinds)
Below(row, column) == Get(row.fields, column.key).items
ChildTablesTold(columns, rows) ==
  LET tables == {i \in DOMAIN columns : columns[i].kind = "table"}
  IN  /\ \A i \in DOMAIN columns \ tables : ~Holds(columns[i].children, {"table"})
      /\ \A i \in tables, row \in Range(rows) :
           LET below == Below(row, columns[i])
               nested == {c \in Range(columns[i].children) : c.kind = "table"}
           IN  below # <<>> => /\ i = Min(tables)
                               /\ ChildTablesTold(columns[i].children, below)
                               /\ \A c \in nested : \E r \in Range(below) : Below(r, c) # <<>>
\* The extension columns that decoding reads as they were meant.  Left out,
\* for the two sides disagree on them: extension columns under a keyed
\* header, a lone fixed-width column, which reads as a matrix, a child table
\* beside another one or inside a group, and a nested one without rows.
ExtensionsTold(v, x) ==
  /\ v.t = "array" /\ v.items # <<>> =>
       LET shape == tabular_shape(v.items, 0, x)
       IN  shape.is = "shape" => /\ Len(shape.fields) = 1 => shape.fields[1].kind # "fixed"
                                 /\ ChildTablesTold(shape.fields, v.items)
  /\ v.t = "object" =>
       LET shape == canonical_keyed_shape(v.fields, 0, x)
       IN  shape.is = "shape" => ~Holds(shape.fields, {"list", "fixed", "row", "table"})
  /\ v.t = "array" => \A i \in DOMAIN v.items : ExtensionsTold(v.items[i], x)
  /\ v.t = "object" => \A i \in DOMAIN v.fields : ExtensionsTold(v.fields[i].v, x)
\* A row of one empty list is a blank line, which ends or breaks a table.
Told(v, lines, x) == ExtensionsTold(v, x) /\ \A i \in DOMAIN lines : TrimEnd(lines[i]) # ""

Extensions == {[Plain EXCEPT !.primitive_array_columns = TRUE, !.delimiter = "|"],
               [Plain EXCEPT !.object_array_columns = TRUE, !.indent = 1],
               [Plain EXCEPT !.primitive_array_columns = TRUE, !.object_array_columns = TRUE]}
RoundTrips(v, x) ==
  LET lines == encode_inner(v, x)[1]
  IN  decode_with_options(lines, x) = <<Canonical(v)>>

\* What the encoder documents: whatever it writes is read back.
RoundTripsAsDocumented == \A x \in Extensions : RoundTrips(doc, x)

PlainRoundTrips == ~IsLog =>
  \A x \in {Plain, [Plain EXCEPT !.delimiter = "|", !.indent = 3], [Plain EXCEPT !.delimiter = "\t", !.indent = 1]} :
    /\ RoundTrips(doc, x)
    /\ \A limit \in 1..2 :
         LET limited == encode_inner(doc, [x EXCEPT !.max_depth = limit])
         IN  limited = <<>> \/ Panicked(limited[1]) \/ limited = encode_inner(doc, x)
ExtensionsRoundTrip == ~IsLog =>
  \A x \in Extensions : ~RoundTrips(doc, x) => ~Told(doc, encode_inner(doc, x)[1], x)

RECURSIVE Inflatable(_)
\* What flattening keeps: no empty object, no dotted key, no number called
\* length.
Inflatable(v) ==
  /\ v # Obj(<<>>)
  /\ v.t = "object" => \A i \in DOMAIN v.fields : /\ "." \notin Chars(v.fields[i].k)
                                                  /\ v.fields[i].k = "length" => v.fields[i].v.t # "number"
                                                  /\ Inflatable(v.fields[i].v)
  /\ v.t = "array" => \A i \in DOMAIN v.items : Inflatable(v.items[i])
CyclicRoundTrips ==
  LET x       == [Plain EXCEPT !.cyclic = TRUE]
      lines   == encode_inner(doc, x)[1]
      decoded == decode_with_options(lines, x)
      labels  == {Get(Log[i].fields, "type").s : i \in DOMAIN Log}
  IN  IsLog /\ Inflatable(doc) /\ labels \intersect Reserved = {}
        => decoded # <<>> /\ Same(decoded[1], doc)

\* A text cut short between two lines is refused, with a report that names an
\* array unless a header has groups, or reads as the document without the
\* fields that were to come: no array lacks an element.
CutsAreNoticed ==
  LET lines == encode_inner(doc, Plain)[1]
  IN  ~IsLog => \A n \in 1..Len(lines) - 1 :
        LET cut == decode_with_options(Upto(lines, n), Plain)
        IN  IF cut = <<>> THEN \/ detect_truncation(Upto(lines, n), Plain) = "array_length_mismatch"
                               \/ \E i \in 1..n : Cardinality({c \in 1..Len(lines[i]) : Ch(lines[i], c) = "{"}) > 1
                          ELSE CutShort(cut[1], Canonical(doc))

\* Reading without strictness, with comments, with blank lines or under a
\* limit never changes what is read.
ReadersAgree ==
  LET lines  == encode_inner(doc, Plain)[1]
      whole  == <<Canonical(doc)>>
      lenient == [Plain EXCEPT !.strict = FALSE]
      With(n, line) == Upto(lines, n) \o <<line>> \o From(lines, n + 1)
  IN  ~IsLog =>
      /\ decode_with_options(lines, lenient) = whole
      /\ \A n \in 1..Len(lines) :
           /\ decode_with_options(With(n, " # note"), Plain) = whole
           /\ decode_with_options(With(n, ""), Plain) \in {<<>>, whole}
           /\ decode_with_options(With(n, ""), lenient) = whole
      /\ \A limit \in 1..2 : \A x \in {[Plain EXCEPT !.max_depth = limit], [Plain EXCEPT !.max_keys = limit],
                                       [Plain EXCEPT !.max_array_length = limit]} :
           decode_with_options(lines, x) \in {<<>>, whole}
=============================================================================
