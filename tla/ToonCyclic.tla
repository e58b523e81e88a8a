----------------------------- MODULE ToonCyclic -----------------------------
(***************************************************************************)
(* Cyclic discriminated arrays: an array of events whose kinds repeat in a *)
(* fixed cycle becomes one table per kind (cyclic_extension.rs), and the   *)
(* decoder puts the events back (toonl_and_cyclic_decode.rs).              *)
(***************************************************************************)
EXTENDS ToonEncode

Keys(fields) == [i \in DOMAIN fields |-> fields[i].k]
Segments(path) ==
  LET cuts == <<0>> \o SelectSeq(Places(path), LAMBDA i : Ch(path, i) = ".") \o <<Len(path) + 1>>
  IN  [k \in 1..Len(cuts) - 1 |-> SubSeq(path, cuts[k] + 1, cuts[k + 1] - 1)]
is_bare_cyclic_path(path) ==
  LET parts == Segments(path)
      word  == Letters \union Digits \union {"_"}
  IN  \A i \in DOMAIN parts : /\ parts[i] # ""
                              /\ Chars(parts[i]) \subseteq word
                              /\ Ch(parts[i], 1) \in Digits => Chars(parts[i]) \subseteq Digits
\* A sample of the bytes that a label can hold.
percent_encode(label) ==
  Folded(LAMBDA out, i :
             out \o (CASE Ch(label, i) = "," -> "%2C" [] Ch(label, i) = " " -> "%20"
                       [] Ch(label, i) = "%" -> "%25" [] OTHER -> Ch(label, i)), "", Places(label))
percent_decode(text) ==
  LET st == Folded(LAMBDA s, i :
              IF s.skip > 0 THEN [s EXCEPT !.skip = @ - 1]
              ELSE IF Ch(text, i) # "%" THEN [s EXCEPT !.out = @ \o Ch(text, i)]
              ELSE [skip |-> 2, out |-> s.out \o (CASE SubSeq(text, i, i + 2) = "%2C" -> ","
                                                   [] SubSeq(text, i, i + 2) = "%20" -> " "
                                                   [] SubSeq(text, i, i + 2) = "%25" -> "%")],
              [skip |-> 0, out |-> ""], Places(text))
  IN  st.out

-----------------------------------------------------------------------------
(* Encoding *)

Labelled(rows, key) ==
  \A i \in DOMAIN rows : Has(rows[i], key) /\ Get(rows[i], key).t = "string"
cyclic_discriminator(rows) ==
  LET names == <<"type", "kind", "event">>
      fits  == {n \in DOMAIN names : Labelled(rows, names[n])}
  IN  IF fits = {} THEN <<>> ELSE <<names[Min(fits)]>>
EncodedLabels(labels) == Joined([i \in DOMAIN labels |-> percent_encode(labels[i])], ",")
EncodedOrder(cycle, repeats) == "cycle(" \o EncodedLabels(cycle) \o ")*" \o ToString(repeats)
\* The shortest cycle that repeats at least three times and saves enough.
cyclic_order(labels) ==
  LET n == Len(labels)
      saves(size) ==
        LET cycle == SubSeq(labels, 1, size)
        IN  /\ IsInjective(cycle)
            /\ n % size = 0 /\ n \div size >= 3
            /\ \A i \in DOMAIN labels : labels[i] = cycle[((i - 1) % size) + 1]
            /\ Len(EncodedOrder(cycle, n \div size)) * 10 <= Len(EncodedLabels(labels)) * 4
      sizes == {size \in 2..Min({8, n \div 3}) : saves(size)}
  IN  IF sizes = {} THEN <<>> ELSE SubSeq(labels, 1, Min(sizes))

\* The fields right after the discriminator that every row has as scalars.
cyclic_common_fields(rows, discriminator) ==
  LET first  == Keys(rows[1])
      at     == Min({i \in DOMAIN first : first[i] = discriminator})
      common == {i \in at + 1..Len(first) :
                   \A j \in at + 1..i, r \in DOMAIN rows : Has(rows[r], first[j]) /\ is_primitive(Get(rows[r], first[j]))}
  IN  SubSeq(first, at + 1, at + Cardinality(common))

RECURSIVE flatten_cyclic_value(_, _)
\* The scalars of a value under dotted paths; none when it has no such form.
flatten_cyclic_value(v, prefix) ==
  LET under == IF v.t = "array" THEN [i \in DOMAIN v.items |-> flatten_cyclic_value(v.items[i], prefix \o "." \o ToString(i - 1))]
               ELSE [i \in DOMAIN v.fields |-> flatten_cyclic_value(v.fields[i].v, prefix \o "." \o v.fields[i].k)]
      all   == Flat([i \in DOMAIN under |-> under[i][1]])
  IN  IF ~is_bare_cyclic_path(prefix) THEN <<>>
      ELSE IF is_primitive(v) THEN <<<<Field(prefix, v)>>>>
      ELSE IF (\E i \in DOMAIN under : under[i] = <<>>)
              \/ (v.t = "object" /\ \E i \in DOMAIN v.fields : "." \in Chars(v.fields[i].k)) THEN <<>>
      ELSE IF v.t = "array" THEN <<<<Field(prefix \o ".length", Number(ToString(Len(v.items))))>> \o all>>
      ELSE <<all>>
Payload(row, others) ==
  LET flat == [i \in DOMAIN row |-> IF row[i].k \in others THEN <<<<>>>> ELSE flatten_cyclic_value(row[i].v, row[i].k)]
  IN  IF \E i \in DOMAIN flat : flat[i] = <<>> THEN <<>> ELSE <<Flat([i \in DOMAIN flat |-> flat[i][1]])>>

\* The tables of an array, none when it is not cyclic.
cyclic_array_shape(values) ==
  LET rows     == [i \in DOMAIN values |-> values[i].fields]
      by       == cyclic_discriminator(rows)
      labels   == [i \in DOMAIN rows |-> Get(rows[i], by[1]).s]
      cycle    == cyclic_order(labels)
      common   == cyclic_common_fields(rows, by[1])
      payloads == [i \in DOMAIN rows |-> Payload(rows[i], Range(common) \union {by[1]})]
      group(n) == SelectSeq([i \in DOMAIN rows |-> [label |-> labels[i], row |-> payloads[i][1]]],
                            LAMBDA g : g.label = cycle[n])
      uniform(n) == LET g == group(n)
                    IN  g[1].row # <<>> /\ \A i \in DOMAIN g : Keys(g[i].row) = Keys(g[1].row)
  IN  IF \/ \E i \in DOMAIN values : values[i].t # "object"
         \/ \E i \in DOMAIN values : ~IsInjective(Keys(values[i].fields))
         \/ by = <<>> \/ cycle = <<>> THEN <<>>
      ELSE IF \/ \E i \in DOMAIN common : ~is_bare_cyclic_path(common[i])
              \/ \E i \in DOMAIN rows : payloads[i] = <<>> THEN <<>>
      ELSE IF \E n \in DOMAIN cycle : ~uniform(n) THEN <<>>
      ELSE <<[discriminator |-> by[1], cycle |-> cycle, repeats |-> Len(rows) \div Len(cycle), common |-> common,
              common_rows |-> [i \in DOMAIN rows |-> [j \in DOMAIN common |-> Field(common[j], Get(rows[i], common[j]))]],
              groups |-> [n \in DOMAIN cycle |-> [i \in DOMAIN group(n) |-> group(n)[i].row]]]>>

write_cyclic_table(key, keys, rows) ==
  <<"  " \o canonical_key(key) \o "[" \o ToString(Len(rows)) \o "|]{"
    \o Joined([i \in DOMAIN keys |-> canonical_key(keys[i])], "|") \o "}:">>
  \o [i \in DOMAIN rows |-> "    " \o Joined([j \in DOMAIN keys |-> primitive_text(Get(rows[i], keys[j]), "|")], "|")]
write_cyclic_section(key, s) ==
  <<canonical_key(key) \o ":",
    "  order: " \o primitive_text(String(EncodedOrder(s.cycle, s.repeats)), "|"),
    "  discriminator: " \o primitive_text(String(s.discriminator), "|"),
    "  rows: " \o ToString(Len(s.common_rows))>>
  \o (IF s.common = <<>> THEN <<>> ELSE write_cyclic_table("common", s.common, s.common_rows))
  \o Flat([n \in DOMAIN s.cycle |-> write_cyclic_table(s.cycle[n], Keys(s.groups[n][1]), s.groups[n])])
\* The lines of a document whose fields are all cyclic arrays, or none.
write_cyclic_discriminated_arrays(v) ==
  LET shapes == [i \in DOMAIN v.fields |->
                   IF v.fields[i].v.t = "array" /\ is_bare_cyclic_path(v.fields[i].k)
                     THEN cyclic_array_shape(v.fields[i].v.items) ELSE <<>>]
  IN  IF v.t # "object" THEN <<>>
      ELSE IF \E i \in DOMAIN shapes : shapes[i] = <<>> THEN <<>>
      ELSE Flat([i \in DOMAIN shapes |-> write_cyclic_section(v.fields[i].k, shapes[i][1])])

-----------------------------------------------------------------------------
(* Decoding.  What may be invalid wire is a sequence, empty when it is.    *)

Invalid == <<>>
parse_cyclic_usize(s) ==
  IF s # "" /\ Chars(s) \subseteq Digits /\ (s = "0" \/ Ch(s, 1) # "0") THEN <<ToNat(s)>> ELSE Invalid
value_to_usize(v) == IF v.t = "number" THEN parse_cyclic_usize(v.n) ELSE Invalid

\* The labels of all rows.
parse_cyclic_order(encoded, rows) ==
  LET open    == "cycle("
      close   == FirstOf({i \in At(encoded, ")") : Ch(encoded, i + 1) = "*"})
      inside  == SubSeq(encoded, Len(open) + 1, close - 1)
      cuts    == <<0>> \o SelectSeq(Places(inside), LAMBDA i : Ch(inside, i) = ",") \o <<Len(inside) + 1>>
      cycle   == [k \in 1..Len(cuts) - 1 |-> percent_decode(SubSeq(inside, cuts[k] + 1, cuts[k + 1] - 1))]
      repeats == parse_cyclic_usize(From(encoded, close + 2))
  IN  IF Upto(encoded, Len(open)) # open \/ close <= Len(open) + 1 THEN Invalid
      ELSE IF (\E k \in DOMAIN cycle : cycle[k] = "") \/ repeats = Invalid THEN Invalid
      ELSE IF Len(cycle) * repeats[1] # rows THEN Invalid
      ELSE <<[i \in 1..rows |-> cycle[((i - 1) % Len(cycle)) + 1]]>>

RECURSIVE insert_tabular_path(_, _, _), inflate_cyclic_document(_)
\* A path through a scalar is not expected: the thread panics.
insert_tabular_path(fields, path, v) ==
  LET old == {i \in DOMAIN fields : fields[i].k = path[1]}
      i   == Min(old)
  IN  IF Len(path) = 1 THEN Append(fields, Field(path[1], v))
      ELSE IF old = {} THEN Append(fields, Field(path[1], Obj(insert_tabular_path(<<>>, Tail(path), v))))
      ELSE IF fields[i].v.t # "object" THEN Append(fields, Field(Panic, Null))
      ELSE [fields EXCEPT ![i].v.fields = insert_tabular_path(@, Tail(path), v)]
inflate_cyclic_document(fields) ==
  LET length == IF Has(fields, "length") THEN value_to_usize(Get(fields, "length")) ELSE Invalid
      Inflated(v) == IF v.t = "object" THEN inflate_cyclic_document(v.fields) ELSE <<v>>
      items  == [i \in 1..length[1] |-> IF Has(fields, ToString(i - 1)) THEN Inflated(Get(fields, ToString(i - 1))) ELSE Invalid]
      values == [i \in DOMAIN fields |-> Inflated(fields[i].v)]
  IN  IF length # Invalid
        THEN IF \E i \in DOMAIN items : items[i] = Invalid THEN Invalid ELSE <<Arr([i \in DOMAIN items |-> items[i][1]])>>
        ELSE IF \E i \in DOMAIN values : values[i] = Invalid THEN Invalid
        ELSE <<Obj([i \in DOMAIN fields |-> Field(fields[i].k, values[i][1])])>>
inflate_cyclic_flat_document(fields) ==
  inflate_cyclic_document(
    Folded(LAMBDA doc, f : insert_tabular_path(doc, Segments(f.k), f.v), <<>>, fields))
merge_cyclic_row(discriminator, label, common, payload) ==
  LET inflated == inflate_cyclic_flat_document(payload)
      row == <<Field(discriminator, String(label))>> \o common
  IN  IF Has(common, discriminator) \/ inflated = Invalid THEN Invalid
      ELSE IF inflated[1].t # "object" THEN Invalid
      ELSE IF \E i \in DOMAIN inflated[1].fields : Has(row, inflated[1].fields[i].k) THEN Invalid
      ELSE <<Obj(row \o inflated[1].fields)>>

Reserved == {"order", "discriminator", "rows", "common"}
is_cyclic_section_like(v) == v.t = "object" /\ \E k \in Reserved \ {"common"} : Has(v.fields, k)
IsTable(v) == v.t = "array" /\ \A i \in DOMAIN v.items : v.items[i].t = "object"
cyclic_array_from_tabular_object(v) ==
  LET s      == v.fields
      is(k, t) == Has(s, k) /\ Get(s, k).t = t
      rows   == value_to_usize(Get(s, "rows"))
      order  == parse_cyclic_order(Get(s, "order").s, rows[1])
      common == IF Has(s, "common") THEN Get(s, "common") ELSE Arr([i \in 1..rows[1] |-> Obj(<<>>)])
      groups == {s[i].k : i \in DOMAIN s} \ Reserved
      \* duplicate tables: the last one counts
      table(label) == s[Max({i \in DOMAIN s : s[i].k = label})].v
      nth(i) == Cardinality({j \in 1..i : order[1][j] = order[1][i]})
      row(i) == merge_cyclic_row(Get(s, "discriminator").s, order[1][i], common.items[i].fields,
                                 table(order[1][i]).items[nth(i)].fields)
      merged == [i \in 1..rows[1] |-> row(i)]
  IN  IF ~is("order", "string") \/ ~is("discriminator", "string") \/ ~is("rows", "number") THEN Invalid
      ELSE IF rows = Invalid THEN Invalid
      ELSE IF order = Invalid \/ ~IsTable(common) \/ groups = {} THEN Invalid
      ELSE IF Len(common.items) # rows[1] \/ \E label \in groups : ~IsTable(table(label)) THEN Invalid
      ELSE IF \/ \E i \in 1..rows[1] : order[1][i] \notin groups
              \/ \E label \in groups :
                   Len(table(label).items) # Cardinality({i \in 1..rows[1] : order[1][i] = label}) THEN Invalid
      ELSE IF \E i \in DOMAIN merged : merged[i] = Invalid THEN Invalid
      ELSE <<Arr([i \in DOMAIN merged |-> merged[i][1]])>>
expand_cyclic_discriminated_arrays(v) ==
  LET fields   == v.fields
      plain    == {i \in DOMAIN fields : ~is_cyclic_section_like(fields[i].v)}
      before   == IF plain = {} THEN DOMAIN fields ELSE 1..(Min(plain) - 1)
      expanded == [i \in before |-> cyclic_array_from_tabular_object(fields[i].v)]
  IN  IF v.t # "object" THEN <<v>>
      ELSE IF \E i \in before : expanded[i] = Invalid THEN Invalid
      ELSE IF plain # {} THEN <<v>>
      ELSE <<Obj([i \in DOMAIN fields |-> Field(fields[i].k, expanded[i][1])])>>
=============================================================================
