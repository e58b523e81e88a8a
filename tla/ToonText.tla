------------------------------ MODULE ToonText ------------------------------
(***************************************************************************)
(* Values and the texts that stand for them (crates/toon/src/lib_parts):   *)
(* scalars, keys, numbers, quoting and quote-aware splitting.  A text is a *)
(* string, a sequence of characters; numbers are their lexemes, as in the  *)
(* crate.  A result that may fail is a sequence, empty when it failed.     *)
(***************************************************************************)
EXTENDS Integers, Sequences, SequencesExt, FiniteSetsExt, TLC

Null == [t |-> "null"]
Bool(b) == [t |-> "bool", b |-> b]
Number(lexeme) == [t |-> "number", n |-> lexeme]
String(s) == [t |-> "string", s |-> s]
Arr(items) == [t |-> "array", items |-> items]
Obj(fields) == [t |-> "object", fields |-> fields]
Field(k, v) == [k |-> k, v |-> v]
is_primitive(v) == v.t \notin {"array", "object"}
Has(fields, k) == \E i \in DOMAIN fields : fields[i].k = k
Get(fields, k) == fields[CHOOSE i \in DOMAIN fields : /\ fields[i].k = k
                                                      /\ \A j \in 1..i-1 : fields[j].k # k].v

-----------------------------------------------------------------------------
(* Characters and scanning *)

\* FoldLeft and FlattenSeq, one place after the other.
Folded(op(_, _), base, seq) ==
  LET upto[i \in 0..Len(seq)] == IF i = 0 THEN base ELSE op(upto[i - 1], seq[i]) IN upto[Len(seq)]
Flat(seqs) == Folded(LAMBDA out, s : out \o s, <<>>, seqs)
Ch(s, i) == IF i \in 1..Len(s) THEN SubSeq(s, i, i) ELSE ""
From(s, i) == SubSeq(s, i, Len(s))
Upto(s, i) == SubSeq(s, 1, i)
Places(s) == [i \in 1..Len(s) |-> i]
Chars(s) == {Ch(s, i) : i \in 1..Len(s)}
EndsWith(s, end) == Len(s) >= Len(end) /\ From(s, Len(s) - Len(end) + 1) = end
Digits == Chars("0123456789")
Letters == Chars("abcdefghijklmnopqrstuvwxyzABCDEFGHIJKLMNOPQRSTUVWXYZ")
Controls == {"\t", "\n", "\f", "\r"}
At(s, c) == {i \in 1..Len(s) : Ch(s, i) = c}
FirstOf(places) == IF places = {} THEN 0 ELSE Min(places)
Joined(texts, with) ==
  Folded(LAMBDA out, i : out \o (IF i = 1 THEN "" ELSE with) \o texts[i], "", [i \in DOMAIN texts |-> i])

\* Where a text is outside quoted runs, and whether it ends inside one.
scan_unquoted_ascii(s) ==
  IF At(s, "\"") = {} THEN [quoted |-> FALSE, escaped |-> FALSE, plain |-> 1..Len(s)] ELSE
  Folded(LAMBDA st, i :
             LET c == Ch(s, i)
             IN  IF st.escaped THEN [st EXCEPT !.escaped = FALSE]
                 ELSE IF st.quoted /\ c = "\\" THEN [st EXCEPT !.escaped = TRUE]
                 ELSE IF c = "\"" THEN [st EXCEPT !.quoted = ~@]
                 ELSE IF st.quoted THEN st
                 ELSE [st EXCEPT !.plain = @ \union {i}],
           [quoted |-> FALSE, escaped |-> FALSE, plain |-> {}], Places(s))
Terminated(s) == ~scan_unquoted_ascii(s).quoted
Unquoted(s, c) == {i \in scan_unquoted_ascii(s).plain : Ch(s, i) = c}

\* Where a character first occurs outside quotes: 0 nowhere, -1 when a quote
\* is still open at the end.
find_unquoted(s, c) ==
  LET places == Unquoted(s, c)
  IN  IF places = {} /\ ~Terminated(s) THEN -1 ELSE FirstOf(places)

trim_u0020(s) ==
  LET kept == 1..Len(s) \ At(s, " ")
  IN  IF kept = {} THEN "" ELSE SubSeq(s, Min(kept), Max(kept))

Pieces(s, cuts) ==
  LET c == <<0>> \o SelectSeq(Places(s), LAMBDA i : i \in cuts) \o <<Len(s) + 1>>
  IN  [k \in 1..Len(c) - 1 |-> trim_u0020(SubSeq(s, c[k] + 1, c[k + 1] - 1))]
\* A caller looks first whether the text is terminated, which the code reports.
split_delimited(s, delimiter) == IF s = "" THEN <<>> ELSE Pieces(s, Unquoted(s, delimiter))
split_stream_cells(s, delimiter) ==
  IF trim_u0020(s) = "" THEN <<>> ELSE Pieces(s, Unquoted(s, delimiter))

-----------------------------------------------------------------------------
(* Numbers *)

consume_digits(s, i) ==
  LET others == {j \in i..Len(s) : Ch(s, j) \notin Digits}
  IN  IF others = {} THEN Max({i, Len(s) + 1}) ELSE Min(others)
\* digits [. digits] [e [sign] digits], from place i to the end
Numeric(s, i) ==
  LET whole    == consume_digits(s, i)
      fraction == IF Ch(s, whole) = "." THEN consume_digits(s, whole + 1) ELSE whole
      power    == IF Ch(s, fraction) \notin {"e", "E"} THEN 0
                  ELSE IF Ch(s, fraction + 1) \in {"+", "-"} THEN fraction + 2 ELSE fraction + 1
      end      == IF power = 0 THEN fraction ELSE consume_digits(s, power)
  IN  /\ whole > i
      /\ fraction # whole => fraction > whole + 1
      /\ power # 0 => end > power
      /\ end = Len(s) + 1
Unsigned(s, signs) == IF Ch(s, 1) \in signs THEN 2 ELSE 1
is_number_token(s) ==
  LET i == Unsigned(s, {"-"})
  IN  Numeric(s, i) /\ ~(Ch(s, i) = "0" /\ Ch(s, i + 1) \in Digits)
is_numeric_like(s) == Numeric(s, Unsigned(s, {"+", "-"}))

DigitValue(c) == FirstOf(At("0123456789", c)) - 1
ToNat(s) == Folded(LAMBDA n, i : 10 * n + DigitValue(Ch(s, i)), 0, Places(s))
ToInt(s) == IF Ch(s, 1) = "-" THEN -ToNat(From(s, 2)) ELSE ToNat(From(s, Unsigned(s, {"+"})))
Zeros(n) == Folded(LAMBDA out, i : out \o "0", "", [i \in 1..n |-> i])
NotZero(s) == 1..Len(s) \ At(s, "0")

\* 0.digits * 10^n as JavaScript prints it
decimal_layout(digits, n, negative) ==
  LET k    == Len(digits)
      body == IF k <= n /\ n <= 21 THEN digits \o Zeros(n - k)
              ELSE IF 0 < n /\ n <= 21 THEN Upto(digits, n) \o "." \o From(digits, n + 1)
              ELSE IF -6 < n /\ n <= 0 THEN "0." \o Zeros(-n) \o digits
              ELSE Upto(digits, 1) \o (IF k = 1 THEN "" ELSE "." \o From(digits, 2))
                   \o (IF n < 1 THEN "e-" \o ToString(1 - n) ELSE "e+" \o ToString(n - 1))
  IN  IF negative THEN "-" \o body ELSE body
exact_decimal_text(token) ==
  LET body     == From(token, Unsigned(token, {"-"}))
      e        == FirstOf(At(body, "e") \union At(body, "E"))
      mantissa == IF e = 0 THEN body ELSE Upto(body, e - 1)
      exponent == IF e = 0 THEN 0 ELSE ToInt(From(body, e + 1))
      dot      == FirstOf(At(mantissa, "."))
      whole    == IF dot = 0 THEN mantissa ELSE Upto(mantissa, dot - 1)
      all      == IF dot = 0 THEN mantissa ELSE whole \o From(mantissa, dot + 1)
  IN  IF NotZero(all) = {} THEN "0"
      ELSE decimal_layout(SubSeq(all, Min(NotZero(all)), Max(NotZero(all))),
                          Len(whole) + exponent - (Min(NotZero(all)) - 1), Ch(token, 1) = "-")
\* Left out: lexemes beyond the range of a double.
canonical_number(s) ==
  IF ~is_number_token(s) THEN s
  ELSE IF Chars(s) \intersect {".", "e", "E"} # {} THEN exact_decimal_text(s)
  ELSE IF Chars(s) \subseteq {"-", "0"} THEN "0" ELSE s

-----------------------------------------------------------------------------
(* Quoting *)

Escapes == ("\"" :> "\\\"") @@ ("\\" :> "\\\\") @@ ("\n" :> "\\n") @@ ("\r" :> "\\r")
           @@ ("\t" :> "\\t") @@ ("\f" :> "\\u000c")
quote_string(s) ==
  Folded(LAMBDA out, i : out \o (IF Ch(s, i) \in DOMAIN Escapes THEN Escapes[Ch(s, i)] ELSE Ch(s, i)),
           "\"", Places(s)) \o "\""

\* A sample of the characters that an escape can name.
parse_unicode_escape(digits) ==
  LET known == ("000c" :> "\f") @@ ("000a" :> "\n") @@ ("0022" :> "\"") @@ ("0061" :> "a")
  IN  IF digits \in DOMAIN known THEN <<known[digits]>> ELSE <<>>
RECURSIVE Unescaped(_, _, _)
Unescaped(s, i, out) ==
  LET c == Ch(s, i)
      e == Ch(s, i + 1)
      named == {raw \in DOMAIN Escapes : Escapes[raw] = "\\" \o e}
  IN  IF c = "\"" THEN IF trim_u0020(From(s, i + 1)) = "" THEN <<out>> ELSE <<>>
      ELSE IF c = "" \/ c \in Controls \ {"\t"} THEN <<>>
      ELSE IF c # "\\" THEN Unescaped(s, i + 1, out \o c)
      ELSE IF named # {} THEN Unescaped(s, i + 2, out \o CHOOSE raw \in named : TRUE)
      ELSE LET u == parse_unicode_escape(SubSeq(s, i + 2, Min({i + 5, Len(s)})))
           IN  IF e = "u" /\ u # <<>> THEN Unescaped(s, i + 6, out \o u[1]) ELSE <<>>
parse_quoted_string(s) == IF Ch(s, 1) = "\"" THEN Unescaped(s, 2, "") ELSE <<>>

parse_scalar(s) ==
  IF s = "" THEN <<String("")>>
  ELSE IF Ch(s, 1) = "\"" THEN LET q == parse_quoted_string(s) IN [i \in DOMAIN q |-> String(q[i])]
  ELSE IF "\"" \in Chars(s) THEN <<>>
  ELSE <<IF s = "true" THEN Bool(TRUE) ELSE IF s = "false" THEN Bool(FALSE)
         ELSE IF s = "null" THEN Null ELSE IF is_number_token(s) THEN Number(s) ELSE String(s)>>
parse_key(text) ==
  LET s == trim_u0020(text)
  IN  IF Ch(s, 1) = "\"" THEN parse_quoted_string(s)
      ELSE IF Chars(s) \intersect ({"\"", " "} \union Controls) # {} THEN <<>> ELSE <<s>>

is_bare_key(s) ==
  Ch(s, 1) \in Letters \union {"_"} /\ Chars(s) \subseteq Letters \union Digits \union {"_", "."}
canonical_key(s) == IF is_bare_key(s) THEN s ELSE quote_string(s)

\* The document encoder looks for spaces and tabs at the ends, the row writers
\* for any white space.
NeedsQuotes_trustsColons(s, delimiter, white) ==
  \/ s \in {"", "true", "false", "null"}
  \/ Ch(s, 1) \in white \union {"-", "#"}
  \/ Ch(s, Len(s)) \in white
  \/ is_numeric_like(s)
  \/ Chars(s) \intersect (Controls \union {"\"", "\\", "[", "]", "{", "}", delimiter}) # {}
NeedsQuotes(s, delimiter, white) ==
  \/ s \in {"", "true", "false", "null"}
  \/ Ch(s, 1) \in white \union {"-", "#"}
  \/ Ch(s, Len(s)) \in white
  \/ is_numeric_like(s)
  \/ Chars(s) \intersect (Controls \union {":", "\"", "\\", "[", "]", "{", "}", delimiter}) # {}
canonical_needs_quotes(s, delimiter) == NeedsQuotes(s, delimiter, {" ", "\t"})
needs_quotes(s, delimiter) == NeedsQuotes(s, delimiter, Controls \union {" "})
Literal(v, quoted) ==
  CASE v.t = "null" -> "null"
    [] v.t = "bool" -> IF v.b THEN "true" ELSE "false"
    [] v.t = "number" -> canonical_number(v.n)
    [] v.t = "string" -> IF quoted THEN quote_string(v.s) ELSE v.s
primitive_text(v, delimiter) == Literal(v, v.t = "string" /\ needs_quotes(v.s, delimiter))
canonical_primitive_text(v, delimiter) ==
  Literal(v, v.t = "string" /\ canonical_needs_quotes(v.s, delimiter))
=============================================================================
