------------------------------ MODULE TqValues ------------------------------
(***************************************************************************)
(* The values a tq filter works on and what it does with one value at a    *)
(* time: jq's order, indexing and slicing, arithmetic, and the paths that  *)
(* read, write and delete inside a value (crates/tq/src/query: ordering,   *)
(* indexing, paths, and the value half of eval).                           *)
(*                                                                         *)
(* A value is a record tagged with its kind.  A string is a sequence of    *)
(* letters (naturals, ordered like characters); an object a sequence of    *)
(* fields in document order; a number an integer.  Result<Value, String>   *)
(* is a sequence: <<v>> is Ok(v) and Bad is Err, whose wording is left     *)
(* out.                                                                    *)
(***************************************************************************)
LOCAL INSTANCE Integers
LOCAL INSTANCE Sequences
LOCAL INSTANCE SequencesExt

CONSTANT MAX_ARRAY_GROWTH   \* how far a write may grow an array

Null    == [t |-> "null"]
Bool(b) == [t |-> "boolean", b |-> b]
Num(n)  == [t |-> "number", n |-> n]
Str(s)  == [t |-> "string", s |-> s]
Arr(a)  == [t |-> "array", a |-> a]
Obj(o)  == [t |-> "object", o |-> o]
Field(k, v) == [k |-> k, v |-> v]

Bad == <<>>
Map(s, F(_)) == [i \in 1..Len(s) |-> F(s[i])]
Slot(s, i) == IF i \in 1..Len(s) THEN <<s[i]>> ELSE <<>>
Nth(s, i) == IF i \in 1..Len(s) THEN s[i] ELSE Null

\* Ok of the list when every member is Ok: collect::<Result<Vec<_>, _>>().
Collect(rs) == IF \E i \in 1..Len(rs) : rs[i] = Bad THEN Bad
               ELSE <<[i \in 1..Len(rs) |-> rs[i][1]]>>

is_truthy(v) == v \notin {Null, Bool(FALSE)}

-----------------------------------------------------------------------------
(* Objects (Document) *)

Position(o, key) == SelectInSeq(o, LAMBDA f : f.k = key)
Has(o, key) == Position(o, key) # 0
Get(o, key) == IF Has(o, key) THEN o[Position(o, key)].v ELSE Null
SetField(o, key, v) ==
  IF Has(o, key) THEN [o EXCEPT ![Position(o, key)].v = v] ELSE Append(o, Field(key, v))
RemoveField(o, key) == SelectSeq(o, LAMBDA f : f.k # key)

-----------------------------------------------------------------------------
(* Order *)

Sign(n) == IF n < 0 THEN -1 ELSE IF n > 0 THEN 1 ELSE 0
FirstUnequal(orders, rest) ==
  LET i == SelectInSeq(orders, LAMBDA c : c # 0) IN IF i = 0 THEN rest ELSE orders[i]
Shorter(a, b) == IF Len(a) < Len(b) THEN Len(a) ELSE Len(b)
CompareKeys(k, l) ==
  FirstUnequal([i \in 1..Shorter(k, l) |-> Sign(k[i] - l[i])], Sign(Len(k) - Len(l)))

json_rank(v) ==
  CASE v = Null        -> 0
    [] v = Bool(FALSE) -> 1
    [] v = Bool(TRUE)  -> 2
    [] v.t = "number"  -> 3
    [] v.t = "string"  -> 4
    [] v.t = "array"   -> 5
    [] OTHER           -> 6

\* The values of s in the order of their keys, equal keys in their old order.
SortKeyed(keyed, Before(_, _)) ==
  FoldLeft(LAMBDA done, x :
             LET at == SelectInSeq(done, LAMBDA d : Before(x.key, d.key))
             IN  IF at = 0 THEN Append(done, x) ELSE InsertAt(done, at, x),
           <<>>, keyed)
SortFields(o) ==
  Map(SortKeyed(Map(o, LAMBDA f : [key |-> f.k, val |-> f]),
                LAMBDA k, l : CompareKeys(k, l) < 0), LAMBDA x : x.val)

\* ordering.rs: the order `sort_by`, `group_by`, `<` and path deletion use.
RECURSIVE compare_json_values(_, _)
compare_json_values(l, r) ==
  IF json_rank(l) # json_rank(r) THEN Sign(json_rank(l) - json_rank(r))
  ELSE CASE l.t = "number" -> Sign(l.n - r.n)
         [] l.t = "string" -> CompareKeys(l.s, r.s)
         [] l.t = "array"  ->
              FirstUnequal([i \in 1..Shorter(l.a, r.a) |-> compare_json_values(l.a[i], r.a[i])],
                           Sign(Len(l.a) - Len(r.a)))
         [] l.t = "object" ->
              compare_json_values(
                Arr(FlattenSeq(Map(SortFields(l.o), LAMBDA f : <<Str(f.k), f.v>>))),
                Arr(FlattenSeq(Map(SortFields(r.o), LAMBDA f : <<Str(f.k), f.v>>))))
         [] OTHER -> 0
compare_key_json(l, r) == compare_json_values(l, r)

\* arrays.rs: the second copy of the order, which `sort`, `min`, `max` and
\* `unique_by` use.
RECURSIVE compare_json(_, _)
compare_slices(l, r) ==
  FirstUnequal([i \in 1..Shorter(l, r) |-> compare_json(l[i], r[i])], Sign(Len(l) - Len(r)))
compare_json(l, r) ==
  IF json_rank(l) # json_rank(r) THEN Sign(json_rank(l) - json_rank(r))
  ELSE CASE l.t = "number" -> Sign(l.n - r.n)
         [] l.t = "string" -> CompareKeys(l.s, r.s)
         [] l.t = "array"  -> compare_slices(l.a, r.a)
         [] l.t = "object" ->
              LET lf == SortFields(l.o)  rf == SortFields(r.o)
              IN  FirstUnequal([i \in 1..(2 * Shorter(lf, rf)) |->
                                  LET f == lf[(i + 1) \div 2]  g == rf[(i + 1) \div 2]
                                  IN  IF i % 2 = 1 THEN CompareKeys(f.k, g.k)
                                      ELSE compare_json(f.v, g.v)],
                               Sign(Len(lf) - Len(rf)))
         [] OTHER -> 0

\* to_json_value() == to_json_value(): fields are compared by name.
SameJson(l, r) == compare_json_values(l, r) = 0

-----------------------------------------------------------------------------
(* Indexing (indexing.rs); positions count from 0 as in the code *)

Wrapped(index, len) == IF index < 0 THEN len + index ELSE index
normalize_index(index, len) ==
  IF Wrapped(index, len) \in 0..(len - 1) THEN <<Wrapped(index, len)>> ELSE Bad

index_value(input, key) ==
  CASE input.t = "array" /\ key.t = "number" ->
         LET at == normalize_index(key.n, Len(input.a))
         IN  <<IF at = Bad THEN Null ELSE input.a[at[1] + 1]>>
    [] input.t = "object" /\ key.t = "string" -> <<Get(input.o, key.s)>>
    [] input.t = "object" /\ key.t = "number" -> <<Null>>
    [] input.t = "null" /\ key.t \in {"number", "string"} -> <<Null>>
    [] OTHER -> Bad

normalize_bound(bound, len) ==
  IF bound < 0 THEN IF len + bound < 0 THEN 0 ELSE len + bound
  ELSE IF bound < len THEN bound ELSE len

\* start and end are <<>> when open.  The slice is what lies in start + 1..end.
slice_bounds(len, start, end) ==
  LET from == normalize_bound(IF start = <<>> THEN 0 ELSE start[1], len)
      to   == normalize_bound(IF end = <<>> THEN len ELSE end[1], len)
  IN  <<from, IF to < from THEN from ELSE to>>

Cut(s, bounds) == SubSeq(s, bounds[1] + 1, bounds[2])
slice_value(input, start, end) ==
  CASE input.t = "array"  -> <<Arr(Cut(input.a, slice_bounds(Len(input.a), start, end)))>>
    [] input.t = "string" -> <<Str(Cut(input.s, slice_bounds(Len(input.s), start, end)))>>
    [] input = Null       -> <<Null>>
    [] OTHER              -> Bad

-----------------------------------------------------------------------------
(* Paths (paths.rs); a path is a sequence of components *)

START == <<83>>
END   == <<69>>
bound_value(bound) == IF bound = <<>> THEN Null ELSE Num(bound[1])
slice_component(start, end) ==
  Obj(<<Field(START, bound_value(start)), Field(END, bound_value(end))>>)
bound_number(v) == IF v.t = "number" THEN <<v.n>> ELSE <<>>
slice_range(component) ==
  IF component.t = "object" /\ Has(component.o, START) /\ Has(component.o, END)
  THEN <<bound_number(Get(component.o, START)), bound_number(Get(component.o, END))>>
  ELSE <<>>
IsSlice(component) == slice_range(component) # <<>>

members(v) ==
  CASE v.t = "array"  -> <<[i \in 1..Len(v.a) |-> [c |-> Num(i - 1), v |-> v.a[i]]]>>
    [] v.t = "object" -> <<Map(v.o, LAMBDA f : [c |-> Str(f.k), v |-> f.v])>>
    [] OTHER          -> Bad
MembersOrNone(v) == IF members(v) = Bad THEN <<>> ELSE members(v)[1]

components(v) == IF v.t = "array" THEN <<v.a>> ELSE Bad

Step(v, component) ==
  LET range == slice_range(component)
  IN  IF range # <<>> THEN slice_value(v, range[1], range[2]) ELSE index_value(v, component)
get_path(input, path) ==
  FoldLeft(LAMBDA at, c : IF at = Bad THEN Bad ELSE Step(at[1], c), <<input>>, path)

element_index(index, len) ==
  IF Wrapped(index, len) < 0 \/ index > MAX_ARRAY_GROWTH THEN Bad ELSE <<Wrapped(index, len)>>

RECURSIVE set_path(_, _, _)
set_field(input, key, rest, replacement) ==
  IF input.t \notin {"object", "null"} THEN Bad
  ELSE LET o == IF input = Null THEN <<>> ELSE input.o
           v == set_path(Get(o, key), rest, replacement)
       IN  IF v = Bad THEN Bad ELSE <<Obj(SetField(o, key, v[1]))>>
set_element(input, index, rest, replacement) ==
  IF input.t \notin {"array", "null"} THEN Bad
  ELSE LET a  == IF input = Null THEN <<>> ELSE input.a
           at == element_index(index, Len(a))
       IN  IF at = Bad THEN Bad
           ELSE LET v == set_path(Nth(a, at[1] + 1), rest, replacement)
                    n == IF at[1] < Len(a) THEN Len(a) ELSE at[1] + 1
                IN  IF v = Bad THEN Bad
                    ELSE <<Arr([[i \in 1..n |-> Nth(a, i)] EXCEPT ![at[1] + 1] = v[1]])>>
set_slice(input, start, end, rest, replacement) ==
  IF input.t \notin {"array", "null"} THEN Bad
  ELSE LET a == IF input = Null THEN <<>> ELSE input.a
           b == slice_bounds(Len(a), start, end)
           v == set_path(Arr(Cut(a, b)), rest, replacement)
       IN  IF v = Bad \/ v[1].t # "array" THEN Bad
           ELSE <<Arr(SubSeq(a, 1, b[1]) \o v[1].a \o SubSeq(a, b[2] + 1, Len(a)))>>
set_path(input, path, replacement) ==
  IF path = <<>> THEN <<replacement>>
  ELSE LET c == Head(path)  rest == Tail(path)
       IN  CASE IsSlice(c) -> set_slice(input, slice_range(c)[1], slice_range(c)[2], rest, replacement)
             [] c.t = "string" -> set_field(input, c.s, rest, replacement)
             [] c.t = "number" -> set_element(input, c.n, rest, replacement)
             [] OTHER -> Bad

existing_index(index, len) == normalize_index(index, len)
addresses(input, c) ==
  CASE IsSlice(c) -> input.t = "array"
    [] input.t = "object" /\ c.t = "string" -> Has(input.o, c.s)
    [] input.t = "array" /\ c.t = "number" -> existing_index(c.n, Len(input.a)) # Bad
    [] OTHER -> FALSE
remove_from_non_container(input) == IF input = Null THEN <<Null>> ELSE Bad
remove_component(input, c) ==
  CASE input.t \notin {"array", "object"} \/ (IsSlice(c) /\ input.t # "array") ->
         remove_from_non_container(input)
    [] IsSlice(c) /\ input.t = "array" ->
         LET b == slice_bounds(Len(input.a), slice_range(c)[1], slice_range(c)[2])
         IN  <<Arr(SubSeq(input.a, 1, b[1]) \o SubSeq(input.a, b[2] + 1, Len(input.a)))>>
    [] input.t = "object" /\ c.t = "string" -> <<Obj(RemoveField(input.o, c.s))>>
    [] input.t = "array" /\ c.t = "number" ->
         LET at == existing_index(c.n, Len(input.a))
         IN  <<IF at = Bad THEN input ELSE Arr(RemoveAt(input.a, at[1] + 1))>>
    [] OTHER -> <<input>>

RECURSIVE delete_path(_, _)
delete_path(input, path) ==
  IF path = <<>> THEN <<Null>>
  ELSE IF Len(path) = 1 THEN remove_component(input, path[1])
  ELSE CASE input = Null -> <<Null>>
         [] input.t \in {"array", "object"} ->
              IF ~addresses(input, Head(path)) THEN <<input>>
              ELSE LET child  == Step(input, Head(path))
                       pruned == IF child = Bad THEN Bad ELSE delete_path(child[1], Tail(path))
                   IN  IF pruned = Bad THEN Bad ELSE set_path(input, <<Head(path)>>, pruned[1])
         [] OTHER -> Bad

\* Sorted and without duplicates.
SortedPaths(paths) ==
  LET keyed == SortKeyed(Map(paths, LAMBDA p : [key |-> Arr(p), val |-> p]),
                         LAMBDA k, l : compare_key_json(k, l) < 0)
  IN  FoldLeft(LAMBDA kept, x : IF kept # <<>> /\ SameJson(Arr(Last(kept)), x.key) THEN kept
                                ELSE Append(kept, x.val), <<>>, keyed)
DeleteEach(input, paths) ==
  FoldLeft(LAMBDA v, p : IF v = Bad THEN Bad ELSE delete_path(v[1], p), <<input>>, paths)
\* The last path first.
delete_all_forwards(input, paths) == DeleteEach(input, SortedPaths(paths))
delete_all(input, paths) == DeleteEach(input, Reverse(SortedPaths(paths)))
=============================================================================
