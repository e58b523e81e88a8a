------------------------------- MODULE TqLaws -------------------------------
(***************************************************************************)
(* What holds of every filter: filters are written one operator at a time, *)
(* compared on a few documents with the filters that define them, and then *)
(* run over streams of rows.                                               *)
(***************************************************************************)
EXTENDS TqRun

CONSTANTS MaxWraps,    \* operators in a filter
          MaxLawWraps, \* operators in a filter whose definition is compared
          Streams      \* what a reader may yield: rows <<v>>, or Bad where one cannot be read

VARIABLES filter,      \* the query
          wraps        \* operators written so far

a == <<97>>
b == <<98>>
Docs == {Null, Num(2), Str(<<97, 98>>), Arr(<<>>), Arr(<<Num(1), Num(2), Num(3)>>),
         Obj(<<Field(b, Num(1)), Field(a, Bool(FALSE))>>),
         Obj(<<Field(a, Arr(<<Num(1), Null>>)), Field(b, Obj(<<Field(a, Num(3))>>))>>),
         Arr(<<Obj(<<Field(a, Num(2))>>), Arr(<<Num(4)>>), Bool(TRUE)>>)}

N(n) == Literal(Num(n))
X(name) == Call(name, <<>>)
Call1(name, x) == Call(name, <<x>>)
Call2(name, x, y) == Call(name, <<x, y>>)
Forever == Def("f", <<>>, X("f"), X("f"))
Atoms == {Identity, Empty, Key(Identity, a), Index(Identity, N(-1)), Iter(Identity),
          Slice(Identity, <<N(1)>>, <<>>), N(1), X("error"), X("recurse"),
          Call1("getpath", Array(<<Literal(Str(b))>>)), X("input"), X("halt"), Forever}
Wraps(f) ==
  {Key(f, b), Iter(f), Index(f, N(0)), Slice(f, <<>>, <<N(-1)>>), Optional(f), Try(f, <<>>),
   Try(f, <<Identity>>), Call1("select", f), Array(<<f>>), Call2("recurse", f, X("not")),
   Call1("recurse", f)}
  \union UNION {{Pipe(f, g), Pipe(g, f), Comma(<<f, g>>), Comma(<<g, f>>), Alternative(f, g),
                 Alternative(g, f), If(<<[if |-> f, then |-> g]>>, Identity)} : g \in Atoms}

lawVars == <<filter, wraps>>
LawInit == filter = Identity /\ wraps = 0
LawNext == /\ wraps < MaxWraps
           /\ IF wraps = 0 THEN filter' \in Atoms ELSE filter' \in Wraps(filter)
           /\ wraps' = wraps + 1

Written == wraps > 0
Evaluated(x, v) == eval(x, v, BaseEnv(<<>>), Fresh(<<>>))

RECURSIVE Uses(_, _)
\* The operators and builtins a filter is built from.
Uses(x, ops) ==
  \/ x.op \in ops
  \/ x.op = "call" /\ (x.name \in ops \/ \E i \in DOMAIN x.args : Uses(x.args[i], ops))
  \/ x.op \in {"pipe", "alternative"} /\ (Uses(x.left, ops) \/ Uses(x.right, ops))
  \/ x.op \in {"comma", "array"} /\ \E i \in DOMAIN x.items : Uses(x.items[i], ops)
  \/ x.op \in {"field", "index", "slice", "iter"} /\ Uses(x.base, ops)
  \/ x.op \in {"optional", "try"} /\ Uses(x.of, ops)
  \/ x.op = "conditional" /\ (Uses(x.fallback, ops)
                               \/ \E i \in DOMAIN x.branches : Uses(x.branches[i].if, ops)
                                                               \/ Uses(x.branches[i].then, ops))

-----------------------------------------------------------------------------
(* The second evaluator *)

\* A filter that has paths produces, in the same order, the values that live
\* at them, and reading a path back finds its value where it can be read at
\* all.  The evaluators of eval.rs and paths.rs walk the same filter apart.
\* Left out: recovery, after which values before an error count in eval.rs
\* and not in paths.rs, and recurse(f; condition), which follows a child once
\* per truthy condition in eval.rs and once in paths.rs.
PathsMatch == Written =>
  \A v \in Docs :
    LET e == Evaluated(filter, v)
        l == locate(filter, v, BaseEnv(<<>>), Fresh(<<>>))
        recovers == Uses(filter, {"optional", "try", "alternative"})
                    \/ (filter.op = "call" /\ Len(filter.args) = 2)
    IN  /\ ~Failed(l) /\ ~recovers => ~Failed(e) /\ e.vs = Map(l.vs, LAMBDA y : y.v)
        /\ \A i \in DOMAIN l.vs : get_path(v, l.vs[i].path) \in {Bad, <<l.vs[i].v>>}

\* A halt ends the run whatever is around it: recovery passes it on.
HaltsPass == Written =>
  \A v \in Docs : filter.op = "optional" /\ is_halt(Evaluated(filter.of, v).err)
                    => is_halt(Evaluated(filter, v).err)

-----------------------------------------------------------------------------
(* Definitions: what a builtin or an operator abbreviates *)

Law(when, x, y) == [when |-> when, x |-> x, y |-> y]
V(n) == [p |-> "variable", name |-> n]
XV == Variable("x")
All(x) == Array(<<x>>)
Not(x) == Pipe(x, X("not"))
Sep == Literal(Str(<<44>>))
Always == ALL_KINDS
F1 == Binary("+", Identity, N(1))
Counts(x) == Binary(">", Pipe(Array(<<x>>), X("length")), N(0))
Bin(x) == If(<<[if |-> x, then |-> Literal(Bool(TRUE))]>>, Literal(Bool(FALSE)))
Edit(target, f) == Reduce(Call1("path", target), V("x"), Identity,
                          Call2("setpath", XV, Pipe(Call1("getpath", XV), f)))
SortedPairs(f) == Call1("sort_by", f)
LawsOf(f) ==
  {Law({"array"}, Call1("map", f), All(Pipe(Iter(Identity), f))),
   Law(Always, Call1("select", f), If(<<[if |-> f, then |-> Identity]>>, Empty)),
   Law(Always, Call1("del", f), Call1("delpaths", All(Call1("path", f)))),
   Law({"array"}, Call1("del", Pipe(Iter(Identity), Call1("select", Call2("any", f, Identity)))),
       Call1("map", Call1("select", Not(Call2("any", f, Identity))))),
   Law(Always, Assign("|=", f, Empty),
       Bind(All(Bind(Call1("path", f), V("x"), Call1("getpath", XV))), V("y"), Call1("del", f))),
   Law(Always, Assign("|=", f, Comma(<<N(7), N(8)>>)), Edit(f, N(7))),
   Law(Always, Assign("=", f, N(7)), Edit(f, N(7))),
   Law(Always, Assign("+=", f, N(1)), Edit(f, F1)),
   Law(Always, Assign("//=", f, N(1)), Edit(f, Alternative(Identity, N(1)))),
   Law(Always, Call1("pick", f),
       Bind(Identity, V("d"), Reduce(Call1("path", f), V("x"), Literal(Null),
            Call2("setpath", XV, Pipe(Variable("d"), Call1("getpath", XV)))))),
   Law(Always, Call1("first", f), Call2("limit", N(1), f)),
   Law(Always, All(Call1("last", f)), Slice(All(f), <<N(-1)>>, <<>>)),
   Law(Always, All(Call2("nth", N(1), f)), Slice(All(f), <<N(1)>>, <<N(2)>>)),
   Law({"array"}, Call1("any", f), Pipe(Call1("map", f), X("any"))),
   Law(Always, Call2("all", f, Identity), Pipe(All(f), X("all"))),
   Law({"array"}, SortedPairs(f), All(Iter(Iter(Call1("group_by", f))))),
   Law({"array"}, Call1("unique_by", f), All(Index(Iter(Call1("group_by", f)), N(0)))),
   Law({"array"}, Call1("min_by", f), Pipe(SortedPairs(f), X("first"))),
   Law({"array"}, Call1("max_by", f), Pipe(SortedPairs(f), X("last"))),
   Law(Always, Call1("with_entries", f), Pipe(X("to_entries"), Pipe(Call1("map", f), X("from_entries")))),
   Law(Always, Call1("recurse", f),
       Def("r", <<>>, Comma(<<Identity, Pipe(f, X("r"))>>), X("r"))),
   Law(Always, Call2("recurse", f, F1), Call1("recurse", Pipe(f, Call1("select", F1)))),
   Law(Always, All(Call1("paths", f)),
       Bind(Identity, V("d"),
            All(Pipe(Call1("path", X("recurse")),
                     Call1("select", Binary("and", Pipe(X("length"), Binary(">", Identity, N(0))),
                       Bind(Identity, V("x"), Pipe(Pipe(Variable("d"), Call1("getpath", XV)), Call2("any", f, Identity))))))))),
   Law(Always, Try(Call1("error", f), <<Identity>>), Try(Call1("first", f), <<Identity>>)),
   Law(Always, Reduce(f, V("x"), Array(<<>>), Binary("+", Identity, All(XV))), All(f)),
   Law(Always, All(Foreach(f, V("x"), N(0), XV, Identity)), All(f)),
   Law(Always, Def("h", <<"g">>, Pipe(X("g"), X("g")), Call1("h", f)), Pipe(f, f)),
   Law(Always, Binary("and", f, F1), Bind(f, V("x"), If(<<[if |-> XV, then |-> Bin(F1)]>>, Literal(Bool(FALSE))))),
   Law(Always, Object(<<Field(a, f), Field(b, f)>>),
       Bind(f, V("x"), Bind(f, V("y"), Object(<<Field(a, XV), Field(b, Variable("y"))>>)))),
   Law(Always, Call1("inside", f), Bind(Identity, V("d"), Pipe(f, Call1("contains", Variable("d"))))),
   Law(Always, Call1("index", f), Pipe(Call1("indices", f), Index(Identity, N(0)))),
   Law(Always, Call1("rindex", f), Pipe(Call1("indices", f), Index(Identity, N(-1))))}
FixedLaws ==
  {Law({"array"}, X("sort"), Call1("sort_by", Identity)),
   Law({"array"}, X("unique"), Call1("unique_by", Identity)),
   Law({"array"}, X("min"), Call1("min_by", Identity)),
   Law({"array"}, X("max"), Pipe(X("sort"), X("last"))),
   Law({"array"}, Pipe(X("reverse"), X("reverse")), Identity),
   Law(Always, Call1("walk", Identity), Identity),
   Law(Always, Call1("fromstream", X("tostream")), Identity),
   Law({"object"}, Pipe(X("to_entries"), X("from_entries")), Identity),
   Law({"object", "array"}, X("keys"), Pipe(X("keys_unsorted"), X("sort"))),
   Law(Always, All(X("leaf_paths")), All(Call1("paths", Counts(X("scalars"))))),
   Law({"array", "string", "null"}, Binary("+", Slice(Identity, <<>>, <<N(-1)>>), Slice(Identity, <<N(-1)>>, <<>>)), Identity),
   Law({"array"}, X("flatten"),
       All(Pipe(Call1("recurse", Pipe(X("arrays"), Iter(Identity))), Call1("select", Not(Counts(X("arrays"))))))),
   Law({"array"}, Call1("flatten", N(1)), All(Pipe(Iter(Identity), If(<<[if |-> Binary("==", All(X("arrays")), All(Identity)), then |-> Iter(Identity)]>>, Identity)))),
   Law(Always, Call1("range", N(3)), Pipe(Literal(Arr(<<Num(0), Num(1), Num(2)>>)), Iter(Identity))),
   Law({"number"}, All(Call2("while", Binary("<", Identity, N(5)), F1)), All(Call2("range", Identity, N(5)))),
   Law({"number"}, Call2("until", Binary(">", Identity, N(5)), F1), N(6)),
   Law({"array", "null"}, Bind(Identity, [p |-> "array", of |-> <<V("x"), V("y")>>], Array(<<XV, Variable("y")>>)),
       Array(<<Index(Identity, N(0)), Index(Identity, N(1))>>)),
   Law({"array", "string"}, Pipe(Pipe(Call1("map", Pipe(X("scalars"), X("strings"))), Call1("join", Sep)), Call1("split", Sep)),
       Pipe(Call1("map", X("strings")), If(<<[if |-> Binary("==", X("length"), N(0)), then |-> Array(<<Literal(Str(<<>>))>>)]>>, Identity)))}

\* Both filters fail, or neither, and they produce the same.
Same(x, y, v) ==
  LET l == Evaluated(x, v)  r == Evaluated(y, v)
  IN  (Failed(l) <=> Failed(r)) /\ l.vs = r.vs

\* Operators and builtins that eval.rs, assign.rs, paths.rs and builtins/*.rs
\* each implement in Rust produce what the filters that define them do: the
\* edits (`del`, `|=`, `=`, `op=`, `pick`) are reductions over paths, the
\* sorts and groupings agree though two orders are implemented, `walk`,
\* `tostream` and `to_entries` can be undone, and a definition's arguments
\* are evaluated where they were written.
DefinitionsAgree == wraps \in 1..MaxLawWraps =>
  \A v \in Docs : \A l \in LawsOf(filter) \union FixedLaws : v.t \in l.when => Same(l.x, l.y, v)

-----------------------------------------------------------------------------
(* Runs *)

\* A run over the rows one at a time ends as one run over all of them ends,
\* whether they are drawn with -n and `inputs` or slurped: it prints the same
\* with the same exit status, or fails.  Left out: filters that draw rows
\* themselves, halts, which print the rows before, and filters that exhaust
\* the budget, of which every row gets a fresh one.
ModesAgree ==
  Written /\ ~Uses(filter, {"input", "def"}) =>
    \A rows \in Streams :
      LET one == run_toonl("rows", filter, rows)
      IN  one.how = "halted"
          \/ /\ run_toonl("null", Pipe(X("inputs"), filter), rows) = one
             /\ run_toonl("slurp", Pipe(Iter(Identity), filter), rows) = one
=============================================================================
