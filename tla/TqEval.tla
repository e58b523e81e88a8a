------------------------------- MODULE TqEval -------------------------------
(***************************************************************************)
(* tq's filters: what a filter produces (eval.rs), where each produced     *)
(* value lives (paths.rs), the edits built on both (assign.rs) and the     *)
(* builtins (builtins/*.rs).                                               *)
(*                                                                         *)
(* A filter is a record tagged with its operator, in the cases of the      *)
(* enum Expr.  An evaluation is a record of the values produced, the error *)
(* that ended it, and the world: the evaluation nesting, whether its       *)
(* budget was ever exhausted, and the documents the query may still read.  *)
(***************************************************************************)
EXTENDS Integers, Sequences, SequencesExt, TqValues

CONSTANTS MAX_EVAL_DEPTH,    \* the evaluation nesting budget
          MAX_PRODUCED       \* values of one range and rounds of one loop

-----------------------------------------------------------------------------
(* Filters *)

Identity       == [op |-> "identity"]
Empty          == [op |-> "empty"]
Literal(v)     == [op |-> "literal", v |-> v]
Variable(n)    == [op |-> "variable", name |-> n]
Key(x, k)      == [op |-> "field", base |-> x, key |-> k]
Index(x, i)    == [op |-> "index", base |-> x, index |-> i]
Slice(x, s, e) == [op |-> "slice", base |-> x, start |-> s, end |-> e]
Iter(x)        == [op |-> "iter", base |-> x]
Pipe(l, r)     == [op |-> "pipe", left |-> l, right |-> r]
Comma(xs)      == [op |-> "comma", items |-> xs]
Alternative(l, r) == [op |-> "alternative", left |-> l, right |-> r]
Array(xs)      == [op |-> "array", items |-> xs]
Object(fs)     == [op |-> "object", fields |-> fs]
Binary(b, l, r)   == [op |-> "binary", by |-> b, left |-> l, right |-> r]
Assign(b, t, s)   == [op |-> "assign", by |-> b, target |-> t, source |-> s]
Bind(s, p, x)  == [op |-> "bind", source |-> s, pattern |-> p, body |-> x]
Call(n, xs)    == [op |-> "call", name |-> n, args |-> xs]
If(bs, x)      == [op |-> "conditional", branches |-> bs, fallback |-> x]
Def(n, ps, x, r)  == [op |-> "def", name |-> n, params |-> ps, body |-> x, rest |-> r]
Environment    == [op |-> "environment"]
Optional(x)    == [op |-> "optional", of |-> x]
Try(x, h)      == [op |-> "try", of |-> x, handler |-> h]
Reduce(g, p, i, u) == [op |-> "reduce", generator |-> g, pattern |-> p, initial |-> i, update |-> u]
Foreach(g, p, i, u, e) ==
  [op |-> "foreach", generator |-> g, pattern |-> p, initial |-> i, update |-> u, extract |-> e]

-----------------------------------------------------------------------------
(* Evaluations *)

None    == [kind |-> "none"]
Message == [kind |-> "error", payload |-> Str(<<77>>)]   \* a diagnostic of tq itself
DEPTH_ERROR == [kind |-> "error", payload |-> Str(<<68>>)]
encode_error_payload(v) == [kind |-> "error", payload |-> v]
decode_error_payload(e) == e.payload
Halt(code, text) == [kind |-> "halt", code |-> code, text |-> text]
is_halt(e) == e.kind = "halt"

Fresh(inputs) == [depth |-> 0, spent |-> FALSE, rest |-> inputs]

Ok(vs, w)    == [vs |-> vs, err |-> None, w |-> w]
Raise(e, w)  == [vs |-> <<>>, err |-> e, w |-> w]
Fail(w)      == Raise(Message, w)
Settle(r, w) == IF r = Bad THEN Fail(w) ELSE Ok(r, w)      \* a Result<Value> as an answer
SettleAll(r, w) == IF r = Bad THEN Fail(w) ELSE Ok(r[1], w) \* a Result<Vec<Value>>
Failed(r)    == r.err # None
\* Result: an error takes the values before it along.  `?` in Rust.
Strict(r)    == IF Failed(r) THEN Raise(r.err, r.w) ELSE r
Then(r, F(_)) == IF Failed(r) THEN Raise(r.err, r.w) ELSE F(r)
\* append_recovery over a list: outputs up to the first error are kept.
Gather(vs, world, F(_, _)) ==
  FoldLeft(LAMBDA acc, v :
             IF Failed(acc) THEN acc
             ELSE LET r == F(v, acc.w) IN [r EXCEPT !.vs = acc.vs \o @],
           Ok(<<>>, world), vs)
Each(vs, world, F(_, _)) == Strict(Gather(vs, world, F))

-----------------------------------------------------------------------------
(* Environments *)

BaseEnv(variables) == [vars |-> variables, funs |-> <<>>]

RECURSIVE bind_pattern(_, _)
bind_pattern(p, v) ==
  LET Within(key) == IF v = Null THEN <<Null>> ELSE index_value(v, key)
      Whole(items) == LET rs == Map(items, LAMBDA x : IF x.at = Bad THEN Bad
                                                      ELSE bind_pattern(x.p, x.at[1]))
                      IN  IF Collect(rs) = Bad THEN Bad ELSE <<FlattenSeq(Collect(rs)[1])>>
  IN  CASE p.p = "variable" -> <<<<[name |-> p.name, v |-> v]>>>>
        [] p.p = "array" ->
             IF v.t \notin {"array", "null"} /\ p.of # <<>> THEN Bad
             ELSE Whole([i \in 1..Len(p.of) |-> [p |-> p.of[i], at |-> Within(Num(i - 1))]])
        [] p.p = "object" ->
             IF v.t \notin {"object", "null"} /\ p.of # <<>> THEN Bad
             ELSE Whole(Map(p.of, LAMBDA f : [p |-> f.v, at |-> Within(Str(f.k))]))

bind(env, pattern, v, w, F(_)) ==
  LET frame == bind_pattern(pattern, v)
  IN  IF frame = Bad THEN Fail(w) ELSE F([env EXCEPT !.vars = @ \o frame[1]])

define(env, name, params, body) ==
  [env EXCEPT !.funs = Append(@, [name |-> name, params |-> params, body |-> body,
                                  env |-> env, recursive |-> TRUE])]

\* The position of the definition a call resolves to: the latest of its name
\* and number of arguments; 0 when the name is a builtin's.
Resolve(env, name, args) ==
  SelectLastInSeq(env.funs, LAMBDA f : f.name = name /\ Len(f.params) = Len(args))

\* The environment of a call's body: the definition site, the definition
\* itself, and one closure per argument that keeps the caller's scope.
Scope(env, f, args) ==
  [f.env EXCEPT !.funs =
     @ \o (IF f.recursive THEN <<f>> ELSE <<>>)
       \o [i \in 1..Len(args) |-> [name |-> f.params[i], params |-> <<>>, body |-> args[i],
                                   env |-> env, recursive |-> FALSE]]]

CanEnter(w) == ~w.spent /\ w.depth < MAX_EVAL_DEPTH
Entered(w)  == [w EXCEPT !.depth = @ + 1]
Exhausted(w) == Raise(DEPTH_ERROR, [w EXCEPT !.spent = TRUE])
Left(r, w)  == [r EXCEPT !.w.depth = w.depth]

-----------------------------------------------------------------------------
(* Arithmetic and comparison *)

Quotient(a, b) == Sign(a) * Sign(b) * ((Sign(a) * a) \div (Sign(b) * b))
add_values(l, r) ==
  CASE l = Null -> <<r>>
    [] l # Null /\ r = Null -> <<l>>
    [] l.t = "number" /\ r.t = "number" -> <<Num(l.n + r.n)>>
    [] l.t = "string" /\ r.t = "string" -> <<Str(l.s \o r.s)>>
    [] l.t = "array" /\ r.t = "array" -> <<Arr(l.a \o r.a)>>
    [] l.t = "object" /\ r.t = "object" ->
         <<Obj(FoldLeft(LAMBDA o, f : SetField(o, f.k, f.v), l.o, r.o))>>
    [] OTHER -> Bad
subtract_values(l, r) ==
  CASE l.t = "number" /\ r.t = "number" -> <<Num(l.n - r.n)>>
    [] l.t = "array" /\ r.t = "array" ->
         <<Arr(SelectSeq(l.a, LAMBDA v : \A i \in DOMAIN r.a : ~SameJson(v, r.a[i])))>>
    [] OTHER -> Bad
evaluate_binary(by, l, r) ==
  LET numbers == l.t = "number" /\ r.t = "number"
      order   == compare_json_values(l, r)
  IN  CASE by = "+"  -> add_values(l, r)
        [] by = "-"  -> subtract_values(l, r)
        [] by = "*"  -> IF numbers THEN <<Num(l.n * r.n)>> ELSE Bad
        [] by = "/"  -> IF numbers /\ r.n # 0 THEN <<Num(Quotient(l.n, r.n))>> ELSE Bad
        [] by = "%"  -> IF numbers /\ r.n # 0 THEN <<Num(l.n - r.n * Quotient(l.n, r.n))>> ELSE Bad
        [] by = "==" -> <<Bool(order = 0)>>
        [] by = "!=" -> <<Bool(order # 0)>>
        [] by = "<"  -> <<Bool(order < 0)>>
        [] by = "<=" -> <<Bool(order <= 0)>>
        [] by = ">"  -> <<Bool(order > 0)>>
        [] by = ">=" -> <<Bool(order >= 0)>>

-----------------------------------------------------------------------------
(* Evaluation.  eval and locate_from spend one level of nesting; the       *)
(* recovering evaluator spends none of its own.                            *)

RECURSIVE eval(_, _, _, _)
RECURSIVE locate_from(_, _, _, _)
RECURSIVE evaluate_recovering(_, _, _, _)
RECURSIVE evaluate_conditional(_, _, _, _, _)
RECURSIVE recover_conditional(_, _, _, _, _)
RECURSIVE locate_conditional(_, _, _, _, _)
RECURSIVE builtin(_, _, _, _, _)

\* The values of an optional slice bound: <<>> when open.
evaluate_bounds(bound, v, env, w) ==
  IF bound = <<>> THEN Ok(<<<<>>>>, w)
  ELSE Then(eval(bound[1], v, env, w), LAMBDA r :
         IF \E i \in DOMAIN r.vs : r.vs[i].t # "number" THEN Fail(r.w)
         ELSE Ok(Map(r.vs, LAMBDA n : <<n.n>>), r.w))

\* Every pair of a member of ls with a member of rs, ls outermost.
Pairs(ls, rs) == FlattenSeq(Map(ls, LAMBDA l : Map(rs, LAMBDA r : <<l, r>>)))

evaluate_slice(x, v, env, w) ==
  Then(eval(x.base, v, env, w), LAMBDA bs :
    Each(bs.vs, bs.w, LAMBDA b, w1 :
      Then(evaluate_bounds(x.start, b, env, w1), LAMBDA ss :
        Then(evaluate_bounds(x.end, b, env, ss.w), LAMBDA es :
          SettleAll(Collect(Map(Pairs(ss.vs, es.vs), LAMBDA p : slice_value(b, p[1], p[2]))), es.w)))))

evaluate_index(x, v, env, w) ==
  Then(eval(x.base, v, env, w), LAMBDA bs :
    Each(bs.vs, bs.w, LAMBDA b, w1 :
      Then(eval(x.index, b, env, w1), LAMBDA ks :
        SettleAll(Collect(Map(ks.vs, LAMBDA k : index_value(b, k))), ks.w))))

evaluate_iteration(x, v, env, w) ==
  Then(eval(x.base, v, env, w), LAMBDA bs :
    Each(bs.vs, bs.w, LAMBDA b, w1 :
      IF members(b) = Bad THEN Fail(w1) ELSE Ok(Map(members(b)[1], LAMBDA m : m.v), w1)))

\* `and` and `or`: the right side runs only when some left value needs it,
\* and then once.
evaluate_logic(x, v, env, w) ==
  LET decided == x.by = "or"
      Decides(l) == is_truthy(l) = decided
  IN  Then(eval(x.left, v, env, w), LAMBDA ls :
        IF \A i \in DOMAIN ls.vs : Decides(ls.vs[i])
        THEN Ok(Map(ls.vs, LAMBDA l : Bool(decided)), ls.w)
        ELSE Then(eval(x.right, v, env, ls.w), LAMBDA rs :
               Ok(FlattenSeq(Map(ls.vs, LAMBDA l :
                    IF Decides(l) THEN <<Bool(decided)>>
                    ELSE Map(rs.vs, LAMBDA r : Bool(is_truthy(r))))), rs.w)))

evaluate_object(x, v, env, w) ==
  FoldLeft(LAMBDA acc, f :
             Then(acc, LAMBDA os :
               Then(eval(f.v, v, env, os.w), LAMBDA r :
                 Ok(Map(Pairs(os.vs, r.vs), LAMBDA p : Obj(SetField(p[1].o, f.k, p[2]))), r.w))),
           Ok(<<Obj(<<>>)>>, w), x.fields)

\* Every state is updated for every generated value; all states of the last
\* round are the answer.
evaluate_reduce(x, v, env, w) ==
  Then(eval(x.generator, v, env, w), LAMBDA gs :
    Then(eval(x.initial, v, env, gs.w), LAMBDA is :
      FoldLeft(LAMBDA acc, g :
                 Then(acc, LAMBDA ss :
                   bind(env, x.pattern, g, ss.w, LAMBDA inner :
                     Each(ss.vs, ss.w, LAMBDA s, w1 : eval(x.update, s, inner, w1)))),
               is, gs.vs)))

\* As reduce, with the extracts of every state in between as the answer.
evaluate_foreach(x, v, env, w) ==
  LET Round(acc, g) ==
        Then(acc, LAMBDA ss :
          bind(env, x.pattern, g, ss.w, LAMBDA inner :
            Then(Each(ss.vs[1].states, ss.w, LAMBDA s, w1 :
                   Then(eval(x.update, s, inner, w1), LAMBDA us :
                     Each(us.vs, us.w, LAMBDA u, w2 :
                       Then(eval(x.extract, u, inner, w2), LAMBDA es :
                         Ok(<<[state |-> u, out |-> es.vs]>>, es.w))))),
                 LAMBDA steps :
                   Ok(<<[states |-> Map(steps.vs, LAMBDA p : p.state),
                         out |-> ss.vs[1].out \o FlattenSeq(Map(steps.vs, LAMBDA p : p.out))]>>,
                      steps.w))))
  IN  Then(eval(x.generator, v, env, w), LAMBDA gs :
        Then(eval(x.initial, v, env, gs.w), LAMBDA is :
          Then(FoldLeft(Round, Ok(<<[states |-> is.vs, out |-> <<>>]>>, is.w), gs.vs),
               LAMBDA r : Ok(r.vs[1].out, r.w))))

evaluate_conditional(branches, fallback, v, env, w) ==
  IF branches = <<>> THEN eval(fallback, v, env, w)
  ELSE Then(eval(Head(branches).if, v, env, w), LAMBDA cs :
         Each(cs.vs, cs.w, LAMBDA c, w1 :
           IF is_truthy(c) THEN eval(Head(branches).then, v, env, w1)
           ELSE evaluate_conditional(Tail(branches), fallback, v, env, w1)))

-----------------------------------------------------------------------------
(* Recovery: `try`, `?` and the handlers *)

recover_conditional(branches, fallback, v, env, w) ==
  IF branches = <<>> THEN evaluate_recovering(fallback, v, env, w)
  ELSE LET cs == evaluate_recovering(Head(branches).if, v, env, w)
           rs == Gather(cs.vs, cs.w, LAMBDA c, w1 :
                   IF is_truthy(c) THEN evaluate_recovering(Head(branches).then, v, env, w1)
                   ELSE recover_conditional(Tail(branches), fallback, v, env, w1))
       IN  IF Failed(rs) THEN rs ELSE [rs EXCEPT !.err = cs.err]

\* A halt passes through; any other error runs the handler, if there is one,
\* behind the values produced before it.
recover_try(x, v, env, w) ==
  LET r == evaluate_recovering(x.of, v, env, w)
  IN  CASE ~Failed(r) \/ is_halt(r.err) -> r
        [] Failed(r) /\ ~is_halt(r.err) /\ x.handler = <<>> -> Ok(r.vs, r.w)
        [] OTHER -> LET h == evaluate_recovering(x.handler[1], decode_error_payload(r.err), env, r.w)
                    IN  [h EXCEPT !.vs = r.vs \o @]

evaluate_recovering(x, v, env, w) ==
  CASE x.op = "comma" ->
         Gather(x.items, w, LAMBDA y, w1 : evaluate_recovering(y, v, env, w1))
    [] x.op = "conditional" -> recover_conditional(x.branches, x.fallback, v, env, w)
    [] x.op = "optional" ->
         LET r == evaluate_recovering(x.of, v, env, w)
         IN  IF is_halt(r.err) THEN r ELSE Ok(r.vs, r.w)
    [] x.op = "pipe" ->
         LET l == evaluate_recovering(x.left, v, env, w)
             r == Gather(l.vs, l.w, LAMBDA y, w1 : evaluate_recovering(x.right, y, env, w1))
         IN  IF Failed(r) THEN r ELSE [r EXCEPT !.err = l.err]
    [] x.op = "try" -> recover_try(x, v, env, w)
    [] OTHER -> eval(x, v, env, w)

-----------------------------------------------------------------------------
(* Paths *)

Located(path, v) == [path |-> path, v |-> v]
Descend_fromRoot(l, c, v) == Located(<<c>>, v)
Descend(l, c, v) == Located(Append(l.path, c), v)

\* A filter that is no path expression: an error only when it produces.
invalid_path(x, from, env, w) ==
  Then(eval(x, from.v, env, w), LAMBDA r : IF r.vs = <<>> THEN r ELSE Fail(r.w))

locate_slice(x, from, env, w) ==
  Then(locate_from(x.base, from, env, w), LAMBDA ls :
    Each(ls.vs, ls.w, LAMBDA l, w1 :
      Then(evaluate_bounds(x.start, l.v, env, w1), LAMBDA ss :
        Then(evaluate_bounds(x.end, l.v, env, ss.w), LAMBDA es :
          LET at == Pairs(ss.vs, es.vs)
              vs == Collect(Map(at, LAMBDA p : slice_value(l.v, p[1], p[2])))
          IN  IF vs = Bad THEN Fail(es.w)
              ELSE Ok([i \in 1..Len(at) |->
                         Descend(l, slice_component(at[i][1], at[i][2]), vs[1][i])], es.w)))))

locate_conditional(branches, fallback, from, env, w) ==
  IF branches = <<>> THEN locate_from(fallback, from, env, w)
  ELSE Then(eval(Head(branches).if, from.v, env, w), LAMBDA cs :
         Each(cs.vs, cs.w, LAMBDA c, w1 :
           IF is_truthy(c) THEN locate_from(Head(branches).then, from, env, w1)
           ELSE locate_conditional(Tail(branches), fallback, from, env, w1)))

\* A child is followed once, when any output of the condition is truthy.
keeps(condition, v, env, w) ==
  IF condition = <<>> THEN Ok(<<Bool(TRUE)>>, w)
  ELSE Then(eval(condition[1], v, env, w), LAMBDA r :
         Ok(<<Bool(\E i \in DOMAIN r.vs : is_truthy(r.vs[i]))>>, r.w))

RECURSIVE locate_recurse(_, _, _, _, _)
locate_recurse(from, filter, condition, env, w) ==
  IF ~CanEnter(w) THEN Exhausted(w)
  ELSE LET children == IF filter = <<>>
                       THEN Ok(Map(MembersOrNone(from.v), LAMBDA m : Descend(from, m.c, m.v)), Entered(w))
                       ELSE locate_from(filter[1], from, env, Entered(w))
           below == Then(children, LAMBDA cs :
                      Each(cs.vs, cs.w, LAMBDA child, w1 :
                        Then(keeps(condition, child.v, env, w1), LAMBDA k :
                          IF k.vs = <<Bool(TRUE)>>
                          THEN locate_recurse(child, filter, condition, env, k.w)
                          ELSE Ok(<<>>, k.w))))
       IN  Left(Then(below, LAMBDA r : Ok(<<from>> \o r.vs, r.w)), w)

locate_call(x, from, env, w) ==
  LET at == Resolve(env, x.name, x.args)
  IN  CASE at # 0 -> locate_from(env.funs[at].body, from, Scope(env, env.funs[at], x.args), w)
        [] at = 0 /\ x.name = "select" /\ Len(x.args) = 1 ->
             Then(eval(x.args[1], from.v, env, w), LAMBDA r :
               Ok(Map(SelectSeq(r.vs, is_truthy), LAMBDA v : from), r.w))
        [] at = 0 /\ x.name = "getpath" /\ Len(x.args) = 1 ->
             Then(eval(x.args[1], from.v, env, w), LAMBDA r :
               Each(r.vs, r.w, LAMBDA p, w1 :
                 LET v == IF components(p) = Bad THEN Bad ELSE get_path(from.v, p.a)
                 IN  IF v = Bad THEN Fail(w1) ELSE Ok(<<Located(from.path \o p.a, v[1])>>, w1)))
        [] at = 0 /\ x.name = "recurse" /\ Len(x.args) <= 2 ->
             locate_recurse(from, Slot(x.args, 1), Slot(x.args, 2), env, w)
        [] OTHER -> invalid_path(x, from, env, w)

LocateForm(x, from, env, w) ==
  CASE x.op = "identity" -> Ok(<<from>>, w)
    [] x.op = "empty" -> Ok(<<>>, w)
    [] x.op = "field" ->
         Then(locate_from(x.base, from, env, w), LAMBDA ls :
           Ok(Map(ls.vs, LAMBDA l :
                Descend(l, Str(x.key), IF l.v.t = "object" THEN Get(l.v.o, x.key) ELSE Null)), ls.w))
    [] x.op = "index" ->
         Then(locate_from(x.base, from, env, w), LAMBDA ls :
           Each(ls.vs, ls.w, LAMBDA l, w1 :
             Then(eval(x.index, l.v, env, w1), LAMBDA ks :
               Each(ks.vs, ks.w, LAMBDA k, w2 :
                 LET v == index_value(l.v, k)
                 IN  IF v = Bad THEN Fail(w2) ELSE Ok(<<Descend(l, k, v[1])>>, w2)))))
    [] x.op = "slice" -> locate_slice(x, from, env, w)
    [] x.op = "iter" ->
         Then(locate_from(x.base, from, env, w), LAMBDA ls :
           Each(ls.vs, ls.w, LAMBDA l, w1 :
             IF members(l.v) = Bad THEN Fail(w1)
             ELSE Ok(Map(members(l.v)[1], LAMBDA m : Descend(l, m.c, m.v)), w1)))
    [] x.op = "pipe" ->
         Then(locate_from(x.left, from, env, w), LAMBDA ls :
           Each(ls.vs, ls.w, LAMBDA l, w1 : locate_from(x.right, l, env, w1)))
    [] x.op = "comma" -> Each(x.items, w, LAMBDA y, w1 : locate_from(y, from, env, w1))
    [] x.op = "optional" ->
         LET r == locate_from(x.of, from, env, w) IN Ok(r.vs, r.w)
    [] x.op = "try" ->
         LET r == locate_from(x.of, from, env, w)
         IN  IF x.handler = <<>> THEN Ok(r.vs, r.w) ELSE r
    [] x.op = "conditional" -> locate_conditional(x.branches, x.fallback, from, env, w)
    [] x.op = "alternative" ->
         LET l == locate_from(x.left, from, env, w)
             kept == SelectSeq(l.vs, LAMBDA y : is_truthy(y.v))
         IN  IF kept = <<>> THEN locate_from(x.right, from, env, l.w) ELSE Ok(kept, l.w)
    [] x.op = "bind" ->
         Then(eval(x.source, from.v, env, w), LAMBDA ss :
           Each(ss.vs, ss.w, LAMBDA s, w1 :
             bind(env, x.pattern, s, w1, LAMBDA inner : locate_from(x.body, from, inner, w1))))
    [] x.op = "def" -> locate_from(x.rest, from, define(env, x.name, x.params, x.body), w)
    [] x.op = "call" -> locate_call(x, from, env, w)
    [] OTHER -> invalid_path(x, from, env, w)

locate_from(x, from, env, w) ==
  IF ~CanEnter(w) THEN Exhausted(w) ELSE Left(LocateForm(x, from, env, Entered(w)), w)
locate(x, v, env, w) == locate_from(x, Located(<<>>, v), env, w)
descendants(v, env, w) == locate_recurse(Located(<<>>, v), <<>>, <<>>, env, w)

-----------------------------------------------------------------------------
(* Assignment (assign.rs): the paths are located once, in the document     *)
(* that entered; deletions wait for the end.                               *)

\* What an operator writes over current: <<>> deletes the path.
apply(update, current, env, w) ==
  CASE update.kind = "filter" ->
         Then(eval(update.x, current, env, w), LAMBDA r : Ok(Slot(r.vs, 1), r.w))
    [] update.kind = "binary" -> Settle(evaluate_binary(update.by, current, update.v), w)
    [] update.kind = "alternative" -> Ok(<<IF is_truthy(current) THEN current ELSE update.v>>, w)

Operator(by) == CASE by = "+=" -> "+" [] by = "-=" -> "-" [] by = "*=" -> "*"
                  [] by = "/=" -> "/" [] by = "%=" -> "%"

set_all(v, paths, replacement) ==
  FoldLeft(LAMBDA at, p : IF at = Bad THEN Bad ELSE set_path(at[1], p, replacement), <<v>>, paths)

modify(v, paths, update, env, w) ==
  LET Visit(acc, p) ==
        Then(acc, LAMBDA a :
          LET doc == a.vs[1].doc  deleted == a.vs[1].deleted  current == get_path(doc, p)
          IN  IF current = Bad THEN Fail(a.w)
              ELSE Then(apply(update, current[1], env, a.w), LAMBDA r :
                     IF r.vs = <<>> THEN Ok(<<[doc |-> doc, deleted |-> Append(deleted, p)]>>, r.w)
                     ELSE LET next == set_path(doc, p, r.vs[1])
                          IN  IF next = Bad THEN Fail(r.w)
                              ELSE Ok(<<[doc |-> next[1], deleted |-> deleted]>>, r.w)))
  IN  Then(FoldLeft(Visit, Ok(<<[doc |-> v, deleted |-> <<>>]>>, w), paths), LAMBDA r :
        Settle(delete_all(r.vs[1].doc, r.vs[1].deleted), r.w))

assign(x, v, env, w) ==
  Then(locate(x.target, v, env, w), LAMBDA ls :
    LET paths == Map(ls.vs, LAMBDA l : l.path)
    IN  IF x.by = "|=" THEN modify(v, paths, [kind |-> "filter", x |-> x.source], env, ls.w)
        ELSE Then(eval(x.source, v, env, ls.w), LAMBDA ss :
          Each(ss.vs, ss.w, LAMBDA s, w1 :
            CASE x.by = "="   -> Settle(set_all(v, paths, s), w1)
              [] x.by = "//=" -> modify(v, paths, [kind |-> "alternative", v |-> s], env, w1)
              [] x.by \in {"+=", "-=", "*=", "/=", "%="} ->
                   modify(v, paths, [kind |-> "binary", by |-> Operator(x.by), v |-> s], env, w1))))

-----------------------------------------------------------------------------
(* Every form of filter *)

evaluate(x, v, env, w) ==
  CASE x.op = "identity" -> Ok(<<v>>, w)
    [] x.op = "empty" -> Ok(<<>>, w)
    [] x.op = "literal" -> Ok(<<x.v>>, w)
    [] x.op = "variable" ->
         LET at == SelectLastInSeq(env.vars, LAMBDA b : b.name = x.name)
         IN  IF at = 0 THEN Fail(w) ELSE Ok(<<env.vars[at].v>>, w)
    [] x.op = "environment" -> Ok(<<Obj(<<>>)>>, w)   \* the process environment, left out
    [] x.op = "field" ->
         Then(eval(x.base, v, env, w), LAMBDA r :
           Ok(Map(r.vs, LAMBDA b : IF b.t = "object" THEN Get(b.o, x.key) ELSE Null), r.w))
    [] x.op = "index" -> evaluate_index(x, v, env, w)
    [] x.op = "slice" -> evaluate_slice(x, v, env, w)
    [] x.op = "iter" -> evaluate_iteration(x, v, env, w)
    [] x.op = "pipe" ->
         Then(eval(x.left, v, env, w), LAMBDA ls :
           Each(ls.vs, ls.w, LAMBDA l, w1 : eval(x.right, l, env, w1)))
    [] x.op = "comma" -> Each(x.items, w, LAMBDA y, w1 : eval(y, v, env, w1))
    [] x.op = "array" ->
         Then(Each(x.items, w, LAMBDA y, w1 : eval(y, v, env, w1)), LAMBDA r : Ok(<<Arr(r.vs)>>, r.w))
    [] x.op = "object" -> evaluate_object(x, v, env, w)
    [] x.op = "alternative" ->
         LET l == eval(x.left, v, env, w)
             kept == SelectSeq(l.vs, is_truthy)
         IN  IF is_halt(l.err) THEN l
             ELSE IF kept = <<>> THEN eval(x.right, v, env, l.w) ELSE Ok(kept, l.w)
    [] x.op = "binary" ->
         IF x.by \in {"and", "or"} THEN evaluate_logic(x, v, env, w)
         ELSE Then(eval(x.left, v, env, w), LAMBDA ls :
                Then(eval(x.right, v, env, ls.w), LAMBDA rs :
                  SettleAll(Collect(Map(Pairs(ls.vs, rs.vs), LAMBDA p :
                    evaluate_binary(x.by, p[1], p[2]))), rs.w)))
    [] x.op = "assign" -> assign(x, v, env, w)
    [] x.op = "bind" ->
         Then(eval(x.source, v, env, w), LAMBDA ss :
           Each(ss.vs, ss.w, LAMBDA s, w1 :
             bind(env, x.pattern, s, w1, LAMBDA inner : eval(x.body, v, inner, w1))))
    [] x.op = "conditional" -> evaluate_conditional(x.branches, x.fallback, v, env, w)
    [] x.op = "def" -> eval(x.rest, v, define(env, x.name, x.params, x.body), w)
    [] x.op = "call" ->
         LET at == Resolve(env, x.name, x.args)
         IN  IF at = 0 THEN builtin(x.name, x.args, v, env, w)
             ELSE eval(env.funs[at].body, v, Scope(env, env.funs[at], x.args), w)
    [] x.op = "optional" ->
         LET r == evaluate_recovering(x.of, v, env, w) IN Ok(r.vs, r.w)
    [] x.op = "try" -> Strict(recover_try(x, v, env, w))
    [] x.op = "reduce" -> evaluate_reduce(x, v, env, w)
    [] x.op = "foreach" -> evaluate_foreach(x, v, env, w)

eval(x, v, env, w) ==
  IF ~CanEnter(w) THEN Exhausted(w) ELSE Left(evaluate(x, v, env, Entered(w)), w)

-----------------------------------------------------------------------------
(* Builtins that work on the input alone: Result<Value> *)

IsArray(v) == v.t = "array"
IsBox(v) == v.t \in {"array", "object"}

RECURSIVE Numeral(_)
Numeral(n) == IF n < 0 THEN <<45>> \o Numeral(-n)
              ELSE (IF n < 10 THEN <<>> ELSE Numeral(n \div 10)) \o <<48 + (n % 10)>>

evaluate_add(v) ==
  IF ~IsArray(v) THEN Bad
  ELSE FoldLeft(LAMBDA total, x : IF total = Bad THEN Bad ELSE add_values(total[1], x),
                <<Nth(v.a, 1)>>, SubSeq(v.a, 2, Len(v.a)))

evaluate_length(v) ==
  CASE v.t = "array"  -> <<Num(Len(v.a))>>
    [] v.t = "null"   -> <<Num(0)>>
    [] v.t = "number" -> <<Num(Sign(v.n) * v.n)>>
    [] v.t = "object" -> <<Num(Len(v.o))>>
    [] v.t = "string" -> <<Num(Len(v.s))>>
    [] OTHER          -> Bad

Positions(n) == Arr([i \in 1..n |-> Num(i - 1)])
evaluate_keys(v) ==
  CASE v.t = "array"  -> <<Positions(Len(v.a))>>
    [] v.t = "object" -> <<Arr(Map(SortFields(v.o), LAMBDA f : Str(f.k)))>>
    [] OTHER          -> Bad
call_keys_unsorted(v) ==
  CASE v.t = "array"  -> <<Positions(Len(v.a))>>
    [] v.t = "object" -> <<Arr(Map(v.o, LAMBDA f : Str(f.k)))>>
    [] OTHER          -> Bad

evaluate_has(v, key) ==
  CASE v.t = "array" /\ key.t = "number" -> IF key.n < 0 THEN Bad ELSE <<Bool(key.n < Len(v.a))>>
    [] v.t = "object" /\ key.t = "string" -> <<Bool(Has(v.o, key.s))>>
    [] v.t = "object" /\ key.t = "number" -> <<Bool(Has(v.o, Numeral(key.n)))>>
    [] OTHER -> Bad

\* The names an entry may give its key and its value, the preferred one first.
KEYS == <<<<107>>, <<75>>, <<110>>, <<78>>>>      \* key, Key, name, Name
VALUES == <<<<118>>, <<86>>>>                     \* value, Value
FirstOf(o, names) == LET at == SelectInSeq(names, LAMBDA n : Has(o, n))
                     IN  IF at = 0 THEN Null ELSE Get(o, names[at])
entry_value(k, v) == Obj(<<Field(KEYS[1], k), Field(VALUES[1], v)>>)
evaluate_to_entries(v) ==
  IF ~IsBox(v) THEN Bad ELSE <<Arr(Map(members(v)[1], LAMBDA m : entry_value(m.c, m.v)))>>
entry_key_string(k) ==
  CASE k.t = "number" -> <<Numeral(k.n)>> [] k.t = "string" -> <<k.s>> [] OTHER -> Bad
evaluate_from_entries(v) ==
  IF ~IsArray(v) THEN Bad
  ELSE FoldLeft(LAMBDA acc, e :
                  IF acc = Bad \/ e.t # "object" THEN Bad
                  ELSE LET k == entry_key_string(FirstOf(e.o, KEYS))
                       IN  IF k = Bad THEN Bad ELSE <<Obj(SetField(acc[1].o, k[1], FirstOf(e.o, VALUES)))>>,
                <<Obj(<<>>)>>, v.a)

\* Sorted pairs without those equal to the pair before them.
Deduped(keyed) == SelectSeq([i \in 1..Len(keyed) |->
                               [keyed[i] EXCEPT !.first = i = 1 \/ ~SameJson(keyed[i].key, keyed[i - 1].key)]],
                            LAMBDA x : x.first)
Pairing(key, val) == [key |-> key, val |-> val, first |-> TRUE]
Values(keyed) == Arr(Map(keyed, LAMBDA x : x.val))
ByOrdering(k, l) == compare_key_json(k, l) < 0
ByArrays(k, l) == compare_json(k, l) < 0
BySelf(v) == Map(v.a, LAMBDA x : Pairing(x, x))

evaluate_unique(v) == IF ~IsArray(v) THEN Bad ELSE <<Values(Deduped(SortKeyed(BySelf(v), ByOrdering)))>>
call_sort(v) == IF ~IsArray(v) THEN Bad ELSE <<Values(SortKeyed(BySelf(v), ByArrays))>>
call_reverse(v) == IF ~IsArray(v) THEN Bad ELSE <<Arr(Reverse(v.a))>>

\* Iterator::min_by keeps the first of equals, max_by the last.
Least(keyed, Before(_, _)) ==
  IF keyed = <<>> THEN Null
  ELSE FoldLeft(LAMBDA m, x : IF Before(x.key, m.key) THEN x ELSE m, Head(keyed), Tail(keyed)).val
Greatest(keyed, Before(_, _)) ==
  IF keyed = <<>> THEN Null
  ELSE FoldLeft(LAMBDA m, x : IF Before(x.key, m.key) THEN m ELSE x, Head(keyed), Tail(keyed)).val
min_max(v, max) ==
  IF ~IsArray(v) THEN Bad
  ELSE <<IF max THEN Greatest(BySelf(v), ByArrays) ELSE Least(BySelf(v), ByArrays)>>

RECURSIVE flatten_values(_, _)
flatten_values(vs, depth) ==
  FlattenSeq(Map(vs, LAMBDA v : IF depth # 0 /\ IsArray(v) THEN flatten_values(v.a, depth - 1) ELSE <<v>>))

call_transpose(v) ==
  IF ~IsArray(v) \/ \E i \in DOMAIN v.a : ~IsArray(v.a[i]) THEN Bad
  ELSE LET width == FoldLeft(LAMBDA n, row : IF Len(row.a) > n THEN Len(row.a) ELSE n, 0, v.a)
       IN  <<Arr([c \in 1..width |-> Arr(Map(v.a, LAMBDA row : Nth(row.a, c)))])>>

RECURSIVE contains_value(_, _)
contains_value(box, sought) ==
  CASE box.t = "string" /\ sought.t = "string" ->
         <<sought.s = <<>> \/ \E i \in 1..Len(box.s) : IsPrefix(sought.s, SubSeq(box.s, i, Len(box.s)))>>
    [] box.t = "array" /\ sought.t = "array" ->
         <<\A i \in DOMAIN sought.a : \E j \in DOMAIN box.a :
              contains_value(box.a[j], sought.a[i]) = <<TRUE>>>>
    [] box.t = "object" /\ sought.t = "object" ->
         FoldLeft(LAMBDA sofar, f :
                    IF sofar # <<TRUE>> THEN sofar
                    ELSE IF ~Has(box.o, f.k) THEN <<FALSE>> ELSE contains_value(Get(box.o, f.k), f.v),
                  <<TRUE>>, sought.o)
    [] box.t = sought.t /\ box.t \in {"null", "boolean", "number"} -> <<box = sought>>
    [] OTHER -> Bad
Contained(box, sought) == Map(contains_value(box, sought), Bool)

subslice_indices(input, sought) ==
  IF sought = <<>> THEN <<>>
  ELSE SelectSeq([i \in 1..Len(input) |-> i - 1],
                 LAMBDA i : IsPrefix(sought, SubSeq(input, i + 1, Len(input))))
find_indices(v, sought) ==
  CASE v.t = "string" /\ sought.t = "string" -> <<subslice_indices(v.s, sought.s)>>
    [] IsArray(v) /\ IsArray(sought) -> <<subslice_indices(v.a, sought.a)>>
    [] IsArray(v) /\ ~IsArray(sought) ->
         <<SelectSeq([i \in 1..Len(v.a) |-> i - 1], LAMBDA i : v.a[i + 1] = sought)>>
    [] OTHER -> Bad
\* Of what was found: all, the first or the last position.
search_result(v, sought, which) ==
  LET at == find_indices(v, sought)
  IN  CASE v = Null -> <<Null>>
        [] v # Null /\ at = Bad -> Bad
        [] OTHER -> <<CASE which = "indices" -> Arr(Map(at[1], Num))
                        [] which = "index"   -> IF at[1] = <<>> THEN Null ELSE Num(Head(at[1]))
                        [] which = "rindex"  -> IF at[1] = <<>> THEN Null ELSE Num(Last(at[1]))>>

TRUE_TEXT == <<116, 114, 117, 101>>
FALSE_TEXT == <<102, 97, 108, 115, 101>>
evaluate_join(v, separator) ==
  LET Text(x) == CASE x.t = "boolean" -> IF x.b THEN TRUE_TEXT ELSE FALSE_TEXT
                   [] x.t = "null"    -> <<>>
                   [] x.t = "number"  -> Numeral(x.n)
                   [] x.t = "string"  -> x.s
  IN  IF ~IsArray(v) \/ \E i \in DOMAIN v.a : IsBox(v.a[i]) THEN Bad
      ELSE <<Str(FlattenSeq([i \in 1..Len(v.a) |->
                               (IF i = 1 THEN <<>> ELSE separator) \o Text(v.a[i])]))>>

\* The parts of s between the separators that end before it, left to right.
RECURSIVE Parts(_, _)
Parts(s, separator) ==
  LET at == subslice_indices(s, separator)
  IN  IF at = <<>> THEN <<s>>
      ELSE <<SubSeq(s, 1, Head(at))>>
             \o Parts(SubSeq(s, Head(at) + Len(separator) + 1, Len(s)), separator)
evaluate_split(v, separator) ==
  IF v.t # "string" THEN Bad
  ELSE <<Arr(IF separator = <<>> THEN Map(v.s, LAMBDA c : Str(<<c>>)) ELSE Map(Parts(v.s, separator), Str))>>

-----------------------------------------------------------------------------
(* Builtins that run their arguments *)

OnlyValue(r) == IF Len(r.vs) = 1 THEN r ELSE Fail(r.w)
single_value(x, v, env, w) == Then(eval(x, v, env, w), OnlyValue)
single_number(x, v, env, w) ==
  Then(single_value(x, v, env, w), LAMBDA r : IF r.vs[1].t = "number" THEN r ELSE Fail(r.w))
single_string_arg(x, v, env, w) ==
  Then(single_value(x, v, env, w), LAMBDA r : IF r.vs[1].t = "string" THEN r ELSE Fail(r.w))

\* Every element with the array of what the filter produces from it.
keyed_array_values(v, x, env, w) ==
  IF ~IsArray(v) THEN Fail(w)
  ELSE Each(v.a, w, LAMBDA e, w1 :
         Then(eval(x, e, env, w1), LAMBDA r : Ok(<<Pairing(Arr(r.vs), e)>>, r.w)))

Groups(sorted) ==
  FoldLeft(LAMBDA gs, x :
             IF gs # <<>> /\ SameJson(Last(gs).key, x.key)
             THEN Append(Front(gs), [key |-> x.key, of |-> Append(Last(gs).of, x.val)])
             ELSE Append(gs, [key |-> x.key, of |-> <<x.val>>]),
           <<>>, sorted)
evaluate_group_by(keyed) == Arr(Map(Groups(SortKeyed(keyed, ByOrdering)), LAMBDA g : Arr(g.of)))
evaluate_sort_by(keyed) == Values(SortKeyed(keyed, ByOrdering))
evaluate_min_max_by(keyed, max) == IF max THEN Greatest(keyed, ByOrdering) ELSE Least(keyed, ByOrdering)
call_unique_by(keyed) == Values(Deduped(SortKeyed(keyed, ByArrays)))

call_map(x, v, env, w) ==
  IF ~IsArray(v) THEN Fail(w)
  ELSE Then(Each(v.a, w, LAMBDA e, w1 : eval(x, e, env, w1)), LAMBDA r : Ok(<<Arr(r.vs)>>, r.w))

\* A value for every value an argument produces.
ForEveryArgument(x, v, env, w, F(_)) ==
  Then(eval(x, v, env, w), LAMBDA r : SettleAll(Collect(Map(r.vs, F)), r.w))

call_all_any(args, v, env, w, all) ==
  LET generated == IF Len(args) = 2 THEN eval(args[1], v, env, w)
                   ELSE IF IsArray(v) THEN Ok(v.a, w) ELSE Fail(w)
      tested == Then(generated, LAMBDA g :
                  IF args = <<>> THEN g
                  ELSE Each(g.vs, g.w, LAMBDA e, w1 : eval(Last(args), e, env, w1)))
  IN  Then(tested, LAMBDA r :
        Ok(<<Bool(IF all THEN \A i \in DOMAIN r.vs : is_truthy(r.vs[i])
                  ELSE \E i \in DOMAIN r.vs : is_truthy(r.vs[i]))>>, r.w))

call_first(v) == CASE v = Null -> <<Null>> [] IsArray(v) -> <<Nth(v.a, 1)>> [] OTHER -> Bad
call_last(v)  == CASE v = Null -> <<Null>> [] IsArray(v) -> <<Nth(v.a, Len(v.a))>> [] OTHER -> Bad

call_nth(args, v, env, w) ==
  Then(single_number(args[1], v, env, w), LAMBDA n :
    LET i == n.vs[1].n
    IN  IF Len(args) = 1
        THEN CASE v = Null   -> Ok(<<Null>>, n.w)
               [] IsArray(v) -> Ok(<<Nth(v.a, Wrapped(i, Len(v.a)) + 1)>>, n.w)
               [] OTHER      -> Fail(n.w)
        ELSE IF i < 0 THEN Fail(n.w)
        ELSE Then(eval(args[2], v, env, n.w), LAMBDA r : Ok(Slot(r.vs, i + 1), r.w)))

call_limit(args, v, env, w) ==
  Then(single_number(args[1], v, env, w), LAMBDA n :
    Then(eval(args[2], v, env, n.w), LAMBDA r :
      IF n.vs[1].n < 0 \/ n.vs[1].n > Len(r.vs) THEN r ELSE Ok(SubSeq(r.vs, 1, n.vs[1].n), r.w)))

call_flatten(args, v, env, w) ==
  Then(IF args = <<>> THEN Ok(<<Num(-1)>>, w) ELSE single_number(args[1], v, env, w), LAMBDA d :
    IF ~IsArray(v) \/ (args # <<>> /\ d.vs[1].n < 0) THEN Fail(d.w)
    ELSE Ok(<<Arr(flatten_values(v.a, d.vs[1].n))>>, d.w))

\* The numbers from current towards end, and Bad past the limit.
RECURSIVE append_range(_, _, _, _)
append_range(current, end, step, output) ==
  CASE Len(output) > MAX_PRODUCED -> Bad
    [] Len(output) <= MAX_PRODUCED /\ ((step > 0 /\ current < end) \/ (step < 0 /\ current > end)) ->
         append_range(current + step, end, step, Append(output, Num(current)))
    [] OTHER -> <<output>>
call_range(args, v, env, w) ==
  Then(Each(args, w, LAMBDA x, w1 :
         Then(eval(x, v, env, w1), LAMBDA r :
           IF \E i \in DOMAIN r.vs : r.vs[i].t # "number" THEN Fail(r.w)
           ELSE Ok(<<Map(r.vs, LAMBDA n : n.n)>>, r.w))),
       LAMBDA ns :
         LET starts == IF Len(args) = 1 THEN <<0>> ELSE ns.vs[1]
             ends   == ns.vs[IF Len(args) = 1 THEN 1 ELSE 2]
             steps  == IF Len(args) = 3 THEN ns.vs[3] ELSE <<1>>
             output == FoldLeft(LAMBDA out, p :
                                  IF out = Bad THEN Bad ELSE append_range(p[1][1], p[1][2], p[2], out[1]),
                                <<<<>>>>, Pairs(Pairs(starts, ends), steps))
         IN  SettleAll(output, ns.w))

\* until and while: the pending values are a stack; the last one goes first.
RECURSIVE iterate_condition(_, _, _, _, _, _)
iterate_condition(args, pending, rounds, whileTrue, env, acc) ==
  IF pending = <<>> \/ Failed(acc) THEN Strict(acc)
  ELSE LET v    == Last(pending)
           test == eval(args[1], v, env, acc.w)
           true == \E i \in DOMAIN test.vs : is_truthy(test.vs[i])
           next == IF true = whileTrue THEN eval(args[2], v, env, test.w) ELSE Ok(<<>>, test.w)
           kept == IF true THEN Append(acc.vs, v) ELSE acc.vs
       IN  CASE Failed(test) -> test
             [] ~Failed(test) /\ (Failed(next) \/ rounds < MAX_PRODUCED) ->
                  iterate_condition(args, Front(pending) \o Reverse(next.vs), rounds + 1, whileTrue,
                                    env, [next EXCEPT !.vs = kept])
             [] OTHER -> Fail(next.w)

RECURSIVE recurse_values(_, _, _, _, _)
\* A child is followed once for every truthy output of the condition.
recurse_values(v, filter, condition, env, w) ==
  IF ~CanEnter(w) THEN Exhausted(w)
  ELSE LET children == IF filter = <<>> THEN Ok(Map(MembersOrNone(v), LAMBDA m : m.v), Entered(w))
                       ELSE eval(filter[1], v, env, Entered(w))
           Below(child, w1) ==
             IF condition = <<>> THEN recurse_values(child, filter, condition, env, w1)
             ELSE Then(eval(condition[1], child, env, w1), LAMBDA ks :
                    Each(ks.vs, ks.w, LAMBDA k, w2 :
                      IF is_truthy(k) THEN recurse_values(child, filter, condition, env, w2)
                      ELSE Ok(<<>>, w2)))
       IN  Left(Then(children, LAMBDA cs :
                  Then(Each(cs.vs, cs.w, Below), LAMBDA r : Ok(<<v>> \o r.vs, r.w))), w)

PathValue(path) == Arr(path)
call_paths(args, v, env, w) ==
  Then(descendants(v, env, w), LAMBDA ds :
    Each(SelectSeq(ds.vs, LAMBDA d : d.path # <<>>), ds.w, LAMBDA d, w1 :
      Then(keeps(args, d.v, env, w1), LAMBDA k :
        Ok(IF k.vs = <<Bool(TRUE)>> THEN <<PathValue(d.path)>> ELSE <<>>, k.w))))
call_leaf_paths(v, env, w) ==
  Then(descendants(v, env, w), LAMBDA ds :
    Ok(Map(SelectSeq(ds.vs, LAMBDA d : d.path # <<>> /\ ~IsBox(d.v)),
           LAMBDA d : PathValue(d.path)), ds.w))
call_path(args, v, env, w) ==
  Then(locate(args[1], v, env, w), LAMBDA ls : Ok(Map(ls.vs, LAMBDA l : PathValue(l.path)), ls.w))
call_getpath(args, v, env, w) ==
  ForEveryArgument(args[1], v, env, w, LAMBDA p :
    IF components(p) = Bad THEN Bad ELSE get_path(v, p.a))
call_setpath(args, v, env, w) ==
  Then(eval(args[1], v, env, w), LAMBDA ps :
    Each(ps.vs, ps.w, LAMBDA p, w1 :
      IF components(p) = Bad THEN Fail(w1)
      ELSE ForEveryArgument(args[2], v, env, w1, LAMBDA r : set_path(v, p.a, r))))
call_delpaths(args, v, env, w) ==
  ForEveryArgument(args[1], v, env, w, LAMBDA ps :
    LET requested == IF components(ps) = Bad THEN Bad ELSE Collect(Map(ps.a, components))
    IN  IF requested = Bad THEN Bad ELSE delete_all(v, requested[1]))
call_del(args, v, env, w) ==
  Then(locate(args[1], v, env, w), LAMBDA ls : Settle(delete_all(v, Map(ls.vs, LAMBDA l : l.path)), ls.w))
call_pick(args, v, env, w) ==
  Then(locate(args[1], v, env, w), LAMBDA ls :
    Settle(FoldLeft(LAMBDA picked, l :
                      LET at == get_path(v, l.path)
                      IN  IF picked = Bad \/ at = Bad THEN Bad ELSE set_path(picked[1], l.path, at[1]),
                    <<Null>>, ls.vs), ls.w))

\* A [path, leaf] for every leaf and a [path] behind every container's last child.
RECURSIVE stream_events(_, _, _)
stream_events(path, v, w) ==
  LET below == MembersOrNone(v)
  IN  IF ~CanEnter(w) THEN Exhausted(w)
      ELSE IF below = <<>> THEN Ok(<<Arr(<<PathValue(path), v>>)>>, w)
      ELSE Left(Then(Each(below, Entered(w), LAMBDA m, w1 : stream_events(Append(path, m.c), m.v, w1)),
                     LAMBDA r : Ok(Append(r.vs, Arr(<<PathValue(Append(path, Last(below).c))>>)), r.w)), w)
call_fromstream(args, v, env, w) ==
  LET Take(acc, e) ==
        Then(acc, LAMBDA a :
          LET out == a.vs[1].out  built == a.vs[1].built
              path == IF IsArray(e) /\ e.a # <<>> THEN components(e.a[1]) ELSE Bad
              Next(o, b) == Ok(<<[out |-> o, built |-> b]>>, a.w)
          IN  IF path = Bad THEN Fail(a.w)
              ELSE IF Len(e.a) > 1
              THEN IF path[1] = <<>> THEN Next(Append(out, e.a[2]), built)
                   ELSE LET b == set_path(built, path[1], e.a[2])
                        IN  IF b = Bad THEN Fail(a.w) ELSE Next(out, b[1])
              ELSE IF Len(path[1]) = 1 THEN Next(Append(out, built), Null) ELSE Next(out, built))
  IN  Then(eval(args[1], v, env, w), LAMBDA es :
        Then(FoldLeft(Take, Ok(<<[out |-> <<>>, built |-> Null]>>, es.w), es.vs),
             LAMBDA r : Ok(r.vs[1].out, r.w)))

call_with_entries(args, v, env, w) ==
  LET entries == evaluate_to_entries(v)
  IN  IF entries = Bad THEN Fail(w)
      ELSE Then(Each(entries[1].a, w, LAMBDA e, w1 : eval(args[1], e, env, w1)), LAMBDA r :
             Settle(evaluate_from_entries(Arr(r.vs)), r.w))

\* Bottom up; an object keeps the first output of each field and drops a
\* field without one.
RECURSIVE walk_value(_, _, _, _)
walk_value(v, x, env, w) ==
  LET walked ==
        CASE v.t = "array" ->
               Then(Each(v.a, w, LAMBDA e, w1 : walk_value(e, x, env, w1)), LAMBDA r : Ok(<<Arr(r.vs)>>, r.w))
          [] v.t = "object" ->
               Then(Each(v.o, w, LAMBDA f, w1 :
                      Then(walk_value(f.v, x, env, w1), LAMBDA r :
                        Ok(Map(Slot(r.vs, 1), LAMBDA y : Field(f.k, y)), r.w))),
                    LAMBDA r : Ok(<<Obj(r.vs)>>, r.w))
          [] OTHER -> Ok(<<v>>, w)
  IN  Then(walked, LAMBDA r : eval(x, r.vs[1], env, r.w))

-----------------------------------------------------------------------------
(* Builtins that talk to the run *)

call_error(args, v, env, w) ==
  IF args = <<>> THEN Raise(encode_error_payload(v), w)
  ELSE Then(eval(args[1], v, env, w), LAMBDA r :
         IF r.vs = <<>> THEN r ELSE Raise(encode_error_payload(r.vs[1]), r.w))
call_halt_error_status(args, v, env, w) ==
  Then(eval(args[1], v, env, w), LAMBDA r :
    CASE r.vs = <<>> -> r
      [] r.vs # <<>> /\ r.vs[1].t = "number" -> Raise(Halt(r.vs[1].n % 256, v), r.w)
      [] OTHER -> Fail(r.w))
call_input(w) ==
  IF w.rest = <<>> THEN Fail(w) ELSE Settle(Head(w.rest), [w EXCEPT !.rest = Tail(@)])
\* All the rows left, up to the first that cannot be read.
call_inputs(w) ==
  LET bad == SelectInSeq(w.rest, LAMBDA row : row = Bad)
      drawn == [w EXCEPT !.rest = IF bad = 0 THEN <<>> ELSE SubSeq(@, bad + 1, Len(@))]
  IN  IF bad # 0 THEN Fail(drawn) ELSE Ok(Map(w.rest, LAMBDA row : row[1]), drawn)

OfKind(v, kinds, w) == Ok(IF v.t \in kinds THEN <<v>> ELSE <<>>, w)
ALL_KINDS == {"null", "boolean", "number", "string", "array", "object"}

\* The registry: by name and number of arguments (builtins/mod.rs).
builtin(name, args, v, env, w) ==
  LET One(r) == Settle(r, w)
      x == args[1]
      Keyed(F(_)) == Then(keyed_array_values(v, x, env, w), LAMBDA k : Ok(<<F(k.vs)>>, k.w))
      Each1(F(_)) == ForEveryArgument(x, v, env, w, F)
      Text(F(_)) == Then(single_string_arg(x, v, env, w), LAMBDA s : Settle(F(s.vs[1].s), s.w))
      n == Len(args)
  IN CASE
     n = 0 /\ name = "add" -> One(evaluate_add(v))
  [] n = 0 /\ name = "not" -> One(<<Bool(~is_truthy(v))>>)
  [] n = 0 /\ name = "keys" -> One(evaluate_keys(v))
  [] n = 0 /\ name = "keys_unsorted" -> One(call_keys_unsorted(v))
  [] n = 0 /\ name = "length" -> One(evaluate_length(v))
  [] n = 0 /\ name = "to_entries" -> One(evaluate_to_entries(v))
  [] n = 0 /\ name = "from_entries" -> One(evaluate_from_entries(v))
  [] n = 0 /\ name = "unique" -> One(evaluate_unique(v))
  [] n = 0 /\ name = "sort" -> One(call_sort(v))
  [] n = 0 /\ name = "reverse" -> One(call_reverse(v))
  [] n = 0 /\ name \in {"min", "max"} -> One(min_max(v, name = "max"))
  [] n = 0 /\ name = "transpose" -> One(call_transpose(v))
  [] n = 0 /\ name = "first" -> One(call_first(v))
  [] n = 0 /\ name = "last" -> One(call_last(v))
  [] n = 0 /\ name = "toarray" -> One(<<IF IsArray(v) THEN v ELSE Arr(<<v>>)>>)
  [] n = 0 /\ name = "leaf_paths" -> call_leaf_paths(v, env, w)
  [] n = 0 /\ name = "tostream" -> stream_events(<<>>, v, w)
  [] n = 0 /\ name = "halt" -> Raise(Halt(0, Str(<<>>)), w)
  [] n = 0 /\ name = "halt_error" -> Raise(Halt(5, v), w)
  [] n = 0 /\ name = "input" -> call_input(w)
  [] n = 0 /\ name = "inputs" -> call_inputs(w)
  [] n = 0 /\ name = "arrays" -> OfKind(v, {"array"}, w)
  [] n = 0 /\ name = "objects" -> OfKind(v, {"object"}, w)
  [] n = 0 /\ name = "iterables" -> OfKind(v, {"array", "object"}, w)
  [] n = 0 /\ name = "scalars" -> OfKind(v, ALL_KINDS \ {"array", "object"}, w)
  [] n = 0 /\ name = "numbers" -> OfKind(v, {"number"}, w)
  [] n = 0 /\ name = "strings" -> OfKind(v, {"string"}, w)
  [] n = 0 /\ name = "booleans" -> OfKind(v, {"boolean"}, w)
  [] n = 0 /\ name = "nulls" -> OfKind(v, {"null"}, w)
  [] n = 0 /\ name = "values" -> OfKind(v, ALL_KINDS \ {"null"}, w)
  [] n <= 1 /\ name = "error" -> call_error(args, v, env, w)
  [] n <= 1 /\ name = "flatten" -> call_flatten(args, v, env, w)
  [] n <= 1 /\ name = "paths" -> call_paths(args, v, env, w)
  [] n <= 2 /\ name = "recurse" -> recurse_values(v, Slot(args, 1), Slot(args, 2), env, w)
  [] n <= 2 /\ name \in {"all", "any"} -> call_all_any(args, v, env, w, name = "all")
  [] n = 1 /\ name = "select" ->
       Then(eval(x, v, env, w), LAMBDA r : Ok(Map(SelectSeq(r.vs, is_truthy), LAMBDA y : v), r.w))
  [] n = 1 /\ name = "map" -> call_map(x, v, env, w)
  [] n = 1 /\ name = "has" -> Each1(LAMBDA k : evaluate_has(v, k))
  [] n = 1 /\ name = "contains" -> Each1(LAMBDA y : Contained(v, y))
  [] n = 1 /\ name = "inside" -> Each1(LAMBDA y : Contained(y, v))
  [] n = 1 /\ name \in {"indices", "index", "rindex"} -> Each1(LAMBDA y : search_result(v, y, name))
  [] n = 1 /\ name = "join" -> Text(LAMBDA s : evaluate_join(v, s))
  [] n = 1 /\ name = "split" -> Text(LAMBDA s : evaluate_split(v, s))
  [] n = 1 /\ name = "sort_by" -> Keyed(evaluate_sort_by)
  [] n = 1 /\ name = "group_by" -> Keyed(evaluate_group_by)
  [] n = 1 /\ name = "unique_by" -> Keyed(call_unique_by)
  [] n = 1 /\ name \in {"min_by", "max_by"} -> Keyed(LAMBDA k : evaluate_min_max_by(k, name = "max_by"))
  [] n = 1 /\ name = "first" -> Then(eval(x, v, env, w), LAMBDA r : Ok(Slot(r.vs, 1), r.w))
  [] n = 1 /\ name = "last" ->
       Then(eval(x, v, env, w), LAMBDA r : Ok(Slot(r.vs, Len(r.vs)), r.w))
  [] n = 1 /\ name = "path" -> call_path(args, v, env, w)
  [] n = 1 /\ name = "getpath" -> call_getpath(args, v, env, w)
  [] n = 1 /\ name = "del" -> call_del(args, v, env, w)
  [] n = 1 /\ name = "delpaths" -> call_delpaths(args, v, env, w)
  [] n = 1 /\ name = "pick" -> call_pick(args, v, env, w)
  [] n = 1 /\ name = "fromstream" -> call_fromstream(args, v, env, w)
  [] n = 1 /\ name = "walk" -> walk_value(v, x, env, w)
  [] n = 1 /\ name = "with_entries" -> call_with_entries(args, v, env, w)
  [] n = 1 /\ name = "halt_error" -> call_halt_error_status(args, v, env, w)
  [] n \in 1..2 /\ name = "nth" -> call_nth(args, v, env, w)
  [] n \in 1..3 /\ name = "range" -> call_range(args, v, env, w)
  [] n = 2 /\ name = "limit" -> call_limit(args, v, env, w)
  [] n = 2 /\ name = "setpath" -> call_setpath(args, v, env, w)
  [] n = 2 /\ name \in {"until", "while"} ->
       iterate_condition(args, <<v>>, 0, name = "while", env, Ok(<<>>, w))
  [] OTHER -> Fail(w)
=============================================================================
