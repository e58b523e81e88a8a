------------------------------- MODULE TqRun --------------------------------
(***************************************************************************)
(* One run of tq over a stream of rows (run_toonl and run_raw_input in     *)
(* crates/tq/src/cli/mod.rs).  The row loop and the filter's own `input`   *)
(* and `inputs` draw from one reader, a filter runs with a fresh           *)
(* evaluation budget for every document, and nothing is printed before the *)
(* run ends: a run is a function of its filter, mode and rows.             *)
(***************************************************************************)
EXTENDS TqEval

\* jq's exit status under -e.
output_exit_code(vs) ==
  IF vs = <<>> THEN 4 ELSE IF is_truthy(Last(vs)) THEN 0 ELSE 1
finish(vs) == [how |-> "printed", out |-> vs, code |-> output_exit_code(vs)]
\* A halt prints what was produced before; an error prints nothing.
halted(err, vs) ==
  IF is_halt(err) THEN [how |-> "halted", out |-> vs, code |-> err.code]
  ELSE [how |-> "failed", out |-> <<>>, code |-> 1]

evaluate_reading(filter, document, left) == eval(filter, document, BaseEnv(<<>>), Fresh(left))

\* The document runs through the filter and the run is over.
evaluate_row(filter, document, left) ==
  LET r == evaluate_reading(filter, document, left)
  IN  IF Failed(r) THEN halted(r.err, <<>>) ELSE finish(r.vs)

RECURSIVE read_rows(_, _, _)
read_rows_forgets(filter, unread, values) ==
  IF unread = <<>> THEN finish(values)
  ELSE IF Head(unread) = Bad THEN halted(Message, <<>>)
  ELSE LET r == evaluate_reading(filter, Head(unread)[1], Tail(unread))
       IN  IF Failed(r) THEN halted(r.err, values) ELSE read_rows(filter, r.w.rest, r.vs)
\* The row loop: a row, and what the filter drew with it, is behind the reader.
read_rows(filter, unread, values) ==
  IF unread = <<>> THEN finish(values)
  ELSE IF Head(unread) = Bad THEN halted(Message, <<>>)
  ELSE LET r == evaluate_reading(filter, Head(unread)[1], Tail(unread))
       IN  IF Failed(r) THEN halted(r.err, values) ELSE read_rows(filter, r.w.rest, values \o r.vs)
slurp(filter, rows) ==
  LET all == call_inputs(Fresh(rows))
  IN  IF Failed(all) THEN halted(all.err, <<>>) ELSE evaluate_row(filter, Arr(all.vs), <<>>)

\* How a run ends: the mode is "rows", "slurp" (-s) or "null" (-n).
run_toonl(mode, filter, rows) ==
  CASE mode = "rows"  -> read_rows(filter, rows, <<>>)
    [] mode = "slurp" -> slurp(filter, rows)
    [] mode = "null"  -> evaluate_row(filter, Null, rows)
=============================================================================
