------------------------------- MODULE McpStdio -------------------------------
(***************************************************************************)
(* One MCP session over standard input and output: serveStdio              *)
(* (packages/toon-rpc-mcp/src/stdio.ts) over McpServer (index.ts).  Lines  *)
(* are answered as their handlers end; too many at once, or a line that is *)
(* too long, end the session behind the answers that are owed.             *)
(*                                                                         *)
(* A line is its number, and what matters of its kind.  Every action is one*)
(* event handler, or what follows one await.                               *)
(***************************************************************************)
EXTENDS Integers, Sequences, FiniteSets, SequencesExt

CONSTANTS
  maxInFlight,  \* limits.maxPendingCalls
  MaxLines,     \* bound: lines of the session
  MaxLinesRead  \* bound: lines one chunk completes

ASSUME McpAssumption ==
  maxInFlight \in Nat /\ MaxLines \in Nat /\ MaxLinesRead \in Nat

\* A feature is any request that the handshake must come before; ping and lines
\* that are no request are answered in any case, and left out.
LineKinds == {"initialize", "feature", "notification", "blank"}

VARIABLES
  lines,        \* the kinds of the lines that were read
  partial,      \* does the buffer hold the beginning of another?
  initialized,  \* McpServer.initialized
  inFlight,     \* the lines whose handlers have not ended, each with its result
  answered,     \* the answers written, in their order
  refusals,     \* refusals written; the first one sets stopped
  stdin,        \* the input: "open", "destroyed", "ended", "closed"
  finishing     \* finish: "no", "waiting", or "done" with the output ended

mcpVars == <<lines, partial, initialized, inFlight, answered, refusals, stdin, finishing>>

McpInit ==
  /\ lines = <<>>
  /\ partial = FALSE
  /\ initialized = FALSE
  /\ inFlight = {}
  /\ answered = <<>>
  /\ refusals = 0
  /\ stdin = "open"
  /\ finishing = "no"

-----------------------------------------------------------------------------
\* A session as far as a chunk has been worked through.
Session == [lines |-> lines, initialized |-> initialized, inFlight |-> inFlight, over |-> FALSE]

\* McpServer.handleMessage up to its first await: the handshake is over when
\* initialize is taken, and a feature asked for before it is refused.
Result(session, kind) ==
  CASE kind = "notification" -> "none"
    [] kind = "feature" /\ ~session.initialized -> "error"
    [] OTHER -> "result"

\* answer(line), or nothing for a blank one, or for one after the refusal.
TakeLine(session, kind) ==
  LET read == [session EXCEPT !.lines = Append(@, kind)]
      pending == [line |-> Len(read.lines), result |-> Result(session, kind)]
  IN  IF session.over THEN session
      ELSE IF kind = "blank" THEN read
      ELSE IF Cardinality(session.inFlight) >= maxInFlight THEN [read EXCEPT !.over = TRUE]
      ELSE [read EXCEPT !.inFlight = @ \cup {pending},
                        !.initialized = @ \/ kind = "initialize"]

\* What stop and finish do to the rest of the state.
stop_keepsReading == refusals' = refusals + 1 /\ UNCHANGED stdin
stop == refusals' = refusals + 1 /\ stdin' = "destroyed"
Leaves(session) ==
  /\ lines' = session.lines
  /\ initialized' = session.initialized
  /\ inFlight' = session.inFlight
finish == finishing' = IF finishing = "no" THEN "waiting" ELSE finishing

\* The lines of a chunk, one after the other.
TakeLines(kinds) ==
  LET taken[i \in 0..Len(kinds)] ==
        IF i = 0 THEN Session ELSE TakeLine(taken[i - 1], kinds[i])
  IN  taken[Len(kinds)]

\* A chunk completes some lines; what is left over may be too long by itself.
Chunk(kinds, rest) ==
  LET session == TakeLines(kinds)
  IN  /\ stdin = "open"
      /\ Len(lines) + Len(kinds) <= MaxLines
      /\ kinds = <<>> => rest # "none"
      /\ Leaves(session)
      /\ partial' = (rest # "none")
      /\ IF session.over \/ rest = "tooLong" THEN stop ELSE UNCHANGED <<refusals, stdin>>
      /\ UNCHANGED <<answered, finishing>>

\* The end of the input takes what is left as a line.
InputEnds(kind) ==
  LET session == IF partial THEN TakeLine(Session, kind) ELSE Session
  IN  /\ stdin = "open"
      /\ partial => Len(lines) < MaxLines
      /\ Leaves(session)
      /\ partial' = FALSE
      /\ IF session.over THEN stop ELSE stdin' = "ended" /\ UNCHANGED refusals
      /\ finish
      /\ UNCHANGED answered

InputCloses ==
  /\ stdin \in {"destroyed", "ended"}
  /\ stdin' = "closed"
  /\ finish
  /\ UNCHANGED <<lines, partial, initialized, inFlight, answered, refusals>>

\* A handler ends, well or with an error, and its answer is written.
HandlerEnds(pending) ==
  /\ pending \in inFlight
  /\ inFlight' = inFlight \ {pending}
  /\ \E result \in {pending.result} \cup (IF pending.result = "result" THEN {"error"} ELSE {}) :
       answered' = IF result = "none" \/ finishing = "done" THEN answered
                   ELSE Append(answered, [line |-> pending.line, result |-> result])
  /\ UNCHANGED <<lines, partial, initialized, refusals, stdin, finishing>>

\* Nothing is in flight any more: the output ends, and serveStdio resolves.
Resolve_atOnce ==
  /\ finishing = "waiting"
  /\ finishing' = "done"
  /\ UNCHANGED <<lines, partial, initialized, inFlight, answered, refusals, stdin>>
Resolve ==
  /\ finishing = "waiting"
  /\ inFlight = {}
  /\ finishing' = "done"
  /\ UNCHANGED <<lines, partial, initialized, inFlight, answered, refusals, stdin>>

McpNext ==
  \/ \E kinds \in BoundedSeq(LineKinds, MaxLinesRead), rest \in {"none", "short", "tooLong"} :
       Chunk(kinds, rest)
  \/ \E kind \in LineKinds : InputEnds(kind)
  \/ InputCloses
  \/ \E pending \in inFlight : HandlerEnds(pending)
  \/ Resolve

McpSpec == McpInit /\ [][McpNext]_mcpVars

\* Handlers end, and Node reports the close of a stream that ended or was destroyed.
McpFairness ==
  /\ WF_mcpVars(InputCloses)
  /\ WF_mcpVars(\E pending \in inFlight : HandlerEnds(pending))
  /\ WF_mcpVars(Resolve)

-----------------------------------------------------------------------------

\* stdio.ts:6-8 and 23: whatever the order in which handlers end, a request that
\* was taken is answered once, well only behind an initialize, and before the
\* output ends; the one over the cap and what follows it are not, and one
\* refusal says so.
McpRequestsAnswered ==
  LET requests == {n \in DOMAIN lines : lines[n] \in {"initialize", "feature"}}
      written == {answered[i].line : i \in DOMAIN answered}
  IN  /\ Cardinality(inFlight) <= maxInFlight /\ refusals <= 1
      /\ Cardinality(written) = Len(answered) /\ written \subseteq requests
      /\ \A i \in DOMAIN answered : answered[i].result = "result" =>
           \E n \in 1..answered[i].line : lines[n] = "initialize"
      /\ finishing = "done" =>
           /\ inFlight = {}
           /\ \/ requests = written
              \/ refusals = 1 /\ requests \ written = {Len(lines)}

\* A session whose input ended, or that was refused, resolves.
McpSessionEnds == (refusals > 0 \/ stdin # "open") ~> (finishing = "done")
=============================================================================
