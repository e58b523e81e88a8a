------------------------------- MODULE TsServer -------------------------------
(***************************************************************************)
(* The TypeScript servers of connections, packages/toon-rpc/src/serve.ts:  *)
(* serveTcp and serveStdio over serveFramedStream, and attachWebSocket,    *)
(* all with a DocumentLane per connection, up to the end of their close(). *)
(*                                                                         *)
(* A document is its number in the order in which its connection accepted  *)
(* them.  stdio and WebSocket serve one connection that is there from the  *)
(* beginning.  Every action is one event handler, or one piece of code up  *)
(* to the next await.                                                      *)
(*                                                                         *)
(* External, from how the code uses it: a Node TCP server is created       *)
(* without allowHalfOpen, so its sockets end their own output when the     *)
(* peer ends its input; a write after that fails.                          *)
(***************************************************************************)
EXTENDS Integers, Sequences, FiniteSets

CONSTANTS
  Peers,        \* the connections ever made
  FirstPeer,    \* the only connection of stdio and WebSocket
  MaxQueued,    \* maxQueuedDocuments
  MaxReceived   \* bound: documents one peer sends

ASSUME ServerAssumption ==
  /\ FirstPeer \in Peers
  /\ MaxQueued \in Nat /\ MaxReceived \in Nat

VARIABLES
  serving,   \* "tcp", "stdio" or "websocket"; fixed
  server,    \* close(): "open", "draining", "destroying", "done"
  conn       \* the connections, as records

serverVars == <<serving, server, conn>>

-----------------------------------------------------------------------------
\* A connection: where its socket stands; the documents its lane accepted and
\* finished; whether the one after these is being written; the answers written
\* and the documents that need none; its two directions; whether finish() was
\* called; and whether something other than an orderly end cut it.
Connection ==
  [stage : {"away", "open", "dying", "gone"},
   accepted : 0..MaxReceived, finished : 0..MaxReceived, writing : BOOLEAN,
   written : Seq(1..MaxReceived), quiet : SUBSET (1..MaxReceived),
   input : {"flowing", "ended"}, output : {"open", "ended"},
   finishing : BOOLEAN, cut : BOOLEAN]

NewConnection(stage) ==
  [stage |-> stage, accepted |-> 0, finished |-> 0, writing |-> FALSE,
   written |-> <<>>, quiet |-> {}, input |-> "flowing", output |-> "open",
   finishing |-> FALSE, cut |-> FALSE]

Streaming == serving # "websocket"
Queued(k) == conn[k].accepted - conn[k].finished   \* DocumentLane.queued
Idle(k) == Queued(k) = 0

ServerTypeOK ==
  /\ serving \in {"tcp", "stdio", "websocket"}
  /\ server \in {"open", "draining", "destroying", "done"}
  /\ conn \in [Peers -> Connection]
  /\ \A k \in Peers : Queued(k) \in 0..MaxQueued

ServerInit ==
  /\ serving \in {"tcp", "stdio", "websocket"}
  /\ server = "open"
  /\ conn = [k \in Peers |->
               NewConnection(IF serving = "tcp" THEN "away"
                             ELSE IF k = FirstPeer THEN "open" ELSE "gone")]

\* destroy, or a WebSocket's close: the socket is gone a little later.
Destroyed(c) == [c EXCEPT !.stage = IF @ = "open" THEN "dying" ELSE @]
Cut(c) == Destroyed([c EXCEPT !.cut = TRUE])

-----------------------------------------------------------------------------
\* What a connection receives.

Accept(k) ==
  /\ serving = "tcp" /\ server = "open"
  /\ conn[k].stage = "away"
  /\ conn' = [conn EXCEPT ![k] = NewConnection("open")]
  /\ UNCHANGED <<serving, server>>

\* A chunk that completes n documents, or a WebSocket message: the lane takes
\* what it has room for, and the first document too many cuts the connection.
\* A WebSocket that is closing still reads.
Accepted(c, n) ==
  IF c.accepted - c.finished + n <= MaxQueued THEN [c EXCEPT !.accepted = @ + n]
  ELSE Cut([c EXCEPT !.accepted = c.finished + MaxQueued])

Reads(k) ==
  /\ server = "open"
  /\ conn[k].input = "flowing"
  /\ conn[k].stage = "open" \/ (~Streaming /\ conn[k].stage = "dying")

Arrive(k, n) ==
  /\ Reads(k)
  /\ Streaming \/ n = 1
  /\ conn[k].accepted + n <= MaxReceived
  /\ conn' = [conn EXCEPT ![k] = Accepted(@, n)]
  /\ UNCHANGED <<serving, server>>

\* A frame the decoder refuses, with all that its chunk completed; a message
\* that is too big; an idle timeout, except on stdio; an error of the socket; or
\* its peer closing it.
Break(k) ==
  /\ conn[k].stage = "open"
  /\ conn' = [conn EXCEPT ![k] = Cut(@)]
  /\ UNCHANGED <<serving, server>>

\* The peer ends its direction.  A paused input does not hear of it.
PeerEnds(k) ==
  /\ Streaming /\ Reads(k)
  /\ conn' = [conn EXCEPT ![k].input = "ended", ![k].finishing = TRUE,
                          ![k].output = IF serving = "tcp" THEN "ended" ELSE @]
  /\ UNCHANGED <<serving, server>>

-----------------------------------------------------------------------------
\* The lane: one document at a time, the next when the one before is finished,
\* whatever became of it and of the connection.

Finished(c) == [c EXCEPT !.finished = @ + 1, !.writing = FALSE]
Current(c) == c.finished + 1

\* A document is done with once it is told, or when nothing is to be told.
Told(c) == Finished([c EXCEPT !.written = Append(@, Current(c))])
Spared(c) == Finished([c EXCEPT !.quiet = @ \cup {Current(c)}])

Writable(c) == c.stage = "open" /\ c.output = "open"

HandleQuietly(k) ==
  /\ Queued(k) > 0 /\ ~conn[k].writing
  /\ conn' = [conn EXCEPT ![k] = Spared(@)]
  /\ UNCHANGED <<serving, server>>

\* The handler has an answer.  A WebSocket takes it at once, or drops it while
\* it closes; a stream writes it, or fails and the lane destroys the connection.
Handle(k) ==
  /\ Queued(k) > 0 /\ ~conn[k].writing
  /\ LET c == conn[k]
     IN  conn' = [conn EXCEPT ![k] =
           IF Streaming THEN IF Writable(c) THEN [c EXCEPT !.writing = TRUE]
                          ELSE Destroyed(Finished(c))
           ELSE IF Writable(c) THEN Told(c) ELSE Finished(c)]
  /\ UNCHANGED <<serving, server>>

\* The handler throws: the lane destroys the connection and goes on.
HandlerFails(k) ==
  /\ Queued(k) > 0 /\ ~conn[k].writing
  /\ conn' = [conn EXCEPT ![k] = Cut(Finished(@))]
  /\ UNCHANGED <<serving, server>>

\* The write of an answer ends: a socket that was destroyed makes it fail.
Written(k, ok) ==
  /\ conn[k].writing
  /\ ok => conn[k].stage = "open"
  /\ conn' = [conn EXCEPT ![k] = IF ok THEN Told(@) ELSE Cut(Finished(@))]
  /\ UNCHANGED <<serving, server>>

-----------------------------------------------------------------------------
\* The end of a connection.

\* finish(): once the lane is idle the output ends.
FinishOutput(k) ==
  /\ conn[k].stage = "open" /\ conn[k].finishing /\ conn[k].output = "open"
  /\ Idle(k)
  /\ conn' = [conn EXCEPT ![k].output = "ended"]
  /\ UNCHANGED <<serving, server>>

\* 'close': of a socket that was destroyed, that its peer closed, or that ended
\* in both directions with nothing left to write.
Gone(k) ==
  /\ \/ conn[k].stage = "dying"
     \/ /\ conn[k].stage = "open" /\ conn[k].input = "ended" /\ conn[k].output = "ended"
        /\ ~conn[k].writing
  /\ conn' = [conn EXCEPT ![k].stage = "gone"]
  /\ UNCHANGED <<serving, server>>

-----------------------------------------------------------------------------
\* close().

CloseServer ==
  /\ server = "open"
  /\ server' = "draining"
  /\ conn' = [k \in Peers |->
                IF Streaming /\ conn[k].stage = "open" THEN [conn[k] EXCEPT !.finishing = TRUE]
                ELSE conn[k]]
  /\ UNCHANGED serving

\* A connection is closed when everything it accepted is answered and flushed.
IsDrained_whenPaused(k) == TRUE
IsDrained(k) ==
  conn[k].stage # "open" \/ (Idle(k) /\ (Streaming => conn[k].output = "ended"))

\* Every TCP connection is destroyed when all are closed or the grace period is
\* over; a WebSocket is closed; standard output is left as it is.
StopAll(stopped) ==
  /\ conn' = IF serving = "stdio" THEN conn ELSE stopped
  /\ server' = IF serving = "tcp" THEN "destroying" ELSE "done"
  /\ UNCHANGED serving

Drained ==
  /\ server = "draining"
  /\ \A k \in Peers : IsDrained(k)
  /\ StopAll([k \in Peers |-> Destroyed(conn[k])])

GraceEnds_waits ==
  /\ server = "draining"
  /\ \A k \in Peers : Idle(k)
  /\ StopAll([k \in Peers |-> IF conn[k].stage = "open" THEN Cut(conn[k]) ELSE conn[k]])
GraceEnds ==
  /\ server = "draining"
  /\ StopAll([k \in Peers |-> IF conn[k].stage = "open" THEN Cut(conn[k]) ELSE conn[k]])

\* net.Server's close() ends when its last connection is gone.
Stopped ==
  /\ server = "destroying"
  /\ \A k \in Peers : conn[k].stage \in {"away", "gone"}
  /\ server' = "done"
  /\ UNCHANGED <<serving, conn>>

-----------------------------------------------------------------------------

ServerNext ==
  \/ \E k \in Peers :
       \/ Accept(k) \/ Break(k) \/ PeerEnds(k)
       \/ \E n \in 1..MaxReceived : Arrive(k, n)
       \/ HandleQuietly(k) \/ Handle(k) \/ HandlerFails(k)
       \/ \E ok \in BOOLEAN : Written(k, ok)
       \/ FinishOutput(k) \/ Gone(k)
  \/ CloseServer \/ Drained \/ GraceEnds \/ Stopped

ServerSpec == ServerInit /\ [][ServerNext]_serverVars

\* The grace period ends, a socket that is destroyed closes, and promises that
\* are settled go on.  Handlers and writes may take for ever.
ServerFairness ==
  /\ WF_serverVars(GraceEnds)
  /\ WF_serverVars(Stopped)
  /\ \A k \in Peers : WF_serverVars(Gone(k))

-----------------------------------------------------------------------------
\* Correctness.

Increasing(s) == \A i, j \in DOMAIN s : i < j => s[i] < s[j]
Tellings(c) == {c.written[i] : i \in DOMAIN c.written}

\* Does Node end the output of this connection behind the code's back?
HalfClosed(k) == serving = "tcp" /\ conn[k].input = "ended"

\* A connection's answers are written one after the other in the order of the
\* documents, each once; while nothing cuts it, every document that was handled
\* has its answer written, and its output only ends, and its server only closes,
\* when every document it accepted was handled.
TsAnswersInOrder ==
  \A k \in Peers :
    /\ Increasing(conn[k].written)
    /\ ~conn[k].cut /\ ~HalfClosed(k) =>
         /\ Tellings(conn[k]) \cup conn[k].quiet = 1..conn[k].finished
         /\ conn[k].output = "ended" => Idle(k)
         /\ serving # "stdio" /\ server \in {"destroying", "done"} => Idle(k)

\* close() ends within its grace period, however long handlers and peers take.
TsServerCloses == (server = "draining") ~> (server = "done")

\* "Ends the output once every received document is answered" (serve.ts:132):
\* a connection that nothing cuts gets every answer, even if its peer has
\* ended its own direction.
TsAnswersWritten ==
  \A k \in Peers :
    ~conn[k].cut => Tellings(conn[k]) \cup conn[k].quiet = 1..conn[k].finished
=============================================================================
