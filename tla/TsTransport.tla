----------------------------- MODULE TsTransport -----------------------------
(***************************************************************************)
(* The receiving side of the TypeScript client transports: DocumentQueue   *)
(* (packages/toon-rpc/src/internal.ts) and what feeds, ends and fails it   *)
(* in tcp.ts, stdio.ts, websocket.ts and sse.ts.  Its consumer is the      *)
(* receive loop of client.ts, which asks for the next document until it is *)
(* told that the stream ended or failed, or until its signal is aborted.   *)
(*                                                                         *)
(* A document is its number in the order in which the peer sent them.  The *)
(* bytes are abstracted to what a chunk does to the decoder: it completes  *)
(* some documents and leaves it at a boundary, inside a frame, or refuses. *)
(* Every action is one event handler or one piece of code up to an await.  *)
(***************************************************************************)
EXTENDS Integers, Sequences

CONSTANTS
  Capacity,     \* maxQueuedDocuments
  MaxArrivals,  \* bound: documents the peer sends
  MaxChunk      \* bound: documents one chunk completes

ASSUME TransportAssumption ==
  Capacity \in Nat /\ MaxArrivals \in Nat /\ MaxChunk \in Nat

VARIABLES
  kind,      \* the transport: "tcp", "stdio", "websocket", "sse"; fixed
  queue,     \* its DocumentQueue, and what the consumer got out of it
  link,      \* the socket, stream or response: "connecting", "refused", "open", "dying", "gone"
  arrived,   \* how many documents came in
  tail,      \* FrameDecoder: "whole", "partial", or "poisoned" by a violation
  broken,    \* the transport's own failure, which send reports
  aborted,   \* the signal the consumer passed to receive
  closed     \* close() was called

transportVars == <<kind, queue, link, arrived, tail, broken, aborted, closed>>

Framed == kind \in {"tcp", "stdio"}

DocumentQueue ==
  [items : Seq(1..MaxArrivals), waiter : BOOLEAN, ended : BOOLEAN, failure : BOOLEAN,
   taken : Seq(1..MaxArrivals), outcome : {"open", "done", "failed"}]

TransportTypeOK ==
  /\ kind \in {"tcp", "stdio", "websocket", "sse"}
  /\ queue \in DocumentQueue
  /\ Len(queue.items) <= Capacity
  /\ link \in {"connecting", "refused", "open", "dying", "gone"}
  /\ arrived \in 0..MaxArrivals
  /\ tail \in {"whole", "partial", "poisoned"}
  /\ broken \in BOOLEAN /\ aborted \in BOOLEAN /\ closed \in BOOLEAN

TransportInit ==
  /\ kind \in {"tcp", "stdio", "websocket", "sse"}
  /\ queue = [items |-> <<>>, waiter |-> FALSE, ended |-> FALSE, failure |-> FALSE,
              taken |-> <<>>, outcome |-> "open"]
  /\ link = "connecting"
  /\ arrived = 0
  /\ tail = "whole"
  /\ broken = FALSE
  /\ aborted = FALSE
  /\ closed = FALSE

-----------------------------------------------------------------------------
\* DocumentQueue.  A waiter that is answered waits no more.

Answered(q, outcome) ==
  IF q.waiter /\ q.items = <<>> THEN [q EXCEPT !.waiter = FALSE, !.outcome = outcome] ELSE q

\* end() and fail(): whichever comes first decides, and what is queued stays.
Ended(q) ==
  IF q.ended THEN q ELSE Answered([q EXCEPT !.ended = TRUE], "done")
Failed_forgetsWaiter(q) ==
  IF q.ended THEN q ELSE [q EXCEPT !.ended = TRUE, !.failure = TRUE]
Failed(q) ==
  IF q.ended THEN q
  ELSE Answered([q EXCEPT !.ended = TRUE, !.failure = TRUE], "failed")

Pushed_dropsOverflow(q, document) ==
  IF q.ended THEN q
  ELSE IF q.waiter THEN [q EXCEPT !.waiter = FALSE, !.taken = Append(@, document)]
  ELSE IF Len(q.items) >= Capacity THEN q
  ELSE [q EXCEPT !.items = Append(@, document)]
Pushed(q, document) ==
  IF q.ended THEN q
  ELSE IF q.waiter THEN [q EXCEPT !.waiter = FALSE, !.taken = Append(@, document)]
  ELSE IF Len(q.items) >= Capacity THEN Failed(q)
  ELSE [q EXCEPT !.items = Append(@, document)]

\* The documents a chunk or a message completes, one push after the other.
PushedAll(q, n) ==
  LET pushed[i \in 0..n] == IF i = 0 THEN q ELSE Pushed(pushed[i - 1], arrived + i)
  IN  pushed[n]

\* next(): an aborted signal comes first, then what is queued, then the end.
AskedNext(q) ==
  IF aborted THEN [q EXCEPT !.outcome = "done"]
  ELSE IF q.items # <<>> THEN [q EXCEPT !.items = Tail(@), !.taken = Append(@, Head(q.items))]
  ELSE IF q.failure THEN [q EXCEPT !.outcome = "failed"]
  ELSE IF q.ended THEN [q EXCEPT !.outcome = "done"]
  ELSE [q EXCEPT !.waiter = TRUE]

\* The receive loop starts when the transport is open, and asks again once it has
\* processed what it got.  Other users of a transport may also start it after the
\* connection reported an error.
Consume ==
  /\ link \notin {"connecting", "refused"}
  /\ queue.outcome = "open" /\ ~queue.waiter
  /\ queue' = AskedNext(queue)
  /\ UNCHANGED <<kind, link, arrived, tail, broken, aborted, closed>>

Abort ==
  /\ ~aborted
  /\ aborted' = TRUE
  /\ queue' = IF queue.waiter THEN [queue EXCEPT !.waiter = FALSE, !.outcome = "done"] ELSE queue
  /\ UNCHANGED <<kind, link, arrived, tail, broken, closed>>

-----------------------------------------------------------------------------
\* Connecting.  A socket that reports an error fails its queue, too; a socket
\* that cannot be made and an event stream that is refused only fail open(); a
\* WebSocket that closes before it is open also ends the queue.

Connected ==
  /\ link = "connecting" /\ ~closed
  /\ link' = "open"
  /\ UNCHANGED <<kind, queue, arrived, tail, broken, aborted, closed>>

ConnectFails ==
  /\ link = "connecting" /\ kind # "stdio"
  /\ \/ link' = "refused" /\ UNCHANGED <<queue, broken>>
     \/ kind # "sse" /\ link' = "dying" /\ queue' = Failed(queue) /\ broken' = TRUE
     \/ kind = "websocket" /\ link' = "gone" /\ queue' = Ended(queue) /\ UNCHANGED broken
  /\ UNCHANGED <<kind, arrived, tail, aborted, closed>>

-----------------------------------------------------------------------------
\* What comes in.

\* A transport fails; an event stream that was closed only ends.
Fails(q) ==
  LET ends == kind = "sse" /\ closed
  IN  /\ queue' = IF ends THEN Ended(q) ELSE Failed(q)
      /\ broken' = (broken \/ ~ends)

\* A chunk of a byte stream.  When the decoder refuses it, the documents it had
\* completed before are lost with it, and a TCP socket is destroyed; standard
\* input goes on, and is refused again.
Data(n, end) ==
  /\ Framed /\ link = "open"
  /\ n > 0 \/ end # "whole"
  /\ arrived + n <= MaxArrivals
  /\ arrived' = arrived + n
  /\ IF tail = "poisoned" \/ end = "poisoned"
     THEN /\ tail' = "poisoned"
          /\ Fails(queue)
          /\ link' = IF kind = "tcp" THEN "dying" ELSE link
     ELSE tail' = end /\ queue' = PushedAll(queue, n) /\ UNCHANGED <<broken, link>>
  /\ UNCHANGED <<kind, aborted, closed>>

\* A WebSocket message arrives even while the socket is closing.  One that is
\* too big, or neither text nor binary, fails the stream.
Message(good) ==
  /\ kind = "websocket" /\ link \in {"open", "dying"}
  /\ arrived < MaxArrivals
  /\ arrived' = arrived + 1
  /\ IF good THEN queue' = PushedAll(queue, 1) /\ UNCHANGED <<broken, link>>
     ELSE Fails(queue) /\ link' = "dying"
  /\ UNCHANGED <<kind, tail, aborted, closed>>

\* A piece of an event stream: its complete events, then perhaps one that is too
\* big, which fails the queue behind them and ends the pump.
Events(n, tooBig) ==
  /\ kind = "sse" /\ link = "open"
  /\ n > 0 \/ tooBig
  /\ arrived + n <= MaxArrivals
  /\ arrived' = arrived + n
  /\ IF tooBig THEN Fails(PushedAll(queue, n)) /\ link' = "gone"
     ELSE queue' = PushedAll(queue, n) /\ UNCHANGED <<broken, link>>
  /\ UNCHANGED <<kind, tail, aborted, closed>>

-----------------------------------------------------------------------------
\* How it ends.

\* The 'error' event, or a read of the event stream that rejects.
LinkFails ==
  /\ link = "open"
  /\ Fails(queue)
  /\ link' = IF kind = "sse" THEN "gone" ELSE "dying"
  /\ UNCHANGED <<kind, arrived, tail, aborted, closed>>

\* The 'close' event, the end of standard input, or the end of the event stream.
LinkEnds ==
  /\ link \in {"open", "dying"}
  /\ link' = "gone"
  /\ IF Framed /\ ~broken /\ tail # "whole" THEN Fails(queue)
     ELSE queue' = Ended(queue) /\ UNCHANGED broken
  /\ UNCHANGED <<kind, arrived, tail, aborted, closed>>

\* close(): the queue ends first, then the connection; standard input is only
\* paused, and an event stream's next read rejects.
CloseTransport ==
  /\ ~closed
  /\ closed' = TRUE
  /\ queue' = Ended(queue)
  /\ link' = CASE link \in {"refused", "gone"} -> link
               [] kind \in {"tcp", "websocket"} -> "dying"
               [] kind = "stdio" \/ link = "connecting" -> "gone"
               [] OTHER -> link
  /\ UNCHANGED <<kind, arrived, tail, broken, aborted>>

-----------------------------------------------------------------------------

TransportNext ==
  \/ Consume \/ Abort
  \/ Connected \/ ConnectFails
  \/ \E n \in 0..MaxChunk, end \in {"whole", "partial", "poisoned"} : Data(n, end)
  \/ \E good \in BOOLEAN : Message(good)
  \/ \E n \in 0..MaxChunk, tooBig \in BOOLEAN : Events(n, tooBig)
  \/ LinkFails \/ LinkEnds \/ CloseTransport

TransportSpec == TransportInit /\ [][TransportNext]_transportVars

\* The receive loop goes on as long as it gets documents.
TransportFairness == WF_transportVars(Consume)

-----------------------------------------------------------------------------
\* Correctness.

\* The consumer gets the documents in their order, from the first one on and
\* without a gap, whatever failed behind them; unless it gave up itself it is
\* told of the end or the failure after everything that was queued, and of an
\* end only when everything that came in was delivered.
TsStreamInOrder ==
  /\ \A i \in DOMAIN queue.taken : queue.taken[i] = i
  /\ queue.outcome # "open" /\ ~aborted => queue.items = <<>>
  /\ queue.outcome = "done" /\ ~aborted /\ ~closed =>
       Len(queue.taken) = arrived /\ tail = "whole"

\* A receive loop is told when its transport failed, ended or was closed, and
\* when its signal was aborted: it never waits on a stream that is over.
TsStreamEnds ==
  (/\ link \notin {"connecting", "refused"}
   /\ link = "gone" \/ queue.ended \/ broken \/ aborted) ~> queue.outcome # "open"
=============================================================================
