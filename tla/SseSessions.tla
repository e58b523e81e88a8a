----------------------------- MODULE SseSessions -----------------------------
(***************************************************************************)
(* The sessions of the SSE server, crates/reddb-io-toon-rpc-sse/src/lib.rs:*)
(* GET opens an event stream under a session the client names, POST finds  *)
(* the stream of its session and puts its response into the stream's queue.*)
(*                                                                         *)
(* The table is behind a mutex; streams and POSTs are polled by several    *)
(* threads, and a client may go away at any await.  A stream dropped by    *)
(* hyper drops its receiver first and its guard after it.                  *)
(***************************************************************************)
EXTENDS Naturals, Sequences, FiniteSets

CONSTANTS
  Streams,     \* GET requests that may be made
  Posts,       \* POST requests that may be made
  Sessions,    \* the sessions clients may name
  EventQueue,  \* event_queue
  ReuseNames,  \* may a client name a session that was named before?
  NoStream, NoSession

ASSUME SessionAssumption ==
  /\ EventQueue \in Nat \ {0}
  /\ ReuseNames \in BOOLEAN
  /\ NoStream \notin Streams
  /\ NoSession \notin Sessions

VARIABLES
  sessions,   \* the stream each session has in the table
  stream,     \* where each stream stands
  session,    \* the session it was opened for
  queue,      \* the POSTs whose responses are in its channel
  delivered,  \* the POSTs whose responses its client got
  told,       \* streams that close_sessions took out of the table
  post,       \* where each POST stands
  found,      \* the stream whose sender it cloned
  ack         \* its HTTP status

streamVars == <<stream, session, queue, delivered>>
postVars == <<post, found, ack>>
sseVars == <<sessions, streamVars, told, postVars>>

SseTypeOK ==
  /\ sessions \in [Sessions -> Streams \cup {NoStream}]
  /\ stream \in [Streams -> {"idle", "refused", "open", "leaving", "gone"}]
  /\ session \in [Streams -> Sessions \cup {NoSession}]
  /\ queue \in [Streams -> Seq(Posts)]
  /\ delivered \in [Streams -> Seq(Posts)]
  /\ told \subseteq Streams
  /\ post \in [Posts -> {"idle", "reading", "answering", "done"}]
  /\ found \in [Posts -> Streams \cup {NoStream}]
  /\ ack \in [Posts -> {"none", "accepted", "silent", "missing", "bad", "gone", "dropped"}]

SseInit ==
  /\ sessions = [n \in Sessions |-> NoStream]
  /\ stream = [s \in Streams |-> "idle"]
  /\ session = [s \in Streams |-> NoSession]
  /\ queue = [s \in Streams |-> <<>>]
  /\ delivered = [s \in Streams |-> <<>>]
  /\ told = {}
  /\ post = [p \in Posts |-> "idle"]
  /\ found = [p \in Posts |-> NoStream]
  /\ ack = [p \in Posts |-> "none"]

-----------------------------------------------------------------------------
\* GET: the event stream.

\* SseTransport draws a fresh session for every stream.
MayName(n) == ReuseNames \/ \A s \in Streams : session[s] # n

OpenStream(s, n) ==
  /\ stream[s] = "idle"
  /\ MayName(n)
  /\ session' = [session EXCEPT ![s] = n]
  /\ IF sessions[n] = NoStream
     THEN /\ sessions' = [sessions EXCEPT ![n] = s]
          /\ stream' = [stream EXCEPT ![s] = "open"]
     ELSE /\ stream' = [stream EXCEPT ![s] = "refused"]
          /\ UNCHANGED sessions
  /\ UNCHANGED <<queue, delivered, told, postVars>>

DeliverEvent(s) ==
  /\ stream[s] = "open"
  /\ queue[s] # <<>>
  /\ delivered' = [delivered EXCEPT ![s] = Append(@, Head(queue[s]))]
  /\ queue' = [queue EXCEPT ![s] = Tail(@)]
  /\ UNCHANGED <<sessions, stream, session, told, postVars>>

\* Somebody still holds a sender: the table, or a POST that is not over.
HasSender(s) ==
  \/ \E n \in Sessions : sessions[n] = s
  \/ \E p \in Posts : found[p] = s /\ post[p] # "done"

DropReceiver(s) ==
  /\ stream[s] = "open"
  /\ stream' = [stream EXCEPT ![s] = "leaving"]
  /\ queue' = [queue EXCEPT ![s] = <<>>]
  /\ UNCHANGED <<sessions, session, delivered, told, postVars>>

\* recv finds the queue empty and every sender gone: the stream ends.
EndStream(s) ==
  /\ queue[s] = <<>>
  /\ ~HasSender(s)
  /\ DropReceiver(s)

\* The client went away.
LoseStream(s) == DropReceiver(s)

\* SessionGuard::drop removes whatever its session has.
ForgetSession(s) == sessions' = [sessions EXCEPT ![session[s]] = NoStream]

DropGuard(s) ==
  /\ stream[s] = "leaving"
  /\ ForgetSession(s)
  /\ stream' = [stream EXCEPT ![s] = "gone"]
  /\ UNCHANGED <<session, queue, delivered, told, postVars>>

\* close_sessions: the server is shutting down, or the program says so.
CloseSessions_keepsEntries ==
  /\ \E n \in Sessions : sessions[n] # NoStream
  /\ told' = told \cup {s \in Streams : \E n \in Sessions : sessions[n] = s}
  /\ UNCHANGED <<sessions, streamVars, postVars>>
CloseSessions ==
  /\ \E n \in Sessions : sessions[n] # NoStream
  /\ told' = told \cup {s \in Streams : \E n \in Sessions : sessions[n] = s}
  /\ sessions' = [n \in Sessions |-> NoStream]
  /\ UNCHANGED <<streamVars, postVars>>

-----------------------------------------------------------------------------
\* POST: one document for the session's stream.

FinishPost(p, status) ==
  /\ post' = [post EXCEPT ![p] = "done"]
  /\ ack' = [ack EXCEPT ![p] = status]
  /\ UNCHANGED found

FindStream(p, n) ==
  /\ post[p] = "idle"
  /\ IF sessions[n] = NoStream
     THEN FinishPost(p, "missing")
     ELSE /\ found' = [found EXCEPT ![p] = sessions[n]]
          /\ post' = [post EXCEPT ![p] = "reading"]
          /\ UNCHANGED ack
  /\ UNCHANGED <<sessions, streamVars, told>>

\* The body is read and dispatched; a document may have no response.
ReadBody(p) ==
  /\ post[p] = "reading"
  /\ \/ post' = [post EXCEPT ![p] = "answering"] /\ UNCHANGED <<found, ack>>
     \/ FinishPost(p, "silent")
     \/ FinishPost(p, "bad")
  /\ UNCHANGED <<sessions, streamVars, told>>

\* The response waits for room in the queue, or learns that the stream is gone.
SendEvent_dropsWhenFull(p) ==
  /\ post[p] = "answering"
  /\ IF stream[found[p]] = "open"
     THEN /\ queue' = IF Len(queue[found[p]]) < EventQueue
                      THEN [queue EXCEPT ![found[p]] = Append(@, p)] ELSE queue
          /\ FinishPost(p, "accepted")
     ELSE /\ FinishPost(p, "gone")
          /\ UNCHANGED queue
  /\ UNCHANGED <<sessions, stream, session, delivered, told>>
SendEvent(p) ==
  /\ post[p] = "answering"
  /\ IF stream[found[p]] = "open"
     THEN /\ Len(queue[found[p]]) < EventQueue
          /\ queue' = [queue EXCEPT ![found[p]] = Append(@, p)]
          /\ FinishPost(p, "accepted")
     ELSE /\ FinishPost(p, "gone")
          /\ UNCHANGED queue
  /\ UNCHANGED <<sessions, stream, session, delivered, told>>

\* The POST's own connection went away.
LosePost(p) ==
  /\ post[p] \in {"reading", "answering"}
  /\ FinishPost(p, "dropped")
  /\ UNCHANGED <<sessions, streamVars, told>>

-----------------------------------------------------------------------------

StreamStep(s) == DeliverEvent(s) \/ EndStream(s) \/ DropGuard(s)
PostStep(p) == ReadBody(p) \/ SendEvent(p)

SseNext ==
  \/ \E s \in Streams :
       (\E n \in Sessions : OpenStream(s, n)) \/ StreamStep(s) \/ LoseStream(s)
  \/ \E p \in Posts : (\E n \in Sessions : FindStream(p, n)) \/ PostStep(p) \/ LosePost(p)
  \/ CloseSessions

SseSpec == SseInit /\ [][SseNext]_sseVars

\* Clients read their streams and send their bodies, or go away.
SseFairness ==
  /\ \A s \in Streams : WF_sseVars(StreamStep(s))
  /\ \A p \in Posts : WF_sseVars(PostStep(p))

-----------------------------------------------------------------------------

\* An open stream that close_sessions did not end is found by its POSTs.
OpenStreamsFound ==
  \A s \in Streams : stream[s] = "open" /\ s \notin told => sessions[session[s]] = s

\* lib.rs:88 and 175: the table holds the sessions with an event stream, and,
\* if clients draw fresh sessions as SseTransport does, each under its stream.
SessionsInOrder ==
  /\ \A n \in Sessions : sessions[n] # NoStream =>
       session[sessions[n]] = n /\ stream[sessions[n]] \in {"open", "leaving"}
  /\ ~ReuseNames => OpenStreamsFound

\* A response only ever reaches the stream its POST found when it came, once,
\* and a POST that was accepted with one did not lose it while the stream is open.
Responses(s) ==
  {queue[s][i] : i \in 1..Len(queue[s])} \cup {delivered[s][i] : i \in 1..Len(delivered[s])}
AnswersOnOwnStream ==
  /\ \A s \in Streams :
       /\ \A p \in Responses(s) : found[p] = s /\ ack[p] = "accepted"
       /\ Cardinality(Responses(s)) = Len(queue[s]) + Len(delivered[s])
  /\ \A p \in Posts : ack[p] = "accepted" /\ stream[found[p]] = "open" => p \in Responses(found[p])

\* The table and the streams agree, and so do the streams and their responses.
StreamsInOrder == SessionsInOrder /\ AnswersOnOwnStream

\* lib.rs:93 and 243: close_sessions ends every open event stream, after the
\* events that are queued.
ClosedStreamsEnd == \A s \in Streams : (s \in told) ~> (stream[s] = "gone")
=============================================================================
