---------------------------- MODULE ConnectionPool ----------------------------
(***************************************************************************)
(* The server side of crates/reddb-io-toon-rpc: the accept loop            *)
(* serve_until with its ConnectionPool (server.rs), and in each connection *)
(* the loop serve_framed_with (transport.rs).                              *)
(*                                                                         *)
(* The accept loop, the connections' tasks, the listener's backlog and the *)
(* shutdown signal are concurrent.  A step goes from one await to the next *)
(* one; dispatching a document awaits nothing and is part of the step that *)
(* took it.                                                                *)
(***************************************************************************)
EXTENDS Integers, FiniteSets

CONSTANTS
  Conns,           \* connections that may be made
  MaxConnections,  \* Limits::max_connections
  MaxDocuments     \* bound: documents a peer sends on one connection

ASSUME PoolAssumption ==
  /\ IsFiniteSet(Conns)
  /\ MaxConnections \in Nat
  /\ MaxDocuments \in Nat

VARIABLES
  signal,    \* has the shutdown signal resolved?
  loop,      \* where serve_until stands
  result,    \* what it returns
  permits,   \* permits left in the semaphore
  tasks,     \* the connections in the JoinSet
  trigger,   \* the watch channel: were the connections told?
  conn,      \* where each connection stands
  incoming   \* documents its peer still has to send

poolServer == <<signal, loop, result, permits, tasks, trigger>>
poolVars == <<poolServer, conn, incoming>>

\* A pool has at least one slot.
Slots == IF MaxConnections = 0 THEN 1 ELSE MaxConnections

Serving == {"reading", "answering", "closing"}
Ended == {"closed", "failed", "aborted"}
Running == {c \in Conns : conn[c] \in Serving}
Held == IF loop = "accepting" THEN 1 ELSE 0

PoolTypeOK ==
  /\ signal \in BOOLEAN
  /\ loop \in {"reserving", "accepting", "draining", "aborting", "stopped"}
  /\ result \in {"none", "ok", "error"}
  /\ permits \in 0..Slots
  /\ tasks \subseteq Conns
  /\ trigger \in BOOLEAN
  /\ conn \in [Conns -> {"away", "backlog"} \cup Serving \cup Ended]
  /\ incoming \in [Conns -> 0..MaxDocuments]

PoolInit ==
  /\ signal = FALSE
  /\ loop = "reserving"
  /\ result = "none"
  /\ permits = Slots
  /\ tasks = {}
  /\ trigger = FALSE
  /\ conn = [c \in Conns |-> "away"]
  /\ incoming \in [Conns -> 0..MaxDocuments]

-----------------------------------------------------------------------------
\* Outside: peers connect, and the program's signal resolves.

Connect(c) ==
  /\ conn[c] = "away"
  /\ conn' = [conn EXCEPT ![c] = "backlog"]
  /\ UNCHANGED <<poolServer, incoming>>

Signal ==
  /\ ~signal
  /\ signal' = TRUE
  /\ UNCHANGED <<loop, result, permits, tasks, trigger, conn, incoming>>

-----------------------------------------------------------------------------
\* serve_until.

\* A slot is reserved before a connection is accepted.
Reserve ==
  /\ loop = "reserving"
  /\ permits > 0
  /\ permits' = permits - 1
  /\ loop' = "accepting"
  /\ UNCHANGED <<signal, result, tasks, trigger, conn, incoming>>

\* spawn also forgets the tasks that ended.
Accept_forgetsRunning(c) ==
  /\ loop = "accepting"
  /\ conn[c] = "backlog"
  /\ conn' = [conn EXCEPT ![c] = "reading"]
  /\ tasks' = {c}
  /\ loop' = "reserving"
  /\ UNCHANGED <<signal, result, permits, trigger, incoming>>
Accept(c) ==
  /\ loop = "accepting"
  /\ conn[c] = "backlog"
  /\ conn' = [conn EXCEPT ![c] = "reading"]
  /\ tasks' = {d \in tasks : conn[d] \notin Ended} \cup {c}
  /\ loop' = "reserving"
  /\ UNCHANGED <<signal, result, permits, trigger, incoming>>

\* The loop breaks: on the signal, or because accept failed.  A permit it holds
\* goes back; drain tells every connection.
Break(why) ==
  /\ loop' = "draining"
  /\ result' = why
  /\ permits' = permits + Held
  /\ trigger' = TRUE
  /\ UNCHANGED <<signal, tasks, conn, incoming>>

Stop_onlyReserving ==
  /\ loop = "reserving"
  /\ signal
  /\ Break("ok")
Stop ==
  /\ loop \in {"reserving", "accepting"}
  /\ signal
  /\ Break("ok")

AcceptFails ==
  /\ loop = "accepting"
  /\ Break("error")

GraceExpires ==
  /\ loop = "draining"
  /\ loop' = "aborting"
  /\ UNCHANGED <<signal, result, permits, tasks, trigger, conn, incoming>>

\* join_next until the set is empty, within the grace period or after it.
Return ==
  /\ loop \in {"draining", "aborting"}
  /\ \A c \in tasks : conn[c] \in Ended
  /\ loop' = "stopped"
  /\ tasks' = {}
  /\ UNCHANGED <<signal, result, permits, trigger, conn, incoming>>

-----------------------------------------------------------------------------
\* serve_framed_with, in the task of a connection.

\* A task's end drops its permit.
End_keepsPermit(c, how) ==
  /\ conn' = [conn EXCEPT ![c] = how]
  /\ permits' = IF how = "failed" THEN permits ELSE permits + 1
  /\ UNCHANGED <<signal, loop, result, tasks, trigger, incoming>>
End(c, how) ==
  /\ conn' = [conn EXCEPT ![c] = how]
  /\ permits' = permits + 1
  /\ UNCHANGED <<signal, loop, result, tasks, trigger, incoming>>

Goto(c, where) ==
  /\ conn' = [conn EXCEPT ![c] = where]
  /\ UNCHANGED <<poolServer, incoming>>

\* The select between the shutdown and the next document is unbiased: when
\* both are there, either one is taken.  Some documents get no response.
TakeDocument(c) ==
  /\ conn[c] = "reading"
  /\ incoming[c] > 0
  /\ incoming' = [incoming EXCEPT ![c] = @ - 1]
  /\ \/ conn' = [conn EXCEPT ![c] = "answering"]
     \/ UNCHANGED conn
  /\ UNCHANGED poolServer

SeesShutdown(c) ==
  /\ conn[c] = "reading"
  /\ trigger
  /\ Goto(c, "closing")

PeerEnds(c) ==
  /\ conn[c] = "reading"
  /\ incoming[c] = 0
  /\ Goto(c, "closing")

\* The response frame is written; a peer that reads nothing holds it back.
Answer(c) ==
  /\ conn[c] = "answering"
  /\ Goto(c, "reading")

\* A framing error, a read or write error, an idle timeout, a handler's panic.
Fail(c) ==
  /\ conn[c] \in Serving
  /\ End(c, "failed")

FinishClosing(c) ==
  /\ conn[c] = "closing"
  /\ End(c, "closed")

\* JoinSet::shutdown.
Abort(c) ==
  /\ loop = "aborting"
  /\ conn[c] \in Serving
  /\ End(c, "aborted")

-----------------------------------------------------------------------------

ConnStep(c) ==
  TakeDocument(c) \/ SeesShutdown(c) \/ PeerEnds(c) \/ Answer(c) \/ Fail(c)
    \/ FinishClosing(c)

PoolNext ==
  \/ Signal
  \/ Reserve \/ Stop \/ AcceptFails \/ GraceExpires \/ Return
  \/ \E c \in Conns : Connect(c) \/ Accept(c) \/ Abort(c) \/ ConnStep(c)

PoolSpec == PoolInit /\ [][PoolNext]_poolVars

\* The accept loop and the grace timer run; an aborted task ends.  Nothing is
\* assumed of the connections' peers.
PoolFairness ==
  /\ WF_poolVars(Reserve) /\ WF_poolVars(Stop) /\ WF_poolVars(GraceExpires) /\ WF_poolVars(Return)
  /\ \A c \in Conns : WF_poolVars(Accept(c)) /\ WF_poolVars(Abort(c))

FairPoolSpec == PoolSpec /\ PoolFairness

\* Peers that send what they have, read their answers and then end.
PeersFinish == \A c \in Conns : WF_poolVars(ConnStep(c))

-----------------------------------------------------------------------------

\* server.rs:3-5: a slot per connection, on every path: the free permits, the
\* one the accept loop holds and those of the running tasks add up, so at most
\* max_connections are served at once and none is lost for good.
SlotsAddUp == permits + Held + Cardinality(Running) = Slots

\* Whatever runs is in the set that drain waits for, so that the server never
\* returns while it still serves somebody.
DrainCoversRunning ==
  /\ Running \subseteq tasks
  /\ loop = "stopped" => Running = {}

\* The two together: nobody is served beyond the slots or behind the server's end.
PoolInOrder == SlotsAddUp /\ DrainCoversRunning

\* server.rs:6-8: the grace period bounds the shutdown whatever the peers do.
ServerStops == signal ~> (loop = "stopped")

\* While the server accepts and peers finish, a waiting connection gets its turn.
BacklogIsServed ==
  PeersFinish =>
    \A c \in Conns : (conn[c] = "backlog") ~> (conn[c] # "backlog" \/ loop = "stopped")
=============================================================================
