-------------------------- MODULE RustServers_proofs --------------------------
(***************************************************************************)
(* Proofs about what the Rust servers keep of their connections, requests  *)
(* and streams, and what they answer to a document, for every set of them, *)
(* every limit, every entry and every handler.                             *)
(*                                                                         *)
(* The pool: its slots add up, so that never more than max_connections are *)
(* served and no slot is lost, and a server that returned serves nobody.   *)
(* The permits are bounded only because the slots add up, and a drained    *)
(* set is empty of running tasks only because it holds every running task. *)
(*                                                                         *)
(* Long-polling: a waiting request stays reachable, no entry outlives its  *)
(* request, no request is sent two events, and the table keeps within its  *)
(* limits. What makes reachability inductive is OwnEntries: the entries    *)
(* under a key are requests for that key that were sent nothing, so a      *)
(* guard that removes its own request removes nothing else, and a push     *)
(* that takes a key's entries takes nobody else's.                         *)
(*                                                                         *)
(* Sessions of event streams: the table names streams that stand under     *)
(* their sessions, and every response is where its POST put it, once. What *)
(* a client got and what is queued for it are one sequence, of which       *)
(* delivering an event changes nothing; SendEvent appends a POST that was  *)
(* not in it, as those in it are acknowledged.                             *)
(*                                                                         *)
(* Documents: a document is refused, or comes to what comes of its entries *)
(* (DocumentHandled), each of which gets the answers it is owed (EntryMet);*)
(* joining keeps the two in step (FlatAlike). Every response is fine       *)
(* (IsFine): it can be sent, is read back as it was, and stays fine in the *)
(* last look, which leaves an error without data alone. An entry in        *)
(* JSON-RPC is the same call as its TOON-RPC twin (RenamedCall).           *)
(***************************************************************************)
EXTENDS ConnectionPool, LongPolling, SseSessions, Messages, Lemmas,
        SequenceTheorems, FiniteSetTheorems, TLAPS

-------------------------------------------------------------------------------
(* The connection pool. *)

PoolInv == PoolTypeOK /\ SlotsAddUp /\ DrainCoversRunning

\* The running connections are finitely many.
LEMMA RunningFinite == IsFiniteSet(Running) /\ Cardinality(Running) \in Nat
  <1>1. Running \subseteq Conns
    BY DEF Running
  <1>2. IsFiniteSet(Running)
    BY <1>1, PoolAssumption, FS_Subset
  <1> QED
    BY <1>2, FS_CardinalityType

LEMMA RunningFiniteNext == IsFiniteSet(Running') /\ Cardinality(Running') \in Nat
  <1>1. Running' \subseteq Conns
    BY DEF Running
  <1>2. IsFiniteSet(Running')
    BY <1>1, PoolAssumption, FS_Subset
  <1> QED
    BY <1>2, FS_CardinalityType

LEMMA SlotsIsNat == Slots \in Nat
  BY PoolAssumption DEF Slots

LEMMA PoolInitEstablishes == PoolInit => PoolInv
  <1> SUFFICES ASSUME PoolInit PROVE PoolInv
    OBVIOUS
  <1>1. Running = {}
    BY DEF PoolInit, Running, Serving
  <1>2. Cardinality(Running) = 0
    BY <1>1, FS_EmptySet
  <1>3. PoolTypeOK
    <2>1. permits \in 0..Slots
      BY SlotsIsNat DEF PoolInit
    <2>2. conn \in [Conns -> {"away", "backlog"} \cup Serving \cup Ended]
      BY DEF PoolInit
    <2> QED
      BY <2>1, <2>2 DEF PoolInit, PoolTypeOK
  <1>4. SlotsAddUp
    BY <1>2, SlotsIsNat DEF PoolInit, SlotsAddUp, Held
  <1>5. DrainCoversRunning
    BY <1>1 DEF PoolInit, DrainCoversRunning
  <1> QED
    BY <1>3, <1>4, <1>5 DEF PoolInv

\* A connection that moves between two places of its loop keeps its slot.
LEMMA StaysRunning ==
  ASSUME PoolInv, NEW c \in Conns, conn[c] \in Serving,
         NEW where \in Serving, conn' = [conn EXCEPT ![c] = where]
  PROVE  Running' = Running
  BY DEF PoolInv, PoolTypeOK, Running

\* A task that ends gives its slot back.
LEMMA EndKeeps ==
  ASSUME PoolInv, NEW c \in Conns, conn[c] \in Serving, NEW how \in Ended, End(c, how)
  PROVE  PoolInv'
  <1>1. Running' = Running \ {c}
    BY DEF PoolInv, PoolTypeOK, Running, End, Ended, Serving
  <1>2. c \in Running
    BY DEF Running
  <1>3. Cardinality(Running') = Cardinality(Running) - 1
    BY <1>1, <1>2, RunningFinite, FS_RemoveElement
  <1>4. SlotsAddUp'
    BY <1>3, RunningFinite, SlotsIsNat DEF PoolInv, PoolTypeOK, SlotsAddUp, End, Held
  <1>5. permits' \in 0..Slots
    BY <1>4, RunningFiniteNext, SlotsIsNat DEF PoolInv, PoolTypeOK, SlotsAddUp, End, Held
  <1>6. PoolTypeOK'
    BY <1>5 DEF PoolInv, PoolTypeOK, End, Slots
  <1>7. DrainCoversRunning'
    BY <1>1 DEF PoolInv, DrainCoversRunning, End
  <1> QED
    BY <1>4, <1>6, <1>7 DEF PoolInv

\* A step that leaves the running connections, the permits and the accept loop
\* alone keeps the invariant if it keeps the types.
LEMMA QuietKeeps ==
  ASSUME PoolInv, PoolTypeOK', Running' = Running,
         UNCHANGED <<loop, permits, tasks>>
  PROVE  PoolInv'
  <1>1. SlotsAddUp'
    BY DEF PoolInv, SlotsAddUp, Held
  <1>2. DrainCoversRunning'
    BY DEF PoolInv, DrainCoversRunning
  <1> QED
    BY <1>1, <1>2 DEF PoolInv

LEMMA NextKeeps == PoolInv /\ [PoolNext]_poolVars => PoolInv'
  <1> SUFFICES ASSUME PoolInv, [PoolNext]_poolVars PROVE PoolInv'
    OBVIOUS
  <1>1. CASE Signal
    <2>1. PoolTypeOK' /\ Running' = Running
      BY <1>1 DEF Signal, PoolInv, PoolTypeOK, Running
    <2> QED
      BY <1>1, <2>1, QuietKeeps DEF Signal
  <1>2. CASE Reserve
    <2>1. Running' = Running
      BY <1>2 DEF Reserve, Running
    <2>2. PoolTypeOK'
      BY <1>2, SlotsIsNat DEF Reserve, PoolInv, PoolTypeOK
    <2>3. SlotsAddUp'
      BY <1>2, <2>1, RunningFinite, SlotsIsNat DEF Reserve, PoolInv, PoolTypeOK, SlotsAddUp, Held
    <2>4. DrainCoversRunning'
      BY <1>2, <2>1 DEF Reserve, PoolInv, DrainCoversRunning
    <2> QED
      BY <2>2, <2>3, <2>4 DEF PoolInv
  <1>3. CASE Stop \/ AcceptFails
    <2>1. PICK why \in {"ok", "error"} : Break(why)
      BY <1>3 DEF Stop, AcceptFails
    <2>2. loop \in {"reserving", "accepting"}
      BY <1>3 DEF Stop, AcceptFails
    <2>3. Running' = Running
      BY <2>1 DEF Break, Running
    <2>4. SlotsAddUp'
      BY <2>1, <2>2, <2>3, RunningFinite, SlotsIsNat
      DEF Break, PoolInv, PoolTypeOK, SlotsAddUp, Held
    <2>5. permits' \in 0..Slots
      BY <2>1, <2>3, <2>4, RunningFinite, SlotsIsNat
      DEF Break, PoolInv, PoolTypeOK, SlotsAddUp, Held
    <2>6. PoolTypeOK'
      BY <2>1, <2>5 DEF Break, PoolInv, PoolTypeOK
    <2>7. DrainCoversRunning'
      BY <2>1, <2>3 DEF Break, PoolInv, DrainCoversRunning
    <2> QED
      BY <2>4, <2>6, <2>7 DEF PoolInv
  <1>4. CASE GraceExpires
    <2>1. Running' = Running
      BY <1>4 DEF GraceExpires, Running
    <2>2. PoolTypeOK'
      BY <1>4 DEF GraceExpires, PoolInv, PoolTypeOK
    <2>3. SlotsAddUp'
      BY <1>4, <2>1 DEF GraceExpires, PoolInv, SlotsAddUp, Held
    <2>4. DrainCoversRunning'
      BY <1>4, <2>1 DEF GraceExpires, PoolInv, DrainCoversRunning
    <2> QED
      BY <2>2, <2>3, <2>4 DEF PoolInv
  <1>5. CASE Return
    <2>1. Running' = Running
      BY <1>5 DEF Return, Running
    <2>2. Running = {}
      BY <1>5 DEF Return, PoolInv, DrainCoversRunning, Running, Serving, Ended
    <2>3. PoolTypeOK'
      BY <1>5 DEF Return, PoolInv, PoolTypeOK
    <2>4. SlotsAddUp'
      BY <1>5, <2>1 DEF Return, PoolInv, SlotsAddUp, Held
    <2>5. DrainCoversRunning'
      BY <1>5, <2>1, <2>2 DEF Return, PoolInv, DrainCoversRunning
    <2> QED
      BY <2>3, <2>4, <2>5 DEF PoolInv
  <1>6. ASSUME NEW c \in Conns, Connect(c) PROVE PoolInv'
    <2>1. PoolTypeOK'
      BY <1>6 DEF Connect, PoolInv, PoolTypeOK, poolServer
    <2>2. Running' = Running
      BY <1>6 DEF Connect, PoolInv, PoolTypeOK, Running, Serving
    <2> QED
      BY <1>6, <2>1, <2>2, QuietKeeps DEF Connect, poolServer
  <1>7. ASSUME NEW c \in Conns, Accept(c) PROVE PoolInv'
    <2>1. Running' = Running \cup {c}
      BY <1>7 DEF Accept, PoolInv, PoolTypeOK, Running, Serving
    <2>2. c \notin Running
      BY <1>7 DEF Accept, Running, Serving
    <2>3. Cardinality(Running') = Cardinality(Running) + 1
      BY <2>1, <2>2, RunningFinite, FS_AddElement
    <2>4. PoolTypeOK'
      BY <1>7 DEF Accept, PoolInv, PoolTypeOK, Serving
    <2>5. SlotsAddUp'
      BY <1>7, <2>3, RunningFinite DEF Accept, PoolInv, PoolTypeOK, SlotsAddUp, Held
    <2>6. DrainCoversRunning'
      BY <1>7, <2>1 DEF Accept, PoolInv, DrainCoversRunning, Running, Serving, Ended
    <2> QED
      BY <2>4, <2>5, <2>6 DEF PoolInv
  <1>8. ASSUME NEW c \in Conns, Abort(c) PROVE PoolInv'
    BY <1>8, EndKeeps DEF Abort, Ended
  <1>9. ASSUME NEW c \in Conns, ConnStep(c) PROVE PoolInv'
    <2>1. CASE TakeDocument(c)
      <3>1. Running' = Running
        BY <2>1 DEF TakeDocument, PoolInv, PoolTypeOK, Running, Serving
      <3>2. PoolTypeOK'
        BY <2>1, PoolAssumption DEF TakeDocument, PoolInv, PoolTypeOK, Serving, poolServer
      <3> QED
        BY <2>1, <3>1, <3>2, QuietKeeps DEF TakeDocument, poolServer
    <2>2. CASE SeesShutdown(c) \/ PeerEnds(c) \/ Answer(c)
      <3>1. PICK where \in Serving : Goto(c, where)
        BY <2>2 DEF SeesShutdown, PeerEnds, Answer, Serving
      <3>2. conn[c] \in Serving
        BY <2>2 DEF SeesShutdown, PeerEnds, Answer, Serving
      <3>3. Running' = Running
        BY <3>1, <3>2, StaysRunning DEF Goto
      <3>4. PoolTypeOK'
        BY <3>1 DEF Goto, PoolInv, PoolTypeOK, poolServer
      <3> QED
        BY <3>1, <3>3, <3>4, QuietKeeps DEF Goto, poolServer
    <2>3. CASE Fail(c) \/ FinishClosing(c)
      BY <2>3, EndKeeps DEF Fail, FinishClosing, Ended, Serving
    <2> QED
      BY <1>9, <2>1, <2>2, <2>3 DEF ConnStep
  <1>10. CASE UNCHANGED poolVars
    <2>1. PoolTypeOK' /\ Running' = Running
      BY <1>10 DEF poolVars, poolServer, PoolInv, PoolTypeOK, Running
    <2> QED
      BY <1>10, <2>1, QuietKeeps DEF poolVars, poolServer
  <1> QED
    BY <1>1, <1>2, <1>3, <1>4, <1>5, <1>6, <1>7, <1>8, <1>9, <1>10 DEF PoolNext

LEMMA Invariance == PoolSpec => []PoolInv
  BY PoolInitEstablishes, NextKeeps, PTL DEF PoolSpec

\* The pool's variables keep their types.
THEOREM PoolTypeCorrect == PoolSpec => []PoolTypeOK
  <1>1. PoolInv => PoolTypeOK
    BY DEF PoolInv
  <1> QED
    BY <1>1, Invariance, PTL

\* Every slot is accounted for on every path through the server.
THEOREM PoolSlotsAddUp == PoolSpec => []SlotsAddUp
  <1>1. PoolInv => SlotsAddUp
    BY DEF PoolInv
  <1> QED
    BY <1>1, Invariance, PTL

\* At most max_connections (and at least one) are served at once.
THEOREM PoolIsCapped == PoolSpec => [](Cardinality(Running) <= Slots)
  <1>1. PoolInv => Cardinality(Running) <= Slots
    BY RunningFinite, SlotsIsNat DEF PoolInv, PoolTypeOK, SlotsAddUp, Held
  <1> QED
    BY <1>1, Invariance, PTL

\* A server that returned serves nobody, since drain waits for everybody.
THEOREM PoolDrains == PoolSpec => []DrainCoversRunning
  <1>1. PoolInv => DrainCoversRunning
    BY DEF PoolInv
  <1> QED
    BY <1>1, Invariance, PTL

\* The slots add up and drain covers what they were given to.
THEOREM PoolStaysInOrder == PoolSpec => []PoolInOrder
  <1>1. SlotsAddUp /\ DrainCoversRunning => PoolInOrder
    BY DEF PoolInOrder
  <1> QED
    BY <1>1, PoolSlotsAddUp, PoolDrains, PTL

-------------------------------------------------------------------------------
(* Long-polling. *)

OwnEntries ==
  \A k \in Keys : \A r \in waiters[k] :
    /\ key[r] = k
    /\ inbox[r] = NoPush
    /\ poll[r] \notin {"idle", "gone"}

\* Nothing was done to a request that has not begun, or by a push that has not.
Untouched ==
  /\ \A r \in Requests : poll[r] = "idle" => inbox[r] = NoPush
  /\ \A p \in Pushes : push[p] = "idle" => batch[p] = {}
  /\ \A p \in Pushes : \A r \in batch[p] : poll[r] # "idle"

PollInv == PollTypeOK /\ OwnEntries /\ Untouched /\ OneEventPerPoll /\ WaitersReachable

LEMMA PollInitEstablishes == PollInit => PollInv
  BY DEF PollInit, PollInv, PollTypeOK, OwnEntries, Untouched, OneEventPerPoll, WaitersReachable, Alive

LEMMA EnterKeeps == ASSUME PollInv, NEW r \in Requests, Enter(r) PROVE PollInv'
  <1> USE DEF Enter, pushes
  <1>1. PollTypeOK'
    BY DEF PollInv, PollTypeOK, Alive
  <1>2. OwnEntries'
    BY DEF PollInv, PollTypeOK, OwnEntries, Untouched
  <1>3. Untouched'
    BY DEF PollInv, PollTypeOK, Untouched
  <1>4. OneEventPerPoll'
    BY DEF PollInv, PollTypeOK, OneEventPerPoll, Untouched
  <1>5. WaitersReachable'
    BY DEF PollInv, PollTypeOK, WaitersReachable
  <1> QED
    BY <1>1, <1>2, <1>3, <1>4, <1>5 DEF PollInv

LEMMA RefuseKeeps == ASSUME PollInv, NEW r \in Requests, Refuse(r) PROVE PollInv'
  <1> USE DEF Refuse, Unavailable, pushes
  <1>1. listed' \subseteq Keys
    BY DEF PollInv, PollTypeOK
  <1>2. PollTypeOK'
    BY <1>1 DEF PollInv, PollTypeOK
  <1>3. OwnEntries'
    BY DEF PollInv, PollTypeOK, OwnEntries
  <1>4. Untouched' /\ OneEventPerPoll' /\ WaitersReachable'
    BY DEF PollInv, PollTypeOK, Untouched, OneEventPerPoll, WaitersReachable
  <1> QED
    BY <1>2, <1>3, <1>4 DEF PollInv

\* A request that was waiting and moves on disturbs nothing but its own place.
LEMMA MovesOn ==
  ASSUME PollInv, NEW r \in Requests, poll[r] \in Alive,
         NEW where \in {"expired", "leaving"}, poll' = [poll EXCEPT ![r] = where],
         response' \in [Requests -> {"none", "event", "empty", "unavailable"}],
         UNCHANGED <<table, key, inbox, pushes>>
  PROVE  PollInv'
  <1> USE DEF table, pushes
  <1>1. PollTypeOK'
    BY DEF PollInv, PollTypeOK, Alive
  <1>2. OwnEntries' /\ Untouched'
    BY DEF PollInv, PollTypeOK, OwnEntries, Untouched
  <1>3. OneEventPerPoll' /\ WaitersReachable'
    BY DEF PollInv, PollTypeOK, OneEventPerPoll, WaitersReachable
  <1> QED
    BY <1>1, <1>2, <1>3 DEF PollInv

LEMMA WaitEnds ==
  ASSUME PollInv, NEW r \in Requests,
         Receive(r) \/ Expire(r) \/ AnswerEmpty(r) \/ DropRequest(r)
  PROVE  PollInv'
  <1>1. CASE Receive(r)
    BY <1>1, MovesOn DEF Receive, Leave, PollInv, PollTypeOK, Alive
  <1>2. CASE Expire(r)
    BY <1>2, MovesOn DEF Expire, PollInv, PollTypeOK, Alive
  <1>3. CASE AnswerEmpty(r)
    BY <1>3, MovesOn DEF AnswerEmpty, Leave, PollInv, PollTypeOK, Alive
  <1>4. CASE DropRequest(r)
    BY <1>4, MovesOn DEF DropRequest, Leave, PollInv, PollTypeOK, Alive
  <1> QED
    BY <1>1, <1>2, <1>3, <1>4

LEMMA GuardKeeps == ASSUME PollInv, NEW r \in Requests, GuardDrops(r) PROVE PollInv'
  <1> USE DEF GuardDrops, RemoveWaiter, pushes
  <1>1. PollTypeOK'
    BY DEF PollInv, PollTypeOK
  <1>2. OwnEntries'
    BY DEF PollInv, PollTypeOK, OwnEntries
  <1>3. Untouched' /\ OneEventPerPoll'
    BY DEF PollInv, PollTypeOK, Untouched, OneEventPerPoll
  <1>4. WaitersReachable'
    BY DEF PollInv, PollTypeOK, WaitersReachable
  <1> QED
    BY <1>1, <1>2, <1>3, <1>4 DEF PollInv

LEMMA TakeKeeps == ASSUME PollInv, NEW p \in Pushes, TakeWaiters(p) PROVE PollInv'
  <1> USE DEF TakeWaiters, requests
  <1>1. PollTypeOK'
    BY DEF PollInv, PollTypeOK
  <1>2. OwnEntries'
    BY DEF PollInv, PollTypeOK, OwnEntries
  <1>3. Untouched'
    BY DEF PollInv, PollTypeOK, Untouched, OwnEntries
  <1>4. OneEventPerPoll'
    BY DEF PollInv, PollTypeOK, OneEventPerPoll, OwnEntries
  <1>5. WaitersReachable'
    BY DEF PollInv, PollTypeOK, WaitersReachable, Untouched
  <1> QED
    BY <1>1, <1>2, <1>3, <1>4, <1>5 DEF PollInv

LEMMA SendKeeps == ASSUME PollInv, NEW p \in Pushes, SendNext(p) PROVE PollInv'
  <1> PICK r \in batch[p] :
        /\ batch' = [batch EXCEPT ![p] = @ \ {r}]
        /\ inbox' = IF poll[r] \in Alive THEN [inbox EXCEPT ![r] = p] ELSE inbox
        /\ UNCHANGED <<table, requests, push, target>>
    BY DEF SendNext
  <1> USE DEF table, requests
  <1>1. r \in Requests
    BY DEF PollInv, PollTypeOK
  <1>2. PollTypeOK'
    BY <1>1 DEF PollInv, PollTypeOK
  <1>3. OwnEntries'
    BY <1>1 DEF PollInv, PollTypeOK, OwnEntries, OneEventPerPoll
  <1>4. Untouched'
    BY <1>1 DEF PollInv, PollTypeOK, Untouched
  <1>5. OneEventPerPoll'
    BY <1>1 DEF PollInv, PollTypeOK, OneEventPerPoll
  <1>6. WaitersReachable'
    BY <1>1, PollAssumption DEF PollInv, PollTypeOK, WaitersReachable, Alive
  <1> QED
    BY <1>2, <1>3, <1>4, <1>5, <1>6 DEF PollInv

LEMMA StepKeeps == PollInv /\ [PollNext]_pollVars => PollInv'
  <1> SUFFICES ASSUME PollInv, [PollNext]_pollVars PROVE PollInv'
    OBVIOUS
  <1>1. ASSUME NEW r \in Requests, RequestStep(r) PROVE PollInv'
    BY <1>1, EnterKeeps, RefuseKeeps, WaitEnds, GuardKeeps DEF RequestStep, Proceed
  <1>2. ASSUME NEW p \in Pushes, PushStep(p) PROVE PollInv'
    BY <1>2, TakeKeeps, SendKeeps DEF PushStep
  <1>3. CASE UNCHANGED pollVars
    BY <1>3 DEF pollVars, table, requests, pushes, PollInv, PollTypeOK, OwnEntries, Untouched,
         OneEventPerPoll, WaitersReachable
  <1> QED
    BY <1>1, <1>2, <1>3 DEF PollNext

THEOREM PollInvariant == PollSpec => []PollInv
  BY PollInitEstablishes, StepKeeps, PTL DEF PollSpec

\* Every variable of the waiter table and its users keeps its type.
THEOREM PollTypeCorrect == PollSpec => []PollTypeOK
  <1>1. PollInv => PollTypeOK
    BY DEF PollInv
  <1> QED
    BY <1>1, PollInvariant, PTL

\* A request that waits is in the table or in the batch of a push for its key.
THEOREM WaitersStayReachable == PollSpec => []WaitersReachable
  <1>1. PollInv => WaitersReachable
    BY DEF PollInv
  <1> QED
    BY <1>1, PollInvariant, PTL

\* No push sends to a request that was sent an event or polls something else.
THEOREM EventsSentOnce == PollSpec => []OneEventPerPoll
  <1>1. PollInv => OneEventPerPoll
    BY DEF PollInv
  <1> QED
    BY <1>1, PollInvariant, PTL

\* A request that is over has no entry in the table.
THEOREM EntriesNeverLeak == PollSpec => []NoEntryLeaks
  <1>1. PollInv => NoEntryLeaks
    BY DEF PollInv, PollTypeOK, OwnEntries, NoEntryLeaks
  <1> QED
    BY <1>1, PollInvariant, PTL

-----------------------------------------------------------------------------
\* The limits.

LEMMA Finite ==
  ASSUME PollTypeOK
  PROVE  /\ IsFiniteSet(listed)
         /\ \A k \in Keys : IsFiniteSet(waiters[k])
  BY PollAssumption, FS_Subset DEF PollTypeOK

LEMMA InitBounded == PollInit => TableBounded
  BY PollAssumption, FS_EmptySet DEF PollInit, TableBounded

\* A table that lost keys and waiters is bounded if it was.
LEMMA LessIsBounded ==
  ASSUME PollTypeOK, TableBounded, listed' \subseteq listed,
         \A k \in Keys : waiters'[k] \subseteq waiters[k]
  PROVE  TableBounded'
  <1>1. Cardinality(listed') <= Cardinality(listed)
    BY Finite, FS_Subset
  <1>2. Cardinality(listed) \in Nat /\ Cardinality(listed') \in Nat
    BY Finite, FS_Subset, FS_CardinalityType
  <1>3. ASSUME NEW k \in Keys PROVE Cardinality(waiters'[k]) <= MaxWaitersPerKey
    <2>1. Cardinality(waiters'[k]) <= Cardinality(waiters[k])
      BY Finite, FS_Subset
    <2>2. Cardinality(waiters[k]) \in Nat /\ Cardinality(waiters'[k]) \in Nat
      BY Finite, FS_Subset, FS_CardinalityType
    <2> QED
      BY <2>1, <2>2, PollAssumption DEF TableBounded
  <1> QED
    BY <1>1, <1>2, <1>3, PollAssumption DEF TableBounded

\* A key is added where there is room for it.
LEMMA KeyIsAdded ==
  ASSUME PollTypeOK, TableBounded, NEW k \in Keys, KeyHasRoom(k)
  PROVE  Cardinality(listed \cup {k}) <= MaxPollKeys
  <1>1. CASE k \in listed
    BY <1>1, listed \cup {k} = listed DEF TableBounded
  <1>2. CASE k \notin listed
    <2>1. Cardinality(listed \cup {k}) = Cardinality(listed) + 1
      BY <1>2, Finite, FS_AddElement
    <2> QED
      BY <1>2, <2>1, Finite, FS_CardinalityType, PollAssumption DEF KeyHasRoom
  <1> QED
    BY <1>1, <1>2

LEMMA WaiterIsAdded ==
  ASSUME PollTypeOK, NEW k \in Keys, NEW r \in Requests,
         Cardinality(waiters[k]) < MaxWaitersPerKey
  PROVE  Cardinality(waiters[k] \cup {r}) <= MaxWaitersPerKey
  <1>1. Cardinality(waiters[k]) \in Nat
    BY Finite, FS_CardinalityType
  <1>2. Cardinality(waiters[k] \cup {r}) \in {Cardinality(waiters[k]), Cardinality(waiters[k]) + 1}
    BY Finite, FS_AddElement
  <1> QED
    BY <1>1, <1>2, PollAssumption

LEMMA StepBounded == PollTypeOK /\ TableBounded /\ [PollNext]_pollVars => TableBounded'
  <1> SUFFICES ASSUME PollTypeOK, TableBounded, [PollNext]_pollVars PROVE TableBounded'
    OBVIOUS
  <1>1. ASSUME NEW r \in Requests, Enter(r) PROVE TableBounded'
    <2>1. key[r] \in Keys
      BY DEF PollTypeOK
    <2>2. Cardinality(listed') <= MaxPollKeys
      BY <1>1, <2>1, KeyIsAdded DEF Enter
    <2>3. ASSUME NEW k \in Keys PROVE Cardinality(waiters'[k]) <= MaxWaitersPerKey
      <3>1. CASE k = key[r]
        BY <1>1, <2>1, <3>1, WaiterIsAdded DEF Enter, PollTypeOK
      <3>2. CASE k # key[r]
        BY <1>1, <3>2 DEF Enter, PollTypeOK, TableBounded
      <3> QED
        BY <3>1, <3>2
    <2> QED
      BY <2>2, <2>3 DEF TableBounded
  <1>2. ASSUME NEW r \in Requests, Refuse(r) PROVE TableBounded'
    <2>1. key[r] \in Keys
      BY DEF PollTypeOK
    <2>2. Cardinality(listed') <= MaxPollKeys
      BY <1>2, <2>1, KeyIsAdded DEF Refuse, TableBounded
    <2> QED
      BY <1>2, <2>2 DEF Refuse, Unavailable, TableBounded
  <1>3. ASSUME NEW r \in Requests,
               Receive(r) \/ Expire(r) \/ AnswerEmpty(r) \/ DropRequest(r)
        PROVE  TableBounded'
    BY <1>3 DEF Receive, Expire, AnswerEmpty, DropRequest, Leave, table, TableBounded
  <1>4. ASSUME NEW r \in Requests, GuardDrops(r) PROVE TableBounded'
    <2>1. listed' \subseteq listed /\ \A k \in Keys : waiters'[k] \subseteq waiters[k]
      BY <1>4 DEF GuardDrops, RemoveWaiter, PollTypeOK
    <2> QED
      BY <2>1, LessIsBounded
  <1>5. ASSUME NEW p \in Pushes, PushStep(p) PROVE TableBounded'
    <2>1. listed' \subseteq listed /\ \A k \in Keys : waiters'[k] \subseteq waiters[k]
      BY <1>5 DEF PushStep, TakeWaiters, SendNext, table, PollTypeOK
    <2> QED
      BY <2>1, LessIsBounded
  <1>6. CASE UNCHANGED pollVars
    BY <1>6 DEF pollVars, table, TableBounded
  <1> QED
    BY <1>1, <1>2, <1>3, <1>4, <1>5, <1>6 DEF PollNext, RequestStep, Proceed

\* Never more keys, or more waiters under a key, than the limits allow.
THEOREM TableKeepsLimits == PollSpec => []TableBounded
  <1>1. PollInv => PollTypeOK
    BY DEF PollInv
  <1> QED
    BY <1>1, InitBounded, StepBounded, PollInvariant, PTL DEF PollSpec

-----------------------------------------------------------------------------
\* Keys leave with their last waiter, if a key may have waiters at all.

LEMMA StepKeepsKeys ==
  ASSUME MaxWaitersPerKey > 0, PollTypeOK, KeysHaveWaiters, [PollNext]_pollVars
  PROVE  KeysHaveWaiters'
  <1>1. ASSUME NEW r \in Requests, Enter(r) PROVE KeysHaveWaiters'
    BY <1>1 DEF Enter, PollTypeOK, KeysHaveWaiters
  <1>2. ASSUME NEW r \in Requests, Refuse(r) PROVE KeysHaveWaiters'
    <2>1. CASE UNCHANGED listed
      BY <1>2, <2>1 DEF Refuse, Unavailable, KeysHaveWaiters
    <2>2. CASE Cardinality(waiters[key[r]]) >= MaxWaitersPerKey /\ listed' = listed \cup {key[r]}
      <3>1. waiters[key[r]] # {}
        BY <2>2, FS_EmptySet, PollAssumption
      <3> QED
        BY <1>2, <2>2, <3>1 DEF Refuse, Unavailable, KeysHaveWaiters, PollTypeOK
    <2> QED
      BY <1>2, <2>1, <2>2 DEF Refuse
  <1>3. ASSUME NEW r \in Requests,
               Receive(r) \/ Expire(r) \/ AnswerEmpty(r) \/ DropRequest(r)
        PROVE  KeysHaveWaiters'
    BY <1>3 DEF Receive, Expire, AnswerEmpty, DropRequest, Leave, table, KeysHaveWaiters
  <1>4. ASSUME NEW r \in Requests, GuardDrops(r) PROVE KeysHaveWaiters'
    BY <1>4 DEF GuardDrops, RemoveWaiter, PollTypeOK, KeysHaveWaiters
  <1>5. ASSUME NEW p \in Pushes, PushStep(p) PROVE KeysHaveWaiters'
    BY <1>5 DEF PushStep, TakeWaiters, SendNext, table, PollTypeOK, KeysHaveWaiters
  <1>6. CASE UNCHANGED pollVars
    BY <1>6 DEF pollVars, table, KeysHaveWaiters
  <1> QED
    BY <1>1, <1>2, <1>3, <1>4, <1>5, <1>6 DEF PollNext, RequestStep, Proceed

\* The table keeps its limits, its keys are polled and no entry outlives its
\* request.
THEOREM TableStaysInOrder == PollSpec => []TableInOrder
  <1> DEFINE Polled == MaxWaitersPerKey > 0 => KeysHaveWaiters
  <1>1. PollInit => Polled
    BY DEF PollInit, KeysHaveWaiters
  <1>2. PollTypeOK /\ Polled /\ [PollNext]_pollVars => Polled'
    BY StepKeepsKeys
  <1>3. PollSpec => []Polled
    BY <1>1, <1>2, PollTypeCorrect, PTL DEF PollSpec
  <1>4. TableBounded /\ Polled /\ NoEntryLeaks => TableInOrder
    BY DEF TableInOrder
  <1> QED
    BY <1>3, <1>4, TableKeepsLimits, EntriesNeverLeak, PTL

\* The table holds those that wait, within its limits, and nothing else.
THEOREM WaitersStayInOrder == PollSpec => []WaitersInOrder
  <1>1. TableInOrder /\ WaitersReachable => WaitersInOrder
    BY DEF WaitersInOrder
  <1> QED
    BY <1>1, TableStaysInOrder, WaitersStayReachable, PTL

-------------------------------------------------------------------------------
(* Sessions of event streams. *)

Whole(s) == delivered[s] \o queue[s]
Injected(seq) == \A i, j \in 1..Len(seq) : seq[i] = seq[j] => i = j

\* A stream has a session once it was asked for.
Asked == \A s \in Streams : stream[s] = "idle" \/ session[s] \in Sessions
TableSound ==
  \A n \in Sessions : sessions[n] # NoStream =>
    session[sessions[n]] = n /\ stream[sessions[n]] \in {"open", "leaving"}
\* Sessions that are drawn afresh are not shared.
Distinct == ~ReuseNames =>
  \A s, t \in Streams : session[s] = session[t] /\ session[s] # NoSession => s = t
\* A POST that may answer, or did, found a stream that had been opened.
PostsFound ==
  \A p \in Posts : post[p] \in {"reading", "answering"} \/ ack[p] = "accepted" =>
    found[p] \in Streams /\ stream[found[p]] \in {"open", "leaving", "gone"}
Unanswered == \A p \in Posts : post[p] # "done" => ack[p] = "none"
Placed ==
  \A s \in Streams :
    /\ Injected(Whole(s))
    /\ \A i \in 1..Len(Whole(s)) : found[Whole(s)[i]] = s /\ ack[Whole(s)[i]] = "accepted"
NoneLost ==
  \A s \in Streams, p \in Posts :
    stream[s] = "open" /\ found[p] = s /\ ack[p] = "accepted" =>
      \E i \in 1..Len(Whole(s)) : Whole(s)[i] = p

SseInv ==
  /\ SseTypeOK /\ Asked /\ TableSound /\ Distinct /\ (~ReuseNames => OpenStreamsFound)
  /\ PostsFound /\ Unanswered /\ Placed /\ NoneLost

-----------------------------------------------------------------------------
LEMMA WholeIsSeq ==
  ASSUME SseTypeOK, NEW s \in Streams
  PROVE  /\ Whole(s) \in Seq(Posts)
         /\ Len(Whole(s)) = Len(delivered[s]) + Len(queue[s])
         /\ \A i \in 1..Len(delivered[s]) : Whole(s)[i] = delivered[s][i]
         /\ \A i \in 1..Len(queue[s]) : Whole(s)[Len(delivered[s]) + i] = queue[s][i]
  <1>1. delivered[s] \in Seq(Posts) /\ queue[s] \in Seq(Posts)
    BY DEF SseTypeOK
  <1> DEFINE D == delivered[s]
             Q == queue[s]
  <1>2. D \in Seq(Posts) /\ Q \in Seq(Posts) /\ Len(D) \in Nat /\ Len(Q) \in Nat
    BY <1>1, LenProperties
  <1>3. Whole(s) = D \o Q
    BY DEF Whole
  <1> HIDE DEF D, Q
  <1>4. /\ D \o Q \in Seq(Posts)
        /\ Len(D \o Q) = Len(D) + Len(Q)
        /\ \A i \in 1..Len(D) + Len(Q) :
             (D \o Q)[i] = IF i <= Len(D) THEN D[i] ELSE Q[i - Len(D)]
    BY <1>2, ConcatProperties
  <1>5. \A i \in 1..Len(D) : (D \o Q)[i] = D[i]
    BY <1>2, <1>4
  <1>6. \A i \in 1..Len(Q) : (D \o Q)[Len(D) + i] = Q[i]
    BY <1>2, <1>4
  <1> QED BY <1>3, <1>4, <1>5, <1>6 DEF D, Q

\* A sequence without repetition has as many elements as places.
LEMMA InjectedCardinality ==
  ASSUME NEW S, NEW seq \in Seq(S), Injected(seq)
  PROVE  Cardinality({seq[i] : i \in 1..Len(seq)}) = Len(seq)
  <1> DEFINE T == {seq[i] : i \in 1..Len(seq)}
             f == [i \in 1..Len(seq) |-> seq[i]]
  <1>1. Len(seq) \in Nat
    BY LenProperties
  <1>2. f \in Bijection(1..Len(seq), T)
    BY DEF Bijection, Injection, Surjection, IsInjective, Injected
  <1>3. ExistsBijection(1..Len(seq), T)
    BY <1>2 DEF ExistsBijection
  <1> HIDE DEF T
  <1>4. Cardinality(T) = Len(seq)
    BY <1>1, <1>3, FS_CountingElements
  <1> QED BY <1>4 DEF T

LEMMA ResponsesAreWhole ==
  ASSUME SseTypeOK, NEW s \in Streams
  PROVE  Responses(s) = {Whole(s)[i] : i \in 1..Len(Whole(s))}
  <1> DEFINE D == delivered[s]
             Q == queue[s]
             W == Whole(s)
  <1>1. D \in Seq(Posts) /\ Q \in Seq(Posts) /\ Len(D) \in Nat /\ Len(Q) \in Nat
    BY LenProperties DEF SseTypeOK
  <1>2. /\ Len(W) = Len(D) + Len(Q)
        /\ \A i \in 1..Len(D) : W[i] = D[i]
        /\ \A i \in 1..Len(Q) : W[Len(D) + i] = Q[i]
    BY WholeIsSeq
  <1> HIDE DEF D, Q, W
  <1>3. \A i \in 1..Len(W) : i \in 1..Len(D) \/ i - Len(D) \in 1..Len(Q)
    BY <1>1, <1>2
  <1>4. \A i \in 1..Len(Q) : Len(D) + i \in 1..Len(W)
    BY <1>1, <1>2
  <1>5. \A i \in 1..Len(D) : i \in 1..Len(W)
    BY <1>1, <1>2
  <1>6. \A i \in 1..Len(W) : i - Len(D) \in 1..Len(Q) => W[i] = Q[i - Len(D)]
    BY <1>1, <1>2
  <1>7. {Q[i] : i \in 1..Len(Q)} \cup {D[i] : i \in 1..Len(D)} = {W[i] : i \in 1..Len(W)}
    BY <1>2, <1>3, <1>4, <1>5, <1>6
  <1> QED BY <1>7 DEF D, Q, W, Responses

-----------------------------------------------------------------------------
(* The invariant says what the run checks. *)

LEMMA PlusCommutes ==
  ASSUME NEW m \in Nat, NEW n \in Nat PROVE m + n = n + m
  OBVIOUS

LEMMA InvOrders == SseInv => StreamsInOrder
  <1> SUFFICES ASSUME SseInv PROVE StreamsInOrder
    OBVIOUS
  <1>1. SessionsInOrder
    BY DEF SseInv, TableSound, SessionsInOrder
  <1>2. ASSUME NEW s \in Streams
        PROVE  /\ \A p \in Responses(s) : found[p] = s /\ ack[p] = "accepted"
               /\ Cardinality(Responses(s)) = Len(queue[s]) + Len(delivered[s])
    <2>1. Whole(s) \in Seq(Posts) /\ Injected(Whole(s))
      BY WholeIsSeq DEF SseInv, Placed
    <2>2. Responses(s) = {Whole(s)[i] : i \in 1..Len(Whole(s))}
      BY ResponsesAreWhole DEF SseInv
    <2>3. \A p \in Responses(s) : found[p] = s /\ ack[p] = "accepted"
      BY <2>2 DEF SseInv, Placed
    <2>4. Cardinality(Responses(s)) = Len(Whole(s))
      BY <2>1, <2>2, InjectedCardinality
    <2>5. Len(Whole(s)) = Len(delivered[s]) + Len(queue[s])
      BY WholeIsSeq DEF SseInv
    <2>6. Len(delivered[s]) \in Nat /\ Len(queue[s]) \in Nat
      BY LenProperties DEF SseInv, SseTypeOK
    <2>7. Len(delivered[s]) + Len(queue[s]) = Len(queue[s]) + Len(delivered[s])
      BY <2>6, PlusCommutes
    <2> QED BY <2>3, <2>4, <2>5, <2>7
  <1>3. ASSUME NEW p \in Posts, ack[p] = "accepted", stream[found[p]] = "open"
        PROVE  p \in Responses(found[p])
    <2>1. found[p] \in Streams
      BY <1>3 DEF SseInv, PostsFound
    <2>2. \E i \in 1..Len(Whole(found[p])) : Whole(found[p])[i] = p
      BY <1>3, <2>1 DEF SseInv, NoneLost
    <2> QED BY <2>1, <2>2, ResponsesAreWhole DEF SseInv
  <1> QED BY <1>1, <1>2, <1>3 DEF StreamsInOrder, AnswersOnOwnStream

LEMMA InvInit == SseInit => SseInv
  <1> SUFFICES ASSUME SseInit PROVE SseInv
    OBVIOUS
  <1>1. SseTypeOK
    BY EmptySeq DEF SseInit, SseTypeOK
  <1>2. \A s \in Streams : Len(Whole(s)) = 0
    <2> SUFFICES ASSUME NEW s \in Streams PROVE Len(Whole(s)) = 0
      OBVIOUS
    <2>1. Len(delivered[s]) = 0 /\ Len(queue[s]) = 0
      BY EmptySeq DEF SseInit
    <2>2. Len(Whole(s)) = Len(delivered[s]) + Len(queue[s])
      BY <1>1, WholeIsSeq
    <2> QED BY <2>1, <2>2
  <1>3. Placed
    BY <1>2 DEF Placed, Injected
  <1>4. Asked /\ TableSound /\ Distinct /\ OpenStreamsFound /\ PostsFound /\ Unanswered /\ NoneLost
    BY DEF SseInit, Asked, TableSound, Distinct, OpenStreamsFound, PostsFound, Unanswered, NoneLost
  <1> QED BY <1>1, <1>3, <1>4 DEF SseInv

-----------------------------------------------------------------------------
(* The two ways in which a stream's sequence moves. *)

\* Delivering the first event of the queue leaves the whole as it is.
LEMMA DeliverKeepsWhole ==
  ASSUME NEW S, NEW D \in Seq(S), NEW Q \in Seq(S), Q # <<>>
  PROVE  /\ Append(D, Head(Q)) \o Tail(Q) = D \o Q
         /\ Append(D, Head(Q)) \in Seq(S) /\ Tail(Q) \in Seq(S)
  <1> DEFINE A == Append(D, Head(Q))
             T == Tail(Q)
  <1>1. /\ Head(Q) \in S /\ Head(Q) = Q[1]
        /\ T \in Seq(S) /\ Len(T) = Len(Q) - 1
        /\ \A i \in 1..Len(T) : T[i] = Q[i + 1]
    BY HeadTailProperties
  <1>2. /\ A \in Seq(S) /\ Len(A) = Len(D) + 1
        /\ \A i \in 1..Len(D) : A[i] = D[i]
        /\ A[Len(D) + 1] = Q[1]
    BY <1>1, AppendProperties
  <1>3. Len(D) \in Nat /\ Len(Q) \in Nat /\ Len(Q) >= 1
    BY LenProperties, EmptySeq
  <1> HIDE DEF A, T
  <1>4. /\ A \o T \in Seq(S) /\ Len(A \o T) = Len(D) + Len(Q)
        /\ \A i \in 1..Len(A) + Len(T) :
             (A \o T)[i] = IF i <= Len(A) THEN A[i] ELSE T[i - Len(A)]
    <2>1. /\ A \o T \in Seq(S) /\ Len(A \o T) = Len(A) + Len(T)
          /\ \A i \in 1..Len(A) + Len(T) :
               (A \o T)[i] = IF i <= Len(A) THEN A[i] ELSE T[i - Len(A)]
      BY <1>1, <1>2, ConcatProperties
    <2>2. Len(A) + Len(T) = Len(D) + Len(Q)
      BY <1>1, <1>2, <1>3
    <2> QED BY <2>1, <2>2
  <1>5. /\ D \o Q \in Seq(S) /\ Len(D \o Q) = Len(D) + Len(Q)
        /\ \A i \in 1..Len(D) + Len(Q) :
             (D \o Q)[i] = IF i <= Len(D) THEN D[i] ELSE Q[i - Len(D)]
    BY ConcatProperties
  <1>6. ASSUME NEW i \in 1..Len(D) + Len(Q) PROVE (A \o T)[i] = (D \o Q)[i]
    <2>1. CASE i <= Len(D)
      BY <2>1, <1>2, <1>1, <1>3, <1>4, <1>5
    <2>2. CASE i = Len(D) + 1
      BY <2>2, <1>2, <1>1, <1>3, <1>4, <1>5
    <2>3. CASE i > Len(D) + 1
      <3>1. i - Len(A) \in 1..Len(T) /\ (i - Len(A)) + 1 = i - Len(D)
        BY <2>3, <1>1, <1>2, <1>3
      <3>2. (A \o T)[i] = T[i - Len(A)]
        BY <2>3, <1>1, <1>2, <1>3, <1>4
      <3>3. (D \o Q)[i] = Q[i - Len(D)]
        BY <2>3, <1>3, <1>5
      <3> QED BY <3>1, <3>2, <3>3, <1>1
    <2>4. i \in Nat /\ (i <= Len(D) \/ i = Len(D) + 1 \/ i > Len(D) + 1)
      BY <1>3
    <2> QED BY <2>1, <2>2, <2>3, <2>4
  <1>7. A \o T = D \o Q
    BY <1>4, <1>5, <1>6, SeqEqual
  <1> QED BY <1>1, <1>2, <1>7 DEF A, T

\* A response put into the queue comes after the whole.
LEMMA SendExtendsWhole ==
  ASSUME NEW S, NEW D \in Seq(S), NEW Q \in Seq(S), NEW p \in S
  PROVE  /\ D \o Append(Q, p) = Append(D \o Q, p)
         /\ Append(Q, p) \in Seq(S)
  <1> DEFINE A == Append(Q, p)
             W == D \o Q
  <1>1. /\ A \in Seq(S) /\ Len(A) = Len(Q) + 1
        /\ \A i \in 1..Len(Q) : A[i] = Q[i]
        /\ A[Len(Q) + 1] = p
    BY AppendProperties
  <1>2. Len(D) \in Nat /\ Len(Q) \in Nat
    BY LenProperties
  <1>3. /\ W \in Seq(S) /\ Len(W) = Len(D) + Len(Q)
        /\ \A i \in 1..Len(D) + Len(Q) : W[i] = IF i <= Len(D) THEN D[i] ELSE Q[i - Len(D)]
    BY ConcatProperties
  <1> HIDE DEF A, W
  <1>4. /\ D \o A \in Seq(S) /\ Len(D \o A) = Len(D) + Len(A)
        /\ \A i \in 1..Len(D) + Len(A) : (D \o A)[i] = IF i <= Len(D) THEN D[i] ELSE A[i - Len(D)]
    BY <1>1, ConcatProperties
  <1>5. /\ Append(W, p) \in Seq(S) /\ Len(Append(W, p)) = Len(W) + 1
        /\ \A i \in 1..Len(W) : Append(W, p)[i] = W[i]
        /\ Append(W, p)[Len(W) + 1] = p
    <2>1. W \in Seq(S)
      BY <1>3
    <2> QED BY <2>1, AppendProperties
  <1>6. ASSUME NEW i \in 1..Len(W) + 1 PROVE (D \o A)[i] = Append(W, p)[i]
    <2>1. CASE i <= Len(D)
      BY <2>1, <1>1, <1>2, <1>3, <1>4, <1>5
    <2>2. CASE i > Len(D) /\ i <= Len(W)
      <3>1. i - Len(D) \in 1..Len(Q)
        BY <2>2, <1>2, <1>3
      <3>2. (D \o A)[i] = A[i - Len(D)] /\ Append(W, p)[i] = W[i] /\ W[i] = Q[i - Len(D)]
        BY <2>2, <1>1, <1>2, <1>3, <1>4, <1>5
      <3> QED BY <3>1, <3>2, <1>1
    <2>3. CASE i = Len(W) + 1
      <3>1. i - Len(D) = Len(Q) + 1
        BY <2>3, <1>2, <1>3
      <3>2. (D \o A)[i] = A[i - Len(D)] /\ Append(W, p)[i] = p
        BY <2>3, <1>1, <1>2, <1>3, <1>4, <1>5
      <3> QED BY <3>1, <3>2, <1>1
    <2>4. i <= Len(D) \/ (i > Len(D) /\ i <= Len(W)) \/ i = Len(W) + 1
      <3>1. Len(W) = Len(D) + Len(Q)
        BY <1>3
      <3>2. Len(W) \in Nat
        BY <1>2, <3>1
      <3>3. i <= Len(W) \/ i = Len(W) + 1
        BY <3>2
      <3>4. i \in Nat
        BY <3>2
      <3> QED BY <1>2, <3>3, <3>4
    <2> QED BY <2>1, <2>2, <2>3, <2>4
  <1>7. Len(D \o A) = Len(W) + 1
    BY <1>1, <1>2, <1>3, <1>4
  <1>8. D \o A = Append(W, p)
    BY <1>4, <1>5, <1>6, <1>7, SeqEqual
  <1> QED BY <1>1, <1>8 DEF A, W

-----------------------------------------------------------------------------
(* Every step keeps the types, the table and what the POSTs found. *)

LEMMA StepTypes == SseInv /\ [SseNext]_sseVars => SseTypeOK'
  <1> SUFFICES ASSUME SseInv, [SseNext]_sseVars PROVE SseTypeOK'
    OBVIOUS
  <1> USE DEF SseInv, SseTypeOK
  <1>1. ASSUME NEW s \in Streams, NEW n \in Sessions, OpenStream(s, n) PROVE SseTypeOK'
    BY <1>1 DEF OpenStream, postVars
  <1>2. ASSUME NEW s \in Streams, DeliverEvent(s) PROVE SseTypeOK'
    <2>1. delivered[s] \in Seq(Posts) /\ queue[s] \in Seq(Posts) /\ queue[s] # <<>>
      BY <1>2 DEF DeliverEvent
    <2>2. Append(delivered[s], Head(queue[s])) \in Seq(Posts) /\ Tail(queue[s]) \in Seq(Posts)
      BY <2>1, DeliverKeepsWhole
    <2>3. delivered' \in [Streams -> Seq(Posts)] /\ queue' \in [Streams -> Seq(Posts)]
      BY <1>2, <2>2 DEF DeliverEvent
    <2> QED BY <1>2, <2>3 DEF DeliverEvent, postVars
  <1>3. ASSUME NEW s \in Streams, DropReceiver(s) PROVE SseTypeOK'
    BY <1>3, EmptySeq DEF DropReceiver, postVars
  <1>4. ASSUME NEW s \in Streams, DropGuard(s) PROVE SseTypeOK'
    BY <1>4 DEF DropGuard, ForgetSession, postVars
  <1>5. ASSUME NEW p \in Posts, NEW n \in Sessions, FindStream(p, n) PROVE SseTypeOK'
    BY <1>5 DEF FindStream, FinishPost, streamVars
  <1>6. ASSUME NEW p \in Posts, ReadBody(p) PROVE SseTypeOK'
    BY <1>6 DEF ReadBody, FinishPost, streamVars
  <1>7. ASSUME NEW p \in Posts, SendEvent(p) PROVE SseTypeOK'
    <2>1. found[p] \in Streams
      BY <1>7 DEF SendEvent, PostsFound
    <2>2. queue[found[p]] \in Seq(Posts)
      BY <2>1
    <2>3. Append(queue[found[p]], p) \in Seq(Posts)
      BY <2>2, AppendProperties
    <2>4. queue' \in [Streams -> Seq(Posts)]
      BY <1>7, <2>1, <2>3 DEF SendEvent
    <2> QED BY <1>7, <2>4 DEF SendEvent, FinishPost
  <1>8. ASSUME NEW p \in Posts, LosePost(p) PROVE SseTypeOK'
    BY <1>8 DEF LosePost, FinishPost, streamVars
  <1>9. CASE CloseSessions
    BY <1>9 DEF CloseSessions, streamVars, postVars
  <1>10. CASE UNCHANGED sseVars
    BY <1>10 DEF sseVars, streamVars, postVars
  <1> QED
    BY <1>1, <1>2, <1>3, <1>4, <1>5, <1>6, <1>7, <1>8, <1>9, <1>10
    DEF SseNext, StreamStep, PostStep, EndStream, LoseStream

TableInv == Asked /\ TableSound /\ Distinct /\ (~ReuseNames => OpenStreamsFound)

LEMMA StepTable == SseInv /\ [SseNext]_sseVars => TableInv'
  <1> SUFFICES ASSUME SseInv, [SseNext]_sseVars PROVE TableInv'
    OBVIOUS
  <1> USE SessionAssumption DEF SseInv, SseTypeOK, SessionAssumption
  <1>1. ASSUME NEW s \in Streams, NEW n \in Sessions, OpenStream(s, n) PROVE TableInv'
    <2>1. \A t \in Streams : session'[t] = IF t = s THEN n ELSE session[t]
      BY <1>1 DEF OpenStream
    <2>2. \A t \in Streams : t # s => stream'[t] = stream[t]
      BY <1>1 DEF OpenStream
    <2>3. \A m \in Sessions : sessions[m] # s
      <3>1. stream[s] = "idle" /\ s # NoStream
        BY <1>1 DEF OpenStream
      <3> QED BY <3>1 DEF TableSound
    <2>4. Asked'
      BY <2>1, <2>2 DEF Asked
    <2>5. Distinct'
      BY <1>1, <2>1 DEF Distinct, OpenStream, MayName
    <2>6. CASE sessions[n] = NoStream
      <3>1. /\ \A m \in Sessions : sessions'[m] = IF m = n THEN s ELSE sessions[m]
            /\ stream'[s] = "open" /\ told' = told
        BY <1>1, <2>6 DEF OpenStream
      <3>2. TableSound'
        <4> SUFFICES ASSUME NEW m \in Sessions, sessions'[m] # NoStream
                     PROVE  session'[sessions'[m]] = m /\ stream'[sessions'[m]] \in {"open", "leaving"}
          BY DEF TableSound
        <4>1. CASE m = n
          BY <4>1, <2>1, <3>1
        <4>2. CASE m # n
          <5>1. sessions'[m] = sessions[m] /\ sessions[m] \in Streams /\ sessions[m] # s
            BY <4>2, <2>3, <3>1
          <5>2. session[sessions[m]] = m /\ stream[sessions[m]] \in {"open", "leaving"}
            BY <5>1 DEF TableSound
          <5> QED BY <5>1, <5>2, <2>1, <2>2
        <4> QED BY <4>1, <4>2
      <3>3. ~ReuseNames => OpenStreamsFound'
        BY <1>1, <2>1, <2>2, <3>1 DEF OpenStreamsFound, OpenStream, MayName, Asked
      <3> QED BY <2>4, <2>5, <3>2, <3>3 DEF TableInv
    <2>7. CASE sessions[n] # NoStream
      <3>1. sessions' = sessions /\ stream'[s] = "refused" /\ told' = told
        BY <1>1, <2>7 DEF OpenStream
      <3>2. TableSound'
        BY <2>1, <2>2, <2>3, <3>1 DEF TableSound
      <3>3. ~ReuseNames => OpenStreamsFound'
        BY <2>1, <2>2, <3>1 DEF OpenStreamsFound
      <3> QED BY <2>4, <2>5, <3>2, <3>3 DEF TableInv
    <2> QED BY <2>6, <2>7
  <1>2. ASSUME NEW s \in Streams, DropReceiver(s) PROVE TableInv'
    <2>1. /\ \A t \in Streams : stream'[t] = IF t = s THEN "leaving" ELSE stream[t]
          /\ stream[s] = "open"
          /\ sessions' = sessions /\ session' = session /\ told' = told
      BY <1>2 DEF DropReceiver
    <2>2. Asked' /\ Distinct'
      BY <2>1 DEF Asked, Distinct
    <2>3. TableSound'
      BY <2>1 DEF TableSound
    <2>4. ~ReuseNames => OpenStreamsFound'
      BY <2>1 DEF OpenStreamsFound
    <2> QED BY <2>2, <2>3, <2>4 DEF TableInv
  <1>3. ASSUME NEW s \in Streams, DropGuard(s) PROVE TableInv'
    <2>1. /\ \A t \in Streams : stream'[t] = IF t = s THEN "gone" ELSE stream[t]
          /\ stream[s] = "leaving" /\ session' = session /\ told' = told
          /\ \A m \in Sessions : sessions'[m] = IF m = session[s] THEN NoStream ELSE sessions[m]
      BY <1>3 DEF DropGuard, ForgetSession
    <2>2. Asked' /\ Distinct'
      BY <2>1 DEF Asked, Distinct
    <2>3. \A m \in Sessions : sessions'[m] # NoStream => sessions[m] # s
      BY <2>1 DEF TableSound
    <2>4. TableSound'
      BY <2>1, <2>3 DEF TableSound
    <2>5. ASSUME ~ReuseNames PROVE OpenStreamsFound'
      <3>1. \A t \in Streams : stream'[t] = "open" => t # s /\ stream[t] = "open"
        BY <2>1
      <3>2. \A t \in Streams : stream'[t] = "open" => session[t] # session[s]
        BY <2>5, <2>1, <3>1 DEF Distinct, Asked
      <3>3. \A t \in Streams : stream'[t] = "open" => session[t] \in Sessions
        BY <3>1 DEF Asked
      <3> QED BY <2>5, <2>1, <3>1, <3>2, <3>3 DEF OpenStreamsFound
    <2> QED BY <2>2, <2>4, <2>5 DEF TableInv
  <1>4. CASE CloseSessions
    <2>1. /\ \A m \in Sessions : sessions'[m] = NoStream
          /\ told' = told \cup {s \in Streams : \E n \in Sessions : sessions[n] = s}
          /\ stream' = stream /\ session' = session
      BY <1>4 DEF CloseSessions, streamVars
    <2>2. Asked' /\ Distinct' /\ TableSound'
      BY <2>1 DEF Asked, Distinct, TableSound
    <2>3. ~ReuseNames => OpenStreamsFound'
      BY <2>1 DEF OpenStreamsFound, Asked
    <2> QED BY <2>2, <2>3 DEF TableInv
  <1>5. CASE UNCHANGED <<sessions, stream, session, told>>
    BY <1>5 DEF TableInv, Asked, TableSound, Distinct, OpenStreamsFound
  <1>6. ASSUME NEW s \in Streams, DeliverEvent(s) PROVE TableInv'
    BY <1>5, <1>6 DEF DeliverEvent
  <1>7. ASSUME NEW p \in Posts PROVE (\E n \in Sessions : FindStream(p, n)) => TableInv'
    BY <1>5 DEF FindStream, streamVars
  <1>8. ASSUME NEW p \in Posts PROVE ReadBody(p) \/ SendEvent(p) \/ LosePost(p) => TableInv'
    BY <1>5 DEF ReadBody, SendEvent, LosePost, streamVars
  <1>9. UNCHANGED sseVars => TableInv'
    BY <1>5 DEF sseVars, streamVars
  <1> QED
    BY <1>1, <1>2, <1>3, <1>4, <1>6, <1>7, <1>8, <1>9
    DEF SseNext, StreamStep, PostStep, EndStream, LoseStream

PostInv == PostsFound /\ Unanswered

LEMMA StepPosts == SseInv /\ [SseNext]_sseVars => PostInv'
  <1> SUFFICES ASSUME SseInv, [SseNext]_sseVars PROVE PostInv'
    OBVIOUS
  <1> USE SessionAssumption DEF SseInv, SseTypeOK, SessionAssumption
  \* Streams that were opened stay so.
  <1>1. ASSUME UNCHANGED postVars,
               \A s \in Streams : stream[s] \in {"open", "leaving", "gone"} =>
                                  stream'[s] \in {"open", "leaving", "gone"}
        PROVE  PostInv'
    BY <1>1 DEF PostInv, PostsFound, Unanswered, postVars
  <1>2. ASSUME NEW s \in Streams, NEW n \in Sessions, OpenStream(s, n) PROVE PostInv'
    BY <1>1, <1>2 DEF OpenStream
  <1>3. ASSUME NEW s \in Streams, DeliverEvent(s) \/ DropReceiver(s) \/ DropGuard(s) PROVE PostInv'
    BY <1>1, <1>3 DEF DeliverEvent, DropReceiver, DropGuard
  <1>4. CASE CloseSessions \/ UNCHANGED sseVars
    BY <1>1, <1>4 DEF CloseSessions, sseVars, streamVars
  <1>5. ASSUME NEW p \in Posts, NEW n \in Sessions, FindStream(p, n) PROVE PostInv'
    <2>1. stream' = stream /\ \A q \in Posts : q # p =>
            post'[q] = post[q] /\ found'[q] = found[q] /\ ack'[q] = ack[q]
      BY <1>5 DEF FindStream, FinishPost, streamVars
    <2>2. CASE sessions[n] = NoStream
      <3>1. post'[p] = "done" /\ ack'[p] = "missing"
        BY <1>5, <2>2 DEF FindStream, FinishPost
      <3> QED BY <2>1, <3>1 DEF PostInv, PostsFound, Unanswered
    <2>3. CASE sessions[n] # NoStream
      <3>1. post'[p] = "reading" /\ ack'[p] = ack[p] /\ found'[p] = sessions[n] /\ post[p] = "idle"
        BY <1>5, <2>3 DEF FindStream
      <3>2. sessions[n] \in Streams /\ stream[sessions[n]] \in {"open", "leaving"}
        BY <2>3 DEF TableSound
      <3> QED BY <2>1, <3>1, <3>2 DEF PostInv, PostsFound, Unanswered
    <2> QED BY <2>2, <2>3
  <1>6. ASSUME NEW p \in Posts, ReadBody(p) \/ LosePost(p) PROVE PostInv'
    <2>1. /\ stream' = stream /\ found' = found
          /\ \A q \in Posts : q # p => post'[q] = post[q] /\ ack'[q] = ack[q]
          /\ post[p] \in {"reading", "answering"}
          /\ \/ post'[p] = "answering" /\ ack'[p] = ack[p]
             \/ post'[p] = "done" /\ ack'[p] # "accepted"
      BY <1>6 DEF ReadBody, LosePost, FinishPost, streamVars
    <2> QED BY <2>1 DEF PostInv, PostsFound, Unanswered
  <1>7. ASSUME NEW p \in Posts, SendEvent(p) PROVE PostInv'
    <2>1. /\ stream' = stream /\ found' = found
          /\ \A q \in Posts : q # p => post'[q] = post[q] /\ ack'[q] = ack[q]
          /\ post[p] = "answering" /\ post'[p] = "done"
      BY <1>7 DEF SendEvent, FinishPost
    <2> QED BY <2>1 DEF PostInv, PostsFound, Unanswered
  <1> QED
    BY <1>2, <1>3, <1>4, <1>5, <1>6, <1>7
    DEF SseNext, StreamStep, PostStep, EndStream, LoseStream

-----------------------------------------------------------------------------
(* Every step keeps the responses where they were put. *)

AnswerInv == Placed /\ NoneLost

LEMMA MembersArePosts ==
  ASSUME SseTypeOK, NEW s \in Streams, NEW i \in 1..Len(Whole(s))
  PROVE  Whole(s)[i] \in Posts
  <1>1. Whole(s) \in Seq(Posts)
    BY WholeIsSeq
  <1> QED BY <1>1, ElementOfSeq

LEMMA WholesKept ==
  ASSUME SseInv,
         \A s \in Streams : Whole(s)' = Whole(s),
         \A p \in Posts : ack[p] = "accepted" => found'[p] = found[p],
         \A p \in Posts : ack'[p] = "accepted" <=> ack[p] = "accepted",
         \A s \in Streams : stream'[s] = "open" => stream[s] \in {"idle", "open"}
  PROVE  AnswerInv'
  <1>1. ASSUME NEW s \in Streams
        PROVE  /\ Injected(Whole(s)')
               /\ \A i \in 1..Len(Whole(s)') :
                    found'[Whole(s)'[i]] = s /\ ack'[Whole(s)'[i]] = "accepted"
    <2> DEFINE W == Whole(s)
    <2>1. Whole(s)' = W
      OBVIOUS
    <2>2. /\ Injected(W)
          /\ \A i \in 1..Len(W) : found[W[i]] = s /\ ack[W[i]] = "accepted"
      BY DEF SseInv, Placed
    <2>3. \A i \in 1..Len(W) : W[i] \in Posts
      BY MembersArePosts DEF SseInv
    <2> HIDE DEF W
    <2>4. \A i \in 1..Len(W) : found'[W[i]] = s /\ ack'[W[i]] = "accepted"
      BY <2>2, <2>3
    <2> QED BY <2>1, <2>2, <2>4
  <1>2. Placed'
    BY <1>1 DEF Placed, Injected
  <1>3. ASSUME NEW s \in Streams, NEW p \in Posts,
               stream'[s] = "open", found'[p] = s, ack'[p] = "accepted"
        PROVE  \E i \in 1..Len(Whole(s)') : Whole(s)'[i] = p
    <2>1. ack[p] = "accepted" /\ found[p] = s
      BY <1>3
    <2>2. stream[s] = "open"
      BY <1>3, <2>1 DEF SseInv, PostsFound
    <2>3. \E i \in 1..Len(Whole(s)) : Whole(s)[i] = p
      BY <2>1, <2>2 DEF SseInv, NoneLost
    <2> QED BY <2>3
  <1>4. NoneLost'
    BY <1>3 DEF NoneLost
  <1> QED BY <1>2, <1>4 DEF AnswerInv

\* A dropped receiver takes the queue with it: what its client got remains.
LEMMA DropKeepsAnswers ==
  ASSUME SseInv, NEW s \in Streams, DropReceiver(s)
  PROVE  AnswerInv'
  <1>1. /\ found' = found /\ ack' = ack
        /\ \A t \in Streams : stream'[t] = IF t = s THEN "leaving" ELSE stream[t]
        /\ \A t \in Streams : t # s => delivered'[t] = delivered[t] /\ queue'[t] = queue[t]
        /\ delivered'[s] = delivered[s] /\ queue'[s] = <<>>
    BY DEF SseInv, SseTypeOK, DropReceiver, postVars
  <1>2. \A t \in Streams : t # s => Whole(t)' = Whole(t)
    BY <1>1 DEF Whole
  <1>3. Whole(s)' = delivered[s]
    BY <1>1, ConcatEmptySeq DEF Whole, SseInv, SseTypeOK
  <1> DEFINE D == delivered[s]
             Q == queue[s]
             W == Whole(s)
  <1>4. /\ Len(D) \in Nat /\ Len(Q) \in Nat /\ Len(W) = Len(D) + Len(Q)
        /\ \A i \in 1..Len(D) : W[i] = D[i]
        /\ Injected(W)
        /\ \A i \in 1..Len(W) : found[W[i]] = s /\ ack[W[i]] = "accepted"
    BY WholeIsSeq, LenProperties DEF SseInv, SseTypeOK, Placed
  <1>5. Whole(s)' = D
    BY <1>3
  <1> HIDE DEF D, Q, W
  <1>6. \A i \in 1..Len(D) : i \in 1..Len(W)
    BY <1>4
  <1>7. Injected(D) /\ \A i \in 1..Len(D) : found[D[i]] = s /\ ack[D[i]] = "accepted"
    BY <1>4, <1>6 DEF Injected
  <1>8. ASSUME NEW t \in Streams
        PROVE  /\ Injected(Whole(t)')
               /\ \A i \in 1..Len(Whole(t)') : found'[Whole(t)'[i]] = t /\ ack'[Whole(t)'[i]] = "accepted"
    <2>1. CASE t = s
      BY <2>1, <1>1, <1>5, <1>7
    <2>2. CASE t # s
      BY <2>2, <1>1, <1>2 DEF SseInv, Placed
    <2> QED BY <2>1, <2>2
  <1>9. Placed'
    BY <1>8 DEF Placed, Injected
  <1>10. ASSUME NEW t \in Streams, NEW p \in Posts,
                stream'[t] = "open", found'[p] = t, ack'[p] = "accepted"
         PROVE  \E i \in 1..Len(Whole(t)') : Whole(t)'[i] = p
    <2>1. t # s /\ stream[t] = "open" /\ found[p] = t /\ ack[p] = "accepted"
      BY <1>10, <1>1
    <2>2. \E i \in 1..Len(Whole(t)) : Whole(t)[i] = p
      BY <2>1 DEF SseInv, NoneLost
    <2> QED BY <1>2, <2>1, <2>2
  <1>11. NoneLost'
    BY <1>10 DEF NoneLost
  <1> QED BY <1>9, <1>11 DEF AnswerInv

\* A response that enters a queue was in no stream's sequence before.
LEMMA SendKeepsAnswers ==
  ASSUME SseInv, NEW p \in Posts, SendEvent(p), stream[found[p]] = "open"
  PROVE  AnswerInv'
  <1>9. PICK s \in Streams : found[p] = s
    BY DEF SendEvent, SseInv, PostsFound
  <1> DEFINE W == Whole(s)
  <1>1. s \in Streams /\ post[p] = "answering" /\ ack[p] = "none"
    BY DEF SendEvent, SseInv, Unanswered
  <1>2. /\ stream' = stream /\ found' = found /\ delivered' = delivered
        /\ \A q \in Posts : ack'[q] = IF q = p THEN "accepted" ELSE ack[q]
        /\ \A t \in Streams : queue'[t] = IF t = s THEN Append(queue[t], p) ELSE queue[t]
    BY <1>1, <1>9 DEF SendEvent, FinishPost, SseInv, SseTypeOK
  <1>3. \A t \in Streams : t # s => Whole(t)' = Whole(t)
    BY <1>2 DEF Whole
  <1>4. delivered[s] \in Seq(Posts) /\ queue[s] \in Seq(Posts)
    BY <1>1 DEF SseInv, SseTypeOK
  <1>8. Whole(s)' = Append(W, p)
    <2>1. delivered'[s] = delivered[s] /\ queue'[s] = Append(queue[s], p)
      BY <1>2
    <2>2. delivered[s] \o Append(queue[s], p) = Append(delivered[s] \o queue[s], p)
      <3> DEFINE D == delivered[s]
                 Q == queue[s]
      <3>1. D \in Seq(Posts) /\ Q \in Seq(Posts)
        BY <1>4
      <3> HIDE DEF D, Q
      <3>2. D \o Append(Q, p) = Append(D \o Q, p)
        BY <3>1, SendExtendsWhole
      <3> QED BY <3>2 DEF D, Q
    <2> QED BY <2>1, <2>2 DEF Whole
  <1>6. W \in Seq(Posts) /\ Len(W) \in Nat
    BY <1>1, WholeIsSeq, LenProperties DEF SseInv
  <1>7. /\ Injected(W)
        /\ \A i \in 1..Len(W) : W[i] \in Posts /\ found[W[i]] = s /\ ack[W[i]] = "accepted"
    BY <1>1, <1>9, MembersArePosts DEF SseInv, Placed
  <1> HIDE DEF W
  <1> DEFINE A == Append(W, p)
  <1>10. /\ Len(A) = Len(W) + 1
         /\ \A i \in 1..Len(W) : A[i] = W[i]
         /\ A[Len(W) + 1] = p
    BY <1>6, AppendProperties
  <1>11. \A i \in 1..Len(W) : W[i] # p
    BY <1>1, <1>7
  <1>12. Whole(s)' = A
    BY <1>8
  <1> HIDE DEF A
  <1>13. \A i \in 1..Len(A) : i \in 1..Len(W) \/ i = Len(W) + 1
    BY <1>6, <1>10
  <1>14. Injected(A)
    BY <1>7, <1>10, <1>11, <1>13 DEF Injected
  <1>15. \A i \in 1..Len(A) : found'[A[i]] = s /\ ack'[A[i]] = "accepted"
    BY <1>2, <1>7, <1>9, <1>10, <1>13
  <1>16. ASSUME NEW t \in Streams
         PROVE  /\ Injected(Whole(t)')
                /\ \A i \in 1..Len(Whole(t)') : found'[Whole(t)'[i]] = t /\ ack'[Whole(t)'[i]] = "accepted"
    <2>1. CASE t = s
      BY <2>1, <1>12, <1>14, <1>15
    <2>2. CASE t # s
      <3> DEFINE V == Whole(t)
      <3>1. Whole(t)' = V
        BY <2>2, <1>3
      <3>2. /\ Injected(V)
            /\ \A i \in 1..Len(V) : V[i] \in Posts /\ found[V[i]] = t /\ ack[V[i]] = "accepted"
        BY MembersArePosts DEF SseInv, Placed
      <3> HIDE DEF V
      <3>3. \A i \in 1..Len(V) : found'[V[i]] = t /\ ack'[V[i]] = "accepted"
        BY <1>2, <3>2
      <3> QED BY <3>1, <3>2, <3>3
    <2> QED BY <2>1, <2>2
  <1>17. Placed'
    BY <1>16 DEF Placed, Injected
  <1>18. ASSUME NEW t \in Streams, NEW q \in Posts,
                stream'[t] = "open", found'[q] = t, ack'[q] = "accepted"
         PROVE  \E i \in 1..Len(Whole(t)') : Whole(t)'[i] = q
    <2>1. CASE q = p
      <3>1. t = s
        BY <2>1, <1>18, <1>2, <1>9
      <3>2. Len(W) + 1 \in 1..Len(A) /\ A[Len(W) + 1] = q
        BY <2>1, <1>6, <1>10
      <3> QED BY <3>1, <3>2, <1>12
    <2>2. CASE q # p
      <3>1. \E i \in 1..Len(Whole(t)) : Whole(t)[i] = q
        BY <2>2, <1>18, <1>2 DEF SseInv, NoneLost
      <3>2. CASE t = s
        <4>1. PICK i \in 1..Len(W) : W[i] = q
          BY <3>1, <3>2 DEF W
        <4>2. i \in 1..Len(A) /\ A[i] = q
          BY <4>1, <1>6, <1>10
        <4> QED BY <4>2, <3>2, <1>12
      <3>3. CASE t # s
        BY <3>1, <3>3, <1>3
      <3> QED BY <3>2, <3>3
    <2> QED BY <2>1, <2>2
  <1>19. NoneLost'
    BY <1>18 DEF NoneLost
  <1> QED BY <1>17, <1>19 DEF AnswerInv

LEMMA StepAnswers == SseInv /\ [SseNext]_sseVars => AnswerInv'
  <1> SUFFICES ASSUME SseInv, [SseNext]_sseVars PROVE AnswerInv'
    OBVIOUS
  \* Nothing that the client got or will get, or that was accepted, moves.
  <1>1. ASSUME UNCHANGED <<queue, delivered>>,
               \A p \in Posts : ack[p] = "accepted" => found'[p] = found[p],
               \A p \in Posts : ack'[p] = "accepted" <=> ack[p] = "accepted",
               \A s \in Streams : stream'[s] = "open" => stream[s] \in {"idle", "open"}
        PROVE  AnswerInv'
    <2>1. \A s \in Streams : Whole(s)' = Whole(s)
      BY <1>1 DEF Whole
    <2> QED BY <1>1, <2>1, WholesKept
  <1>2. ASSUME NEW s \in Streams, NEW n \in Sessions, OpenStream(s, n) PROVE AnswerInv'
    <2>1. \A t \in Streams : stream'[t] = "open" => stream[t] \in {"idle", "open"}
      BY <1>2 DEF OpenStream, SseInv, SseTypeOK
    <2> QED BY <1>1, <1>2, <2>1 DEF OpenStream, postVars
  <1>3. ASSUME NEW s \in Streams, DeliverEvent(s) PROVE AnswerInv'
    <2>1. delivered[s] \in Seq(Posts) /\ queue[s] \in Seq(Posts) /\ queue[s] # <<>>
      BY <1>3 DEF DeliverEvent, SseInv, SseTypeOK
    <2>2. /\ delivered'[s] = Append(delivered[s], Head(queue[s])) /\ queue'[s] = Tail(queue[s])
          /\ \A t \in Streams : t # s => delivered'[t] = delivered[t] /\ queue'[t] = queue[t]
          /\ stream' = stream /\ found' = found /\ ack' = ack
      BY <1>3 DEF DeliverEvent, SseInv, SseTypeOK, postVars
    <2>3. Append(delivered[s], Head(queue[s])) \o Tail(queue[s]) = delivered[s] \o queue[s]
      BY <2>1, DeliverKeepsWhole
    <2>4. \A t \in Streams : Whole(t)' = Whole(t)
      BY <2>2, <2>3 DEF Whole
    <2> QED BY <2>2, <2>4, WholesKept
  <1>4. ASSUME NEW s \in Streams, DropReceiver(s) PROVE AnswerInv'
    BY <1>4, DropKeepsAnswers
  <1>5. ASSUME NEW s \in Streams, DropGuard(s) PROVE AnswerInv'
    <2>1. \A t \in Streams : stream'[t] = "open" => stream[t] \in {"idle", "open"}
      BY <1>5 DEF DropGuard, SseInv, SseTypeOK
    <2> QED BY <1>1, <1>5, <2>1 DEF DropGuard, postVars
  <1>6. ASSUME NEW p \in Posts, NEW n \in Sessions, FindStream(p, n) PROVE AnswerInv'
    <2>1. ack[p] = "none"
      BY <1>6 DEF FindStream, SseInv, Unanswered
    <2>2. /\ UNCHANGED <<queue, delivered, stream>>
          /\ \A q \in Posts : q # p => found'[q] = found[q] /\ ack'[q] = ack[q]
          /\ ack'[p] # "accepted"
      BY <1>6, <2>1 DEF FindStream, FinishPost, streamVars, SseInv, SseTypeOK
    <2> QED BY <1>1, <2>1, <2>2
  <1>7. ASSUME NEW p \in Posts, ReadBody(p) \/ LosePost(p) PROVE AnswerInv'
    <2>1. ack[p] = "none"
      BY <1>7 DEF ReadBody, LosePost, SseInv, Unanswered
    <2>2. /\ UNCHANGED <<queue, delivered, stream, found>>
          /\ \A q \in Posts : q # p => ack'[q] = ack[q]
          /\ ack'[p] # "accepted"
      BY <1>7, <2>1 DEF ReadBody, LosePost, FinishPost, streamVars, SseInv, SseTypeOK
    <2> QED BY <1>1, <2>1, <2>2
  <1>8. ASSUME NEW p \in Posts, SendEvent(p) PROVE AnswerInv'
    <2>1. CASE stream[found[p]] = "open"
      BY <1>8, <2>1, SendKeepsAnswers
    <2>2. CASE stream[found[p]] # "open"
      <3>1. ack[p] = "none"
        BY <1>8 DEF SendEvent, SseInv, Unanswered
      <3>2. /\ UNCHANGED <<queue, delivered, stream, found>>
            /\ \A q \in Posts : q # p => ack'[q] = ack[q]
            /\ ack'[p] # "accepted"
        BY <1>8, <2>2 DEF SendEvent, FinishPost, SseInv, SseTypeOK
      <3> QED BY <1>1, <3>1, <3>2
    <2> QED BY <2>1, <2>2
  <1>9. CASE CloseSessions \/ UNCHANGED sseVars
    BY <1>1, <1>9 DEF CloseSessions, sseVars, streamVars, postVars
  <1> QED
    BY <1>2, <1>3, <1>4, <1>5, <1>6, <1>7, <1>8, <1>9
    DEF SseNext, StreamStep, PostStep, EndStream, LoseStream

-----------------------------------------------------------------------------

LEMMA SseInvariant == SseSpec => []SseInv
  <1>1. SseInv /\ [SseNext]_sseVars => SseInv'
    BY StepTypes, StepTable, StepPosts, StepAnswers DEF SseInv, TableInv, PostInv, AnswerInv
  <1> QED BY InvInit, <1>1, PTL DEF SseSpec

\* The variables keep their types, for any streams, POSTs and sessions.
THEOREM SseTypes == SseSpec => []SseTypeOK
  <1>1. SseInv => SseTypeOK
    BY DEF SseInv
  <1> QED BY SseInvariant, <1>1, PTL

\* The table and the streams agree, with any reuse of sessions, and an open
\* stream is found if clients draw fresh ones; every response is in the stream
\* its POST found, once, and stays there while the stream is open, for queues of
\* any length and any interleaving of streams, POSTs and close_sessions.
THEOREM SseStreams == SseSpec => []StreamsInOrder
  BY SseInvariant, InvOrders, PTL

------------------------------------------------------------------------------
(* The answers to a document. *)

\* Flat is a loop that appends.
Joins(f, s, n) == f[0] = <<>> /\ \A i \in 1..n : f[i] = f[i - 1] \o s[i]
\* Joining is a loop that appends, one sequence a round (extend of dispatcher.rs).
LEMMA FlatLoop ==
  ASSUME NEW T, NEW s, NEW n \in Nat, Len(s) = n, \A i \in 1..n : s[i] \in Seq(T)
  PROVE  \E f \in [0..n -> Seq(T)] : Joins(f, s, n) /\ Flat(s) = f[n]
<1> DEFINE body == [i \in 1..n |-> [v \in Seq(T) |-> v \o s[i]]]
           f == CHOOSE f : f = [i \in 0..n |-> IF i = 0 THEN <<>> ELSE f[i - 1] \o s[i]]
<1>1. body \in [1..n -> [Seq(T) -> Seq(T)]]
  <2>1. ASSUME NEW i \in 1..n, NEW v \in Seq(T) PROVE v \o s[i] \in Seq(T)
    <3>1. s[i] \in Seq(T)
      OBVIOUS
    <3> QED BY <3>1, ConcatProperties
  <2> QED BY <2>1
<1>2. PICK g \in [0..n -> Seq(T)] : g[0] = <<>> /\ \A i \in 1..n : g[i] = body[i][g[i - 1]]
  <2> HIDE DEF body
  <2>0. <<>> \in Seq(T)
    OBVIOUS
  <2>1. HasLoop(n, Seq(T), <<>>, body)
    BY <1>1, <2>0, LoopExists
  <2> QED BY <2>1 DEF HasLoop
<1>3. ASSUME NEW i \in 1..n PROVE g[i] = g[i - 1] \o s[i]
  <2>1. i - 1 \in 0..n
    OBVIOUS
  <2>2. g[i - 1] \in Seq(T)
    BY <1>2, <2>1
  <2>3. body[i][g[i - 1]] = g[i - 1] \o s[i]
    BY <2>2
  <2> HIDE DEF body
  <2> QED BY <1>2, <2>3
<1> HIDE DEF body
<1>4. g = [i \in 0..n |-> IF i = 0 THEN <<>> ELSE g[i - 1] \o s[i]]
  <2>1. \A i \in 0..n : i # 0 => i \in 1..n
    OBVIOUS
  <2>2. \A i \in 0..n : g[i] = IF i = 0 THEN <<>> ELSE g[i - 1] \o s[i]
    BY <1>2, <1>3, <2>1
  <2> QED BY <1>2, <2>2
<1>5. f = [i \in 0..n |-> IF i = 0 THEN <<>> ELSE f[i - 1] \o s[i]]
  BY <1>4
<1>6. Flat(s) = f[n]
  BY DEF Flat
<1> HIDE DEF f
<1>7. f[0] = <<>> /\ \A i \in 1..n : f[i] = f[i - 1] \o s[i]
  <2>1. 0 \in 0..n /\ \A i \in 1..n : i \in 0..n /\ i # 0
    OBVIOUS
  <2> QED BY <1>5, <2>1
<1>8. \A i \in 0..n : f[i] \in Seq(T)
  <2> DEFINE S == {i \in 0..n : f[i] \in Seq(T)}
  <2>1. 0 \in S
    <3>1. f[0] \in Seq(T) /\ 0 \in 0..n
      BY <1>7, EmptySeq
    <3> QED BY <3>1
  <2>2. ASSUME NEW i \in 0..(n - 1), i \in S PROVE i + 1 \in S
    <3>1. i + 1 \in 1..n /\ i + 1 \in 0..n /\ (i + 1) - 1 = i
      OBVIOUS
    <3>2. f[i + 1] = f[i] \o s[i + 1] /\ s[i + 1] \in Seq(T) /\ f[i] \in Seq(T)
      BY <1>7, <2>2, <3>1
    <3>3. f[i + 1] \in Seq(T)
      BY <3>2, ConcatProperties
    <3> QED BY <3>1, <3>3
  <2> HIDE DEF S
  <2>3. 0..n \subseteq S
    BY <2>1, <2>2, UpToInduction
  <2> QED BY <2>3 DEF S
<1>9. f \in [0..n -> Seq(T)]
  <2>1. f = [i \in 0..n |-> f[i]]
    BY <1>5
  <2> QED BY <1>8, <2>1
<1> QED BY <1>6, <1>7, <1>9 DEF Joins

\* Sequences that are joined alike: as many elements, and at each place two that
\* stood at the same place.
Alike(s, t, R) == Len(s) = Len(t) /\ \A i \in 1..Len(s) : <<s[i], t[i]>> \in R
\* Two sequences joined with two that are alike stay alike.
LEMMA AlikeJoined ==
  ASSUME NEW A, NEW B, NEW R, NEW s \in Seq(A), NEW t \in Seq(B), Alike(s, t, R),
         NEW u \in Seq(A), NEW v \in Seq(B), Alike(u, v, R)
  PROVE  Alike(s \o u, t \o v, R)
<1> DEFINE x == s \o u
           y == t \o v
           n == Len(s)
           m == Len(u)
<1>1. /\ Len(x) = n + m /\ \A i \in 1..n + m : x[i] = IF i <= n THEN s[i] ELSE u[i - n]
  BY ConcatProperties
<1>2. /\ Len(y) = n + m /\ \A i \in 1..n + m : y[i] = IF i <= n THEN t[i] ELSE v[i - n]
  <2>1. Len(y) = Len(t) + Len(v) /\ \A i \in 1..Len(t) + Len(v) : y[i] = IF i <= Len(t) THEN t[i] ELSE v[i - Len(t)]
    BY ConcatProperties
  <2>2. Len(t) = n /\ Len(v) = m
    BY DEF Alike
  <2> HIDE DEF y, n, m
  <2> QED BY <2>1, <2>2
<1>3. n \in Nat /\ m \in Nat
  OBVIOUS
<1>4. (\A i \in 1..n : <<s[i], t[i]>> \in R) /\ (\A i \in 1..m : <<u[i], v[i]>> \in R)
  BY DEF Alike
<1> HIDE DEF x, y, n, m
<1>5. ASSUME NEW i \in 1..n + m PROVE <<x[i], y[i]>> \in R
  <2>1. CASE i <= n
    <3>1. i \in 1..n
      BY <1>3, <2>1
    <3> QED BY <1>1, <1>2, <1>4, <2>1, <3>1
  <2>2. CASE ~(i <= n)
    <3>1. i - n \in 1..m
      BY <1>3, <2>2
    <3> QED BY <1>1, <1>2, <1>4, <2>2, <3>1
  <2> QED BY <2>1, <2>2
<1>6. Len(x) = Len(y) /\ \A i \in 1..Len(x) : <<x[i], y[i]>> \in R
  BY <1>1, <1>2, <1>5
<1> QED BY <1>6 DEF Alike, x, y

\* Sequences that are alike one by one are alike when joined.
LEMMA FlatAlike ==
  ASSUME NEW A, NEW B, NEW R, NEW s, NEW t, NEW n \in Nat, Len(s) = n, Len(t) = n,
         \A i \in 1..n : s[i] \in Seq(A) /\ t[i] \in Seq(B) /\ Alike(s[i], t[i], R)
  PROVE  Flat(s) \in Seq(A) /\ Flat(t) \in Seq(B) /\ Alike(Flat(s), Flat(t), R)
<1>1. PICK f \in [0..n -> Seq(A)] : Joins(f, s, n) /\ Flat(s) = f[n]
  <2>1. \A i \in 1..n : s[i] \in Seq(A)
    OBVIOUS
  <2> QED BY <2>1, FlatLoop
<1>2. PICK g \in [0..n -> Seq(B)] : Joins(g, t, n) /\ Flat(t) = g[n]
  <2>1. \A i \in 1..n : t[i] \in Seq(B)
    OBVIOUS
  <2> QED BY <2>1, FlatLoop
<1> DEFINE S == {i \in 0..n : Alike(f[i], g[i], R)}
<1>3. 0 \in S
  BY <1>1, <1>2 DEF Alike, Joins
<1>4. ASSUME NEW i \in 0..(n - 1), i \in S PROVE i + 1 \in S
  <2>1. i + 1 \in 1..n /\ i + 1 \in 0..n /\ (i + 1) - 1 = i /\ i \in 0..n
    OBVIOUS
  <2>2. f[i + 1] = f[i] \o s[i + 1] /\ g[i + 1] = g[i] \o t[i + 1]
    BY <1>1, <1>2, <2>1 DEF Joins
  <2>3. /\ f[i] \in Seq(A) /\ g[i] \in Seq(B) /\ Alike(f[i], g[i], R)
        /\ s[i + 1] \in Seq(A) /\ t[i + 1] \in Seq(B) /\ Alike(s[i + 1], t[i + 1], R)
    BY <1>4, <2>1
  <2>4. Alike(f[i] \o s[i + 1], g[i] \o t[i + 1], R)
    BY <2>3, AlikeJoined
  <2> QED BY <2>1, <2>2, <2>4
<1> HIDE DEF S
<1>5. 0..n \subseteq S
  BY <1>3, <1>4, UpToInduction
<1>6. n \in S /\ n \in 0..n
  BY <1>5
<1> QED BY <1>1, <1>2, <1>6 DEF S

\* What is joined to nothing, and the sequences of one element.
LEMMA FlatOne ==
  ASSUME NEW T, NEW x \in Seq(T)
  PROVE  Flat(<<x>>) = x
<1> DEFINE s == <<x>>
           n == 1
<1>0. n \in Nat /\ n = 1 /\ Len(s) = n /\ (\A i \in 1..n : s[i] \in Seq(T)) /\ s[1] = x
  OBVIOUS
<1> HIDE DEF s, n
<1>1. PICK f \in [0..n -> Seq(T)] : Joins(f, s, n) /\ Flat(s) = f[n]
  <2>1. n \in Nat /\ Len(s) = n /\ \A i \in 1..n : s[i] \in Seq(T)
    BY <1>0
  <2> QED BY <2>1, FlatLoop
<1>2. f[1] = <<>> \o x
  <2>1. 1 \in 1..n /\ 1 - 1 = 0
    BY <1>0
  <2> QED BY <1>0, <1>1, <2>1 DEF Joins
<1>3. Flat(s) = x
  BY <1>0, <1>1, <1>2, ConcatEmptySeq
<1> QED BY <1>3 DEF s

\* Nothing joined is nothing.
LEMMA FlatNothing ==
  ASSUME NEW s, NEW n \in Nat, Len(s) = n, \A i \in 1..n : s[i] = <<>>
  PROVE  Flat(s) = <<>>
<1>1. \A i \in 1..n : s[i] \in Seq({}) /\ Alike(s[i], s[i], {})
  <2>1. <<>> \in Seq({}) /\ Alike(<<>>, <<>>, {})
    BY EmptySeq DEF Alike
  <2> QED BY <2>1
<1>2. Flat(s) \in Seq({})
  BY <1>1, FlatAlike
<1> QED BY <1>2

\* Sequences of the same one element join to as many of it.
LEMMA FlatSame ==
  ASSUME NEW s, NEW x, NEW y, y = <<x>>, NEW n \in Nat, Len(s) = n, \A i \in 1..n : s[i] = y
  PROVE  Flat(s) = [i \in 1..n |-> x]
<1>1. PICK f \in [0..n -> Seq({x})] : Joins(f, s, n) /\ Flat(s) = f[n]
  <2>1. \A i \in 1..n : s[i] \in Seq({x})
    <3>1. <<x>> \in Seq({x})
      OBVIOUS
    <3> QED BY <3>1
  <2> QED BY <2>1, FlatLoop
<1> DEFINE S == {i \in 0..n : Len(f[i]) = i}
<1>2. 0 \in S
  BY <1>1 DEF Joins
<1>3. ASSUME NEW i \in 0..(n - 1), i \in S PROVE i + 1 \in S
  <2>1. i + 1 \in 1..n /\ i + 1 \in 0..n /\ (i + 1) - 1 = i /\ i \in 0..n
    OBVIOUS
  <2>2. f[i + 1] = f[i] \o <<x>> /\ f[i] \in Seq({x})
    <3>1. f[i + 1] = f[i] \o s[i + 1] /\ s[i + 1] = <<x>>
      BY <1>1, <2>1 DEF Joins
    <3> QED BY <1>1, <2>1, <3>1
  <2>3. Len(f[i] \o <<x>>) = Len(f[i]) + Len(<<x>>)
    <3>1. <<x>> \in Seq({x})
      OBVIOUS
    <3> QED BY <2>2, <3>1, ConcatProperties
  <2>4. Len(f[i + 1]) = i + 1
    BY <1>3, <2>2, <2>3
  <2> QED BY <2>1, <2>4
<1> HIDE DEF S
<1>4. 0..n \subseteq S
  BY <1>2, <1>3, UpToInduction
<1>5. n \in S /\ n \in 0..n
  BY <1>4
<1>6. Len(f[n]) = n /\ f[n] \in Seq({x})
  BY <1>1, <1>5 DEF S
<1>7. f[n] = [i \in 1..n |-> x]
  <2> DEFINE g == f[n]
  <2>1. g \in Seq({x}) /\ Len(g) = n
    BY <1>6
  <2> HIDE DEF g
  <2>2. g = [i \in 1..n |-> g[i]]
    BY <2>1
  <2>3. \A i \in 1..n : g[i] \in {x}
    BY <2>1
  <2>4. g = [i \in 1..n |-> x]
    BY <2>2, <2>3
  <2> QED BY <2>4 DEF g
<1> QED BY <1>1, <1>7

-----------------------------------------------------------------------------
(* The numbers in a value. *)

Inside(S) == UNION {Parts(w) : w \in S}
\* The loop over what is pending, as a recursion.
LEMMA PendingLoop ==
  ASSUME NEW v
  PROVE  /\ Pending(v)[0] = {v}
         /\ \A k \in 0..(MaxNesting - 1) : Pending(v)[k + 1] = Inside(Pending(v)[k])
<1> DEFINE N == MaxNesting
           Goes(m, g) == g[0] = {v} /\ \A i \in 1..m : g[i] = Inside(g[i - 1])
           S == {m \in 0..N : \E g : Goes(m, g)}
           f == CHOOSE f : f = [level \in 0..N |-> IF level = 0 THEN {v} ELSE Inside(f[level - 1])]
<1>0. N \in Nat
  BY MessagesAssumption
<1> HIDE DEF N
<1>1. 0 \in S
  <2> DEFINE g == [i \in 0..0 |-> {v}]
  <2>1. Goes(0, g)
    OBVIOUS
  <2> HIDE DEF Goes
  <2> QED BY <1>0, <2>1
<1>2. ASSUME NEW m \in 0..(N - 1), m \in S
      PROVE  m + 1 \in S
  <2>1. PICK g : Goes(m, g)
    BY <1>2
  <2> DEFINE h == [i \in 0..(m + 1) |-> IF i = m + 1 THEN Inside(g[m]) ELSE g[i]]
  <2>2. (\A i \in 0..m : h[i] = g[i]) /\ h[m + 1] = Inside(g[m])
    BY <1>0
  <2> HIDE DEF h
  <2>3. Goes(m + 1, h)
    <3>1. h[0] = {v}
      BY <1>0, <2>1, <2>2
    <3>2. ASSUME NEW i \in 1..(m + 1) PROVE h[i] = Inside(h[i - 1])
      <4>1. CASE i = m + 1
        <5>1. i - 1 = m /\ m \in 0..m
          BY <1>0, <4>1
        <5> QED BY <2>2, <4>1, <5>1
      <4>2. CASE i # m + 1
        <5>1. i \in 1..m /\ i \in 0..m /\ i - 1 \in 0..m
          BY <1>0, <4>2
        <5> QED BY <2>1, <2>2, <5>1
      <4> QED BY <4>1, <4>2
    <3> QED BY <3>1, <3>2
  <2>4. m + 1 \in 0..N
    BY <1>0
  <2> HIDE DEF Goes
  <2> QED BY <2>3, <2>4
<1>3. 0..N \subseteq S
  <2> HIDE DEF S
  <2> QED BY <1>0, <1>1, <1>2, UpToInduction
<1>4. PICK g : Goes(N, g)
  <2>1. N \in 0..N
    BY <1>0
  <2> QED BY <1>3, <2>1
<1> DEFINE h == [i \in 0..N |-> g[i]]
<1>5. h = [level \in 0..N |-> IF level = 0 THEN {v} ELSE Inside(h[level - 1])]
  <2>1. \A level \in 0..N : level # 0 => level \in 1..N /\ level - 1 \in 0..N
    BY <1>0
  <2> QED BY <1>4, <2>1
<1> HIDE DEF h
<1>6. f = [level \in 0..N |-> IF level = 0 THEN {v} ELSE Inside(f[level - 1])]
  BY <1>5
<1>7. Pending(v) = f
  BY DEF Pending, Inside, N
<1> HIDE DEF f
<1>8. 0 \in 0..N /\ \A k \in 0..(N - 1) : k + 1 \in 0..N /\ k + 1 # 0 /\ (k + 1) - 1 = k
  BY <1>0
<1>9. f[0] = {v} /\ \A k \in 0..(N - 1) : f[k + 1] = Inside(f[k])
  BY <1>6, <1>8
<1> QED BY <1>7, <1>9 DEF N

LEMMA InsideGrows ==
  ASSUME NEW S, NEW w, NEW x \in Parts(w), w \in S
  PROVE  x \in Inside(S)
BY DEF Inside

\* What is pending on a level of a value is pending on the level above of a part.
LEMMA PendingOfParts ==
  ASSUME NEW v
  PROVE  \A k \in 0..(MaxNesting - 1) : \A x : x \in Pending(v)[k + 1] <=> \E w \in Parts(v) : x \in Pending(w)[k]
<1> DEFINE N == MaxNesting
           S == {k \in 0..(N - 1) : \A x : x \in Pending(v)[k + 1] <=> \E w \in Parts(v) : x \in Pending(w)[k]}
<1>0. N \in Nat
  BY MessagesAssumption
<1>1. \A u : Pending(u)[0] = {u} /\ \A k \in 0..(N - 1) : Pending(u)[k + 1] = Inside(Pending(u)[k])
  BY PendingLoop
<1> HIDE DEF N
<1>2. CASE N = 0
  BY <1>2 DEF N
<1>3. CASE N # 0
  <2>1. 0 \in S
    <3>1. 0 \in 0..(N - 1) 
      BY <1>0, <1>3
    <3>2. Pending(v)[0 + 1] = Parts(v)
      <4>1. Pending(v)[0 + 1] = Inside(Pending(v)[0]) /\ Pending(v)[0] = {v}
        BY <1>1, <3>1
      <4>2. Inside({v}) = Parts(v)
        BY DEF Inside
      <4> QED BY <4>1, <4>2
    <3>3. \A x : x \in Parts(v) <=> \E w \in Parts(v) : x \in Pending(w)[0]
      BY <1>1
    <3> QED BY <3>1, <3>2, <3>3
  <2>2. ASSUME NEW k \in 0..(N - 1 - 1), k \in S PROVE k + 1 \in S
    <3>1. k \in 0..(N - 1) /\ k + 1 \in 0..(N - 1)
      BY <1>0, <1>3
    <3>2. Pending(v)[k + 1 + 1] = Inside(Pending(v)[k + 1])
      BY <1>1, <3>1
    <3>3. \A w : Pending(w)[k + 1] = Inside(Pending(w)[k])
      BY <1>1, <3>1
    <3>4. \A x : x \in Pending(v)[k + 1] <=> \E w \in Parts(v) : x \in Pending(w)[k]
      BY <2>2
    <3>5. \A x : x \in Inside(Pending(v)[k + 1]) <=> \E w \in Parts(v) : x \in Inside(Pending(w)[k])
      BY <3>4 DEF Inside
    <3>6. \A x : x \in Pending(v)[k + 1 + 1] <=> \E w \in Parts(v) : x \in Pending(w)[k + 1]
      BY <3>2, <3>3, <3>5
    <3> QED BY <3>1, <3>6
  <2>3. 0..(N - 1) \subseteq S
    <3>1. N - 1 \in Nat
      BY <1>0, <1>3
    <3> HIDE DEF S
    <3> QED BY <2>1, <2>2, <3>1, UpToInduction
  <2> QED BY <2>3 DEF N
<1> QED BY <1>2, <1>3

\* A value is valid when it is no bad number and its parts are valid.
LEMMA ValidFromParts ==
  ASSUME NEW v, v.t # "number", \A w \in Parts(v) : validate_core_value(w)
  PROVE  validate_core_value(v)
<1> DEFINE N == MaxNesting
<1>0. N \in Nat
  BY MessagesAssumption
<1> SUFFICES ASSUME NEW level \in 0..N, NEW x \in Pending(v)[level], x.t = "number"
             PROVE  validate_number(x)
  BY DEF validate_core_value
<1>1. CASE level = 0
  BY <1>1, PendingLoop
<1>2. CASE level # 0
  <2> DEFINE k == level - 1
  <2>1. k \in 0..(N - 1) /\ k \in 0..N /\ level = k + 1
    BY <1>0, <1>2
  <2> HIDE DEF k
  <2>2. \E w \in Parts(v) : x \in Pending(w)[k]
    BY <2>1, PendingOfParts
  <2> QED BY <2>1, <2>2 DEF validate_core_value
<1> QED BY <1>1, <1>2

\* A value without parts.
LEMMA ValidPrimitive ==
  ASSUME NEW v, is_primitive(v), v.t = "number" => validate_number(v)
  PROVE  validate_core_value(v)
<1>1. Parts(v) = {}
  BY DEF Parts, is_primitive
<1>2. CASE v.t # "number"
  BY <1>1, <1>2, ValidFromParts
<1>3. CASE v.t = "number"
  <2> DEFINE N == MaxNesting
  <2>0. N \in Nat
    BY MessagesAssumption
  <2> SUFFICES ASSUME NEW level \in 0..N, NEW x \in Pending(v)[level], x.t = "number"
               PROVE  validate_number(x)
    BY DEF validate_core_value
  <2>1. CASE level = 0
    BY <2>1, PendingLoop
  <2>2. CASE level # 0
    <3> DEFINE k == level - 1
    <3>1. k \in 0..(N - 1) /\ level = k + 1
      BY <2>0, <2>2
    <3> HIDE DEF k
    <3> QED BY <1>1, <3>1, PendingOfParts
  <2> QED BY <2>1, <2>2
<1> QED BY <1>2, <1>3

\* Values whose parts are the same, but for texts, are valid together.
LEMMA ValidAlike ==
  ASSUME NEW v, NEW u, u.t # "number", validate_core_value(v),
         \A w \in Parts(u) : w \in Parts(v) \/ w.t = "string"
  PROVE  validate_core_value(u)
<1>1. ASSUME NEW w \in Parts(u) PROVE w \in Parts(v) \/ validate_core_value(w)
  <2>1. CASE w.t = "string"
    <3>1. is_primitive(w) /\ w.t # "number"
      BY <2>1 DEF is_primitive
    <3> QED BY <3>1, ValidPrimitive
  <2> QED BY <2>1
<1> DEFINE N == MaxNesting
<1>0. N \in Nat
  BY MessagesAssumption
<1> SUFFICES ASSUME NEW level \in 0..N, NEW x \in Pending(u)[level], x.t = "number"
             PROVE  validate_number(x)
  BY DEF validate_core_value
<1>2. CASE level = 0
  BY <1>2, PendingLoop
<1>3. CASE level # 0
  <2> DEFINE k == level - 1
  <2>1. k \in 0..(N - 1) /\ k \in 0..N /\ level = k + 1
    BY <1>0, <1>3
  <2> HIDE DEF k
  <2>2. PICK w \in Parts(u) : x \in Pending(w)[k]
    BY <2>1, PendingOfParts
  <2>3. CASE w \in Parts(v)
    <3>1. x \in Pending(v)[k + 1]
      BY <2>1, <2>2, <2>3, PendingOfParts
    <3> QED BY <2>1, <3>1 DEF validate_core_value
  <2>4. CASE validate_core_value(w)
    BY <2>1, <2>2, <2>4 DEF validate_core_value
  <2> QED BY <1>1, <2>3, <2>4
<1> QED BY <1>2, <1>3

-----------------------------------------------------------------------------
(* Calls. *)

\* A call is read from some of its members.
LEMMA CallReads ==
  ASSUME NEW u, NEW v, u.t = "object" <=> v.t = "object",
         Member(u, "method") = Member(v, "method"), Member(u, "params") = Member(v, "params"),
         Member(u, "id") = Member(v, "id"),
         Member(u, "toonrpc") = <<TOONRPC_VERSION>> <=> Member(v, "toonrpc") = <<TOONRPC_VERSION>>
  PROVE  decode_call(u) = decode_call(v)
BY DEF decode_call

\* An entry as a call, and what it is by the specification.
CallOf(e) == IF validate_core_value(e) THEN decode_call(e) ELSE Invalid
\* decode_call reads a call, and nothing else, as docs/toon-rpc-spec.md says.
LEMMA CallsAreSpecified ==
  ASSUME NEW e
  PROVE  /\ ~IsCall(e) => CallOf(e) = Invalid
         /\ IsCall(e) => CallOf(e) = [is |-> IF Member(e, "id") = <<>> THEN "Notification" ELSE "Request",
                                      method |-> MethodOf(e), params |-> Member(e, "params"), id |-> IdOf(e)]
<1> DEFINE method == Member(e, "method")
           params == Member(e, "params")
           id == Member(e, "id")
           Bad == \/ e.t # "object"
                  \/ Member(e, "toonrpc") # <<TOONRPC_VERSION>>
                  \/ method = <<>> \/ method[1].t # "string" \/ method[1].s = ""
                  \/ params # <<>> /\ is_primitive(params[1])
                  \/ id # <<>> /\ ~decode_id(id[1])
<1>1. decode_call(e) = IF Bad THEN Invalid
                       ELSE [is |-> IF id = <<>> THEN "Notification" ELSE "Request",
                             method |-> method[1].s, params |-> params, id |-> IF id = <<>> THEN Null ELSE id[1]]
  BY DEF decode_call
<1>2. IsCall(e) <=> validate_core_value(e) /\ ~Bad
  BY DEF IsCall, is_primitive, decode_id, IsInteger, validate_number
<1> HIDE DEF Bad
<1> QED BY <1>1, <1>2 DEF CallOf, MethodOf, IdOf

\* What is an object by its name alone has the members it was made of.
LEMMA ObjectMembers ==
  ASSUME NEW f, NEW name
  PROVE  /\ Obj(f).t = "object"
         /\ Member(Obj(f), name) = IF name \in DOMAIN f THEN <<f[name]>> ELSE <<>>
         /\ Parts(Obj(f)) = {f[n] : n \in DOMAIN f}
BY DEF Obj, Member, Parts

\* An entry that a JSON-RPC client writes is the call it is in TOON.
LEMMA RenamedCall ==
  ASSUME NEW e, Member(e, "jsonrpc") = <<>>, Member(e, "toonrpc") # <<JSONRPC_VERSION>>
  PROVE  EntryCall(Renamed(e)) = CallOf(e)
<1>1. CASE e.t # "object"
  <2>1. Renamed(e) = e /\ to_toon_entry(e) = e
    BY <1>1 DEF Renamed, to_toon_entry
  <2> QED BY <2>1 DEF EntryCall, CallOf
<1>2. CASE e.t = "object"
  <2> DEFINE D == DOMAIN e.members
             own == D \ {"toonrpc"}
             all == own \cup (IF "toonrpc" \in D THEN {"jsonrpc"} ELSE {})
             version == e.members["toonrpc"]
             g == [name \in all |-> IF name \in own THEN e.members[name]
                                    ELSE IF version = TOONRPC_VERSION THEN JSONRPC_VERSION ELSE version]
             u == Obj(g)
             kept == {name \in all : name \notin {"jsonrpc", "toonrpc"}}
             h == [name \in kept \cup (IF Member(u, "jsonrpc") = <<JSONRPC_VERSION>> THEN {"toonrpc"} ELSE {}) |->
                     IF name = "toonrpc" THEN TOONRPC_VERSION ELSE g[name]]
  <2>1. Renamed(e) = u
    BY <1>2 DEF Renamed
  <2>2. to_toon_entry(u) = Obj(h)
    <3>1. u.t = "object" /\ u.members = g /\ DOMAIN u.members = all
      BY DEF Obj
    <3> HIDE DEF u, g, all
    <3> QED BY <3>1 DEF to_toon_entry
  <2>3. /\ "jsonrpc" \notin D
        /\ \A name : Member(e, name) = IF name \in D THEN <<e.members[name]>> ELSE <<>>
    BY <1>2 DEF Member
  <2>4. Member(u, "jsonrpc") = IF "toonrpc" \in D THEN <<g["jsonrpc"]>> ELSE <<>>
    BY <2>3, ObjectMembers
  <2>5. Member(u, "jsonrpc") = <<JSONRPC_VERSION>> <=> Member(e, "toonrpc") = <<TOONRPC_VERSION>>
    <3>1. "toonrpc" \in D => g["jsonrpc"] = IF version = TOONRPC_VERSION THEN JSONRPC_VERSION ELSE version
      BY <2>3
    <3>2. "toonrpc" \in D => version # JSONRPC_VERSION
      BY <2>3
    <3> QED BY <2>3, <2>4, <3>1, <3>2
  <2>6. \A name \in {"method", "params", "id"} : Member(Obj(h), name) = Member(e, name)
    <3> SUFFICES ASSUME NEW name \in {"method", "params", "id"} PROVE Member(Obj(h), name) = Member(e, name)
      OBVIOUS
    <3>1. name \in DOMAIN h <=> name \in D
      OBVIOUS
    <3>2. name \in D => h[name] = e.members[name]
      OBVIOUS
    <3> HIDE DEF h
    <3> QED BY <2>3, <3>1, <3>2, ObjectMembers
  <2>7. Member(Obj(h), "toonrpc") = <<TOONRPC_VERSION>> <=> Member(e, "toonrpc") = <<TOONRPC_VERSION>>
    <3>1. "toonrpc" \in DOMAIN h <=> Member(u, "jsonrpc") = <<JSONRPC_VERSION>>
      OBVIOUS
    <3>2. "toonrpc" \in DOMAIN h => h["toonrpc"] = TOONRPC_VERSION
      OBVIOUS
    <3> HIDE DEF h, u
    <3>3. Member(Obj(h), "toonrpc") = IF "toonrpc" \in DOMAIN h THEN <<h["toonrpc"]>> ELSE <<>>
      BY ObjectMembers
    <3>4. <<>> # <<TOONRPC_VERSION>>
      OBVIOUS
    <3> QED BY <2>5, <3>1, <3>2, <3>3, <3>4
  <2>8. decode_call(Obj(h)) = decode_call(e)
    <3>1. Obj(h).t = "object"
      BY DEF Obj
    <3> HIDE DEF h
    <3> QED BY <1>2, <2>6, <2>7, <3>1, CallReads
  <2>9. validate_core_value(u) <=> validate_core_value(e)
    <3>1. u.t = "object" /\ Parts(u) = {g[name] : name \in all}
      <4>1. DOMAIN g = all
        OBVIOUS
      <4> HIDE DEF g, all
      <4> QED BY <4>1, ObjectMembers
    <3>2. Parts(e) = {e.members[name] : name \in D}
      BY <1>2 DEF Parts
    <3>3. \A w \in Parts(u) : w \in Parts(e) \/ w.t = "string"
      <4>1. ASSUME NEW name \in all PROVE g[name] \in Parts(e) \/ g[name].t = "string"
        <5>1. CASE name \in own
          BY <3>2, <5>1
        <5>2. CASE name \notin own
          <6>1. g[name] = JSONRPC_VERSION \/ (g[name] = version /\ version \in Parts(e))
            BY <3>2, <5>2
          <6> HIDE DEF g, version
          <6> QED BY <6>1 DEF JSONRPC_VERSION, String
        <5> QED BY <5>1, <5>2
      <4> HIDE DEF g, all
      <4> QED BY <3>1, <4>1
    <3>4. \A w \in Parts(e) : w \in Parts(u) \/ w.t = "string"
      <4>1. ASSUME NEW name \in D PROVE e.members[name] \in Parts(u) \/ e.members[name].t = "string"
        <5>1. CASE name # "toonrpc"
          <6>1. name \in all /\ g[name] = e.members[name]
            BY <5>1
          <6> HIDE DEF g, all
          <6> QED BY <3>1, <6>1
        <5>2. CASE name = "toonrpc"
          <6>1. "jsonrpc" \in all /\ g["jsonrpc"] = IF version = TOONRPC_VERSION THEN JSONRPC_VERSION ELSE version
            BY <2>3, <5>2
          <6> HIDE DEF g, all
          <6> QED BY <3>1, <5>2, <6>1 DEF TOONRPC_VERSION, String
        <5> QED BY <5>1, <5>2
      <4> QED BY <3>2, <4>1
    <3> HIDE DEF u
    <3> QED BY <1>2, <3>1, <3>3, <3>4, ValidAlike
  <2> HIDE DEF u, h
  <2> QED BY <2>1, <2>2, <2>8, <2>9 DEF EntryCall, CallOf
<1> QED BY <1>1, <1>2

-----------------------------------------------------------------------------
(* ResponsesTo. *)

\* The protocol's own codes.
OwnNames == {"ParseError", "InvalidRequest", "MethodNotFound", "InvalidParams", "InternalError"}
\* The protocol's own codes and their numbers, which may all be written.
LEMMA OwnCodes ==
  /\ \A name \in OwnNames : IsErrorCode(ErrorCode(name)) /\ Serializes(ErrorCode(name))
  /\ code(ErrorCode("InvalidRequest")) = -32600 /\ code(ErrorCode("MethodNotFound")) = -32601
  /\ code(ErrorCode("InvalidParams")) = -32602 /\ code(ErrorCode("InternalError")) = -32603
BY DEF OwnNames, IsErrorCode, ErrorCode, Serializes, code

\* What fits.
LEMMA Fitting == 0..99 \subseteq I16 /\ -32768..-32000 \subseteq I32
<1>1. ASSUME NEW x \in 0..99 PROVE x \in I16
  BY DEF I16
<1>2. -32768..-32000 \subseteq I32
  BY MessagesAssumption DEF I32
<1> QED BY <1>1, <1>2
\* A code is the protocol's, a server's or any other.
LEMMA CodeKinds ==
  ASSUME NEW c, IsErrorCode(c)
  PROVE  \/ \E name \in OwnNames : c = ErrorCode(name)
         \/ \E n \in I16 : c = ServerError(n)
         \/ \E n \in I32 : c = Other(n)
BY DEF IsErrorCode, OwnNames
\* What a code consists of.
LEMMA CodeFields ==
  ASSUME NEW n
  PROVE  /\ ErrorCode(n).is = n
         /\ ServerError(n).is = "ServerError" /\ ServerError(n).n = n
         /\ Other(n).is = "Other" /\ Other(n).n = n
BY DEF ErrorCode, ServerError, Other

\* A code that may be written is read as it was.
LEMMA CodeReads ==
  ASSUME NEW c, IsErrorCode(c), Serializes(c)
  PROVE  code(c) \in I32 /\ from_code(code(c)) = c
<1>0. MAX_INT \in Int /\ MAX_INT >= 32768
  BY MessagesAssumption
<1>1. CASE \E n \in I16 : c = ServerError(n)
  <2>1. PICK n \in I16 : c = ServerError(n)
    BY <1>1
  <2>2. c.is = "ServerError" /\ c.n = n
    BY <2>1, CodeFields
  <2>3. n \in 0..99
    BY <2>2 DEF Serializes, is_valid_server_offset
  <2>4. code(c) = -32000 - n
    BY <2>2 DEF code
  <2>5. code(c) \in -32099..-32000 /\ -32000 - code(c) = n
    BY <2>3, <2>4
  <2>6. from_code(code(c)) = ServerError(-32000 - code(c))
    BY <2>5 DEF from_code
  <2> QED BY Fitting, <2>1, <2>5, <2>6
<1>2. CASE \E n \in I32 : c = Other(n)
  <2>1. PICK n \in I32 : c = Other(n)
    BY <1>2
  <2>2. c.is = "Other" /\ c.n = n
    BY <2>1, CodeFields
  <2>3. code(c) = n /\ from_code(n) = c
    BY <2>2 DEF Serializes, code
  <2> QED BY <2>1, <2>3
<1>3. CASE \E name \in OwnNames : c = ErrorCode(name)
  <2>1. PICK name \in OwnNames : c = ErrorCode(name)
    BY <1>3
  <2>2. c.is = name
    BY <2>1, CodeFields
  <2>3. CASE name = "ParseError"
    BY Fitting, <2>1, <2>2, <2>3 DEF code, from_code
  <2>4. CASE name = "InvalidRequest"
    BY Fitting, <2>1, <2>2, <2>4 DEF code, from_code
  <2>5. CASE name = "MethodNotFound"
    BY Fitting, <2>1, <2>2, <2>5 DEF code, from_code
  <2>6. CASE name = "InvalidParams"
    BY Fitting, <2>1, <2>2, <2>6 DEF code, from_code
  <2>7. CASE name = "InternalError"
    BY Fitting, <2>1, <2>2, <2>7 DEF code, from_code
  <2> QED BY <2>1, <2>3, <2>4, <2>5, <2>6, <2>7 DEF OwnNames
<1> QED BY <1>1, <1>2, <1>3, CodeKinds

\* Errors and responses that are answered: whatever they hold can be sent.
IsFineError(e) ==
  /\ e = Error(e.code, e.data) /\ IsErrorCode(e.code) /\ Serializes(e.code)
  /\ e.data = <<>> \/ (e.data = <<e.data[1]>> /\ validate_core_value(e.data[1]))
IsFine(r) ==
  /\ r = Response(r.result, r.error, r.id) /\ decode_id(r.id)
  /\ \/ r.error = <<>> /\ r.result = <<r.result[1]>> /\ validate_core_value(r.result[1])
     \/ r.result = <<>> /\ r.error = <<r.error[1]>> /\ IsFineError(r.error[1])

\* What a handler's error is answered with.
LEMMA HandlersErrors ==
  ASSUME NEW o, IsOutcome(o), o.is # "Ok"
  PROVE  LET e == error_from_handler(o)
         IN  /\ IsFineError(e)
             /\ code(e.code) \in {Claimed(o), -32603}
             /\ code(e.code) \notin {-32700, -32600, -32601}
             /\ (o.is = "ApplicationError" /\ ~is_reserved_code(o.code)) => code(e.code) = o.code /\ e.data = <<>>
<1> DEFINE e == error_from_handler(o)
           Goal(x) == /\ IsFineError(x)
                      /\ code(x.code) \in {Claimed(o), -32603}
                      /\ code(x.code) \notin {-32700, -32600, -32601}
                      /\ (o.is = "ApplicationError" /\ ~is_reserved_code(o.code)) => code(x.code) = o.code /\ x.data = <<>>
<1> SUFFICES Goal(e)
  OBVIOUS
<1>0. MAX_INT \in Int /\ MAX_INT >= 32768
  BY MessagesAssumption
<1>1. CASE o.is = "InvalidParams"
  <2>1. e = Error(ErrorCode("InvalidParams"), <<>>) /\ Claimed(o) = -32602
    BY <1>1 DEF error_from_handler, Claimed
  <2>2. e.code = ErrorCode("InvalidParams") /\ e.data = <<>> /\ e = Error(e.code, e.data)
    BY <2>1 DEF Error
  <2> HIDE DEF e
  <2> QED BY <1>1, <2>1, <2>2, OwnCodes DEF IsFineError, OwnNames
<1>2. CASE o.is = "ServerError" /\ is_valid_server_offset(o.offset)
  <2>1. e = Error(ServerError(o.offset), <<>>) /\ Claimed(o) = -32000 - o.offset
    BY <1>2 DEF error_from_handler, Claimed
  <2>2. e.code = ServerError(o.offset) /\ e.data = <<>> /\ e = Error(e.code, e.data)
    BY <2>1 DEF Error
  <2>3. o.offset \in 0..99
    BY <1>2 DEF is_valid_server_offset
  <2>4. code(ServerError(o.offset)) = -32000 - o.offset
    BY DEF code, ServerError
  <2>5. IsErrorCode(ServerError(o.offset)) /\ Serializes(ServerError(o.offset))
    <3>1. o.offset \in I16
      BY <2>3, Fitting
    <3> QED BY <2>3, <3>1, CodeFields DEF IsErrorCode, Serializes, is_valid_server_offset
  <2> HIDE DEF e
  <2>6. -32000 - o.offset \notin {-32700, -32600, -32601}
    BY <2>3
  <2>7. code(e.code) = -32000 - o.offset /\ IsFineError(e)
    BY <2>2, <2>4, <2>5 DEF IsFineError
  <2>8. ~(o.is = "ApplicationError")
    BY <1>2
  <2> QED BY <2>1, <2>6, <2>7, <2>8
<1>3. CASE o.is = "ApplicationError" /\ ~is_reserved_code(o.code)
  <2>1. e = Error(Other(o.code), <<>>) /\ Claimed(o) = o.code
    BY <1>3 DEF error_from_handler, Claimed
  <2>2. e.code = Other(o.code) /\ e.data = <<>> /\ e = Error(e.code, e.data)
    BY <2>1 DEF Error
  <2>3. o.code \in I32 /\ o.code \notin -32768..-32000
    BY <1>3 DEF IsOutcome, is_reserved_code
  <2>4. code(Other(o.code)) = o.code
    BY DEF code, Other
  <2>5. from_code(o.code) = Other(o.code)
    BY <1>0, <2>3 DEF from_code
  <2>6. IsErrorCode(Other(o.code)) /\ Serializes(Other(o.code))
    <3>1. Other(o.code).is = "Other" /\ Other(o.code).n = o.code
      BY DEF Other
    <3> QED BY <2>3, <2>5, <3>1 DEF IsErrorCode, Serializes
  <2> HIDE DEF e
  <2>7. o.code \notin {-32700, -32600, -32601}
    BY <2>3
  <2>8. code(e.code) = o.code /\ IsFineError(e)
    BY <2>2, <2>4, <2>6 DEF IsFineError
  <2> QED BY <2>1, <2>2, <2>7, <2>8
<1>4. CASE o.is = "ResponseError" /\ handler_response_error_is_valid(o)
  <2>1. e = Error(o.code, o.data) /\ Claimed(o) = code(o.code)
    BY <1>4 DEF error_from_handler, Claimed
  <2>2. e.code = o.code /\ e.data = o.data /\ e = Error(e.code, e.data)
    BY <2>1 DEF Error
  <2>3. IsErrorCode(o.code) /\ (o.data = <<>> \/ o.data = <<o.data[1]>>)
    BY <1>4 DEF IsOutcome
  <2>4. o.data # <<>> => validate_core_value(o.data[1])
    BY <1>4 DEF handler_response_error_is_valid
  <2>5. Serializes(o.code) /\ code(o.code) \notin {-32700, -32600, -32601}
    <3>1. CASE o.code.is \in {"InvalidParams", "InternalError"}
      BY <3>1 DEF Serializes, code
    <3>2. CASE o.code.is = "ServerError" /\ is_valid_server_offset(o.code.n)
      BY <3>2 DEF Serializes, code, is_valid_server_offset
    <3>3. CASE o.code.is = "Other" /\ ~is_reserved_code(o.code.n)
      <4>1. o.code = Other(o.code.n) /\ o.code.n \in I32
        BY <2>3, <3>3 DEF IsErrorCode, ErrorCode
      <4>2. o.code.n \notin -32768..-32000
        BY <3>3 DEF is_reserved_code
      <4>3. from_code(o.code.n) = Other(o.code.n)
        BY <1>0, <4>1, <4>2 DEF from_code
      <4> QED BY <1>0, <3>3, <4>1, <4>2, <4>3 DEF Serializes, code
    <3> QED BY <1>4, <3>1, <3>2, <3>3 DEF handler_response_error_is_valid
  <2> HIDE DEF e
  <2> QED BY <1>4, <2>1, <2>2, <2>3, <2>4, <2>5 DEF IsFineError
<1>5. CASE /\ ~(o.is = "InvalidParams")
           /\ ~(o.is = "ServerError" /\ is_valid_server_offset(o.offset))
           /\ ~(o.is = "ApplicationError" /\ ~is_reserved_code(o.code))
           /\ ~(o.is = "ResponseError" /\ handler_response_error_is_valid(o))
  <2>1. e = Error(ErrorCode("InternalError"), <<>>)
    BY <1>5 DEF error_from_handler
  <2>2. e.code = ErrorCode("InternalError") /\ e.data = <<>> /\ e = Error(e.code, e.data)
    BY <2>1 DEF Error
  <2> HIDE DEF e
  <2> QED BY <1>5, <2>1, <2>2, OwnCodes DEF IsFineError, OwnNames
<1> QED BY <1>1, <1>2, <1>3, <1>4, <1>5

\* The responses that name an error and nothing more.
LEMMA FailureIsFine ==
  ASSUME NEW name \in OwnNames, NEW id, decode_id(id)
  PROVE  LET r == Failure(ErrorCode(name), id)
         IN  /\ IsFine(r) /\ r.id = id /\ r.result = <<>> /\ r.error # <<>>
             /\ r.error = <<Error(ErrorCode(name), <<>>)>>
             /\ r.error[1].code = ErrorCode(name) /\ r.error[1].data = <<>>
<1> DEFINE c == ErrorCode(name)
           r == Failure(c, id)
<1>1. r = Response(<<>>, <<Error(c, <<>>)>>, id)
  BY DEF Failure
<1>2. IsErrorCode(c) /\ Serializes(c)
  BY OwnCodes
<1> HIDE DEF c
<1>3. r.result = <<>> /\ r.error = <<Error(c, <<>>)>> /\ r.id = id /\ r = Response(r.result, r.error, r.id)
  BY <1>1 DEF Response
<1>4. r.error[1] = Error(c, <<>>) /\ r.error # <<>> /\ r.error = <<r.error[1]>>
  BY <1>3
<1>5. r.error[1].code = c /\ r.error[1].data = <<>> /\ r.error[1] = Error(r.error[1].code, r.error[1].data)
  BY <1>4 DEF Error
<1> HIDE DEF r
<1>6. IsFine(r)
  BY <1>2, <1>3, <1>4, <1>5 DEF IsFine, IsFineError
<1> QED BY <1>3, <1>4, <1>5, <1>6 DEF r, c

\* The members of the object that a response is written as.
Sending(r) == Written("toonrpc", TOONRPC_VERSION, r)
\* The members of a response that is written, and the values in it.
LEMMA SendingMembers ==
  ASSUME NEW r, IsFine(r)
  PROVE  /\ Sending(r).t = "object"
         /\ Member(Sending(r), "toonrpc") = <<TOONRPC_VERSION>>
         /\ Member(Sending(r), "id") = <<r.id>>
         /\ Member(Sending(r), "result") = r.result
         /\ Member(Sending(r), "error") = IF r.error = <<>> THEN <<>> ELSE <<ErrorObject(r.error[1])>>
         /\ Member(Sending(r), "method") = <<>>
         /\ \A w \in Parts(Sending(r)) : \/ w = TOONRPC_VERSION \/ w = r.id
                                         \/ r.result # <<>> /\ w = r.result[1]
                                         \/ r.error # <<>> /\ w = ErrorObject(r.error[1])
<1> DEFINE names == {"toonrpc", "id"} \cup (IF r.result = <<>> THEN {} ELSE {"result"})
                                      \cup (IF r.error = <<>> THEN {} ELSE {"error"})
           f == [name \in names |-> CASE name = "toonrpc" -> TOONRPC_VERSION
                                      [] name = "id" -> r.id
                                      [] name = "result" -> r.result[1]
                                      [] name = "error" -> ErrorObject(r.error[1])]
<1>1. Sending(r) = Obj(f)
  BY DEF Sending, Written
<1>2. DOMAIN f = names
  OBVIOUS
<1>3. /\ "toonrpc" \in names /\ "id" \in names /\ "method" \notin names
      /\ "result" \in names <=> r.result # <<>>
      /\ "error" \in names <=> r.error # <<>>
      /\ \A name \in names : name \in {"toonrpc", "id", "result", "error"}
  OBVIOUS
<1>4. /\ f["toonrpc"] = TOONRPC_VERSION /\ f["id"] = r.id
      /\ r.result # <<>> => f["result"] = r.result[1]
      /\ r.error # <<>> => f["error"] = ErrorObject(r.error[1])
  OBVIOUS
<1>5. r.result # <<>> => r.result = <<r.result[1]>>
  BY DEF IsFine
<1> HIDE DEF f, names
<1>6. \A name : Member(Obj(f), name) = IF name \in names THEN <<f[name]>> ELSE <<>>
  BY <1>2, ObjectMembers
<1>7. Obj(f).t = "object" /\ Parts(Obj(f)) = {f[name] : name \in names}
  BY <1>2, ObjectMembers
<1>8. \A w \in Parts(Obj(f)) : \/ w = TOONRPC_VERSION \/ w = r.id
                               \/ r.result # <<>> /\ w = r.result[1]
                               \/ r.error # <<>> /\ w = ErrorObject(r.error[1])
  BY <1>3, <1>4, <1>7
<1> QED BY <1>1, <1>3, <1>4, <1>5, <1>6, <1>7, <1>8

\* The members of an error that is written, and the values in it.
LEMMA ErrorMembers ==
  ASSUME NEW e, IsFineError(e)
  PROVE  /\ ErrorObject(e).t = "object"
         /\ Member(ErrorObject(e), "code") = <<Num(code(e.code))>>
         /\ Member(ErrorObject(e), "message") = <<String("m")>>
         /\ Member(ErrorObject(e), "data") = e.data
         /\ \A w \in Parts(ErrorObject(e)) : \/ w = Num(code(e.code)) \/ w = String("m")
                                             \/ e.data # <<>> /\ w = e.data[1]
<1> DEFINE names == {"code", "message"} \cup (IF e.data = <<>> THEN {} ELSE {"data"})
           f == [name \in names |-> CASE name = "code" -> Num(code(e.code))
                                      [] name = "message" -> String("m")
                                      [] name = "data" -> e.data[1]]
<1>1. ErrorObject(e) = Obj(f)
  BY DEF ErrorObject
<1>2. DOMAIN f = names
  OBVIOUS
<1>3. /\ "code" \in names /\ "message" \in names
      /\ "data" \in names <=> e.data # <<>>
      /\ \A name \in names : name \in {"code", "message", "data"}
  OBVIOUS
<1>4. /\ f["code"] = Num(code(e.code)) /\ f["message"] = String("m")
      /\ e.data # <<>> => f["data"] = e.data[1]
  OBVIOUS
<1>5. e.data # <<>> => e.data = <<e.data[1]>>
  BY DEF IsFineError
<1> HIDE DEF f, names
<1>6. \A name : Member(Obj(f), name) = IF name \in names THEN <<f[name]>> ELSE <<>>
  BY <1>2, ObjectMembers
<1>7. Obj(f).t = "object" /\ Parts(Obj(f)) = {f[name] : name \in names}
  BY <1>2, ObjectMembers
<1>8. \A w \in Parts(Obj(f)) : w = Num(code(e.code)) \/ w = String("m") \/ (e.data # <<>> /\ w = e.data[1])
  BY <1>3, <1>4, <1>7
<1> QED BY <1>1, <1>3, <1>4, <1>5, <1>6, <1>7, <1>8

\* What an identifier may be needs no check.
LEMMA IdIsValid ==
  ASSUME NEW id, decode_id(id)
  PROVE  validate_core_value(id)
<1>1. is_primitive(id) /\ (id.t = "number" => validate_number(id))
  BY DEF decode_id, IsInteger, is_primitive
<1> QED BY <1>1, ValidPrimitive

\* A text is a value that may be sent.
LEMMA TextIsValid ==
  ASSUME NEW s
  PROVE  validate_core_value(String(s))
<1>1. is_primitive(String(s)) /\ String(s).t # "number"
  BY DEF is_primitive, String
<1> QED BY <1>1, ValidPrimitive

\* An error that is fine is written as a value that may be sent.
LEMMA ErrorIsValid ==
  ASSUME NEW e, IsFineError(e)
  PROVE  validate_core_value(ErrorObject(e))
<1>1. validate_core_value(Num(code(e.code)))
  <2>1. code(e.code) \in I32
    BY CodeReads DEF IsFineError
  <2>2. MAX_INT \in Int /\ MAX_SAFE_INTEGER \in Int /\ MAX_SAFE_INTEGER > MAX_INT /\ MAX_INT >= 32768
    BY MessagesAssumption
  <2>3. code(e.code) \in -MAX_SAFE_INTEGER..MAX_SAFE_INTEGER
    BY <2>1, <2>2 DEF I32
  <2>4. is_primitive(Num(code(e.code))) /\ validate_number(Num(code(e.code)))
    BY <2>3 DEF is_primitive, validate_number, Num
  <2> QED BY <2>4, ValidPrimitive
<1>2. \A w \in Parts(ErrorObject(e)) : validate_core_value(w)
  BY <1>1, ErrorMembers, TextIsValid DEF IsFineError
<1>3. ErrorObject(e).t # "number"
  BY ErrorMembers
<1> QED BY <1>2, <1>3, ValidFromParts

\* What is fine is sent, and read as it was.
LEMMA FineIsSent ==
  ASSUME NEW r, IsFine(r)
  PROVE  validate_core_value(Sending(r)) /\ Sent(r) = <<Sending(r)>>
<1>1. validate_core_value(Sending(r))
  <2>1. validate_core_value(TOONRPC_VERSION)
    BY TextIsValid DEF TOONRPC_VERSION
  <2>2. validate_core_value(r.id)
    BY IdIsValid DEF IsFine
  <2>3. r.result # <<>> => validate_core_value(r.result[1])
    BY DEF IsFine
  <2>4. r.error # <<>> => validate_core_value(ErrorObject(r.error[1]))
    BY ErrorIsValid DEF IsFine
  <2>5. \A w \in Parts(Sending(r)) : validate_core_value(w)
    BY <2>1, <2>2, <2>3, <2>4, SendingMembers
  <2>6. Sending(r).t # "number"
    BY SendingMembers
  <2> QED BY <2>5, <2>6, ValidFromParts
<1>2. r.error # <<>> => Serializes(r.error[1].code)
  BY DEF IsFine, IsFineError
<1> QED BY <1>1, <1>2 DEF Sent, Sending

\* An error that is fine is read back as it was.
LEMMA ErrorReads ==
  ASSUME NEW e, IsFineError(e)
  PROVE  ReadError(ErrorObject(e)) = <<e>>
<1> DEFINE o == ErrorObject(e)
           c == Num(code(e.code))
<1>1. c.t = "number" /\ c.whole = TRUE /\ c.n = code(e.code) /\ String("m").t = "string"
  BY DEF Num, String
<1>2. code(e.code) \in I32 /\ from_code(code(e.code)) = e.code
  BY CodeReads DEF IsFineError
<1>3. Member(o, "code") = <<c>> /\ Member(o, "message") = <<String("m")>> /\ Member(o, "data") = e.data
  BY ErrorMembers
<1> HIDE DEF o, c
<1>4. ReadError(o) = <<Error(from_code(c.n), e.data)>>
  <2>1. IsInteger(c) /\ c.n \in I32
    BY <1>1, <1>2 DEF IsInteger
  <2>2. Member(o, "code")[1] = c /\ Member(o, "message")[1] = String("m") /\ Member(o, "code") # <<>> /\ Member(o, "message") # <<>>
    BY <1>3
  <2> QED BY <1>1, <1>3, <2>1, <2>2 DEF ReadError
<1>5. e = Error(e.code, e.data)
  BY DEF IsFineError
<1> QED BY <1>1, <1>2, <1>4, <1>5 DEF o

\* A response that is fine is read back as it was, and looks like one.
LEMMA FineReads ==
  ASSUME NEW r, IsFine(r)
  PROVE  deserialize(Sending(r)) = <<r>> /\ LooksAnswered(Sending(r))
<1> DEFINE v == Sending(r)
<1>1. /\ Member(v, "toonrpc") = <<TOONRPC_VERSION>> /\ Member(v, "id") = <<r.id>>
      /\ Member(v, "result") = r.result
      /\ Member(v, "error") = IF r.error = <<>> THEN <<>> ELSE <<ErrorObject(r.error[1])>>
  BY SendingMembers
<1>2. decode_id(r.id) /\ r = Response(r.result, r.error, r.id)
  BY DEF IsFine
<1> HIDE DEF v
<1>3. CASE r.error = <<>> /\ r.result = <<r.result[1]>>
  <2>1. Member(v, "error") = <<>> /\ Member(v, "result") # <<>>
    BY <1>1, <1>3
  <2>2. deserialize(v) = <<Response(r.result, <<>>, r.id)>>
    BY <1>1, <1>2, <2>1 DEF deserialize
  <2> QED BY <1>2, <1>3, <2>1, <2>2 DEF LooksAnswered, v
<1>4. CASE r.result = <<>> /\ r.error = <<r.error[1]>> /\ IsFineError(r.error[1])
  <2> DEFINE o == ErrorObject(r.error[1])
  <2>1. Member(v, "error") = <<o>> /\ Member(v, "error") # <<>> /\ Member(v, "result") = <<>>
    BY <1>1, <1>4
  <2>2. ReadError(o) = r.error /\ r.error # <<>>
    BY <1>4, ErrorReads
  <2> HIDE DEF o
  <2>3. Member(v, "error")[1] = o
    BY <2>1
  <2>4. deserialize(v) = <<Response(<<>>, r.error, r.id)>>
    BY <1>1, <1>2, <2>1, <2>2, <2>3 DEF deserialize
  <2> QED BY <1>2, <1>4, <2>1, <2>4 DEF LooksAnswered, v
<1> QED BY <1>3, <1>4 DEF IsFine

\* The last look at a response: it stays unless it is too deep.
LEMMA LastLook ==
  ASSUME NEW r, IsFine(r), NEW b \in BOOLEAN
  PROVE  /\ ensure_toon_response_encodable(r, b) =
              IF validate_response_depth(r, b) THEN r ELSE Failure(ErrorCode("InternalError"), r.id)
         /\ IsFine(ensure_toon_response_encodable(r, b))
         /\ ensure_toon_response_encodable(r, b).id = r.id
<1>1. Sent(r) # <<>>
  BY FineIsSent
<1>2. decode_id(r.id) /\ "InternalError" \in OwnNames
  BY DEF IsFine, OwnNames
<1> QED BY <1>1, <1>2, FailureIsFine DEF ensure_toon_response_encodable

\* An error without data is never too deep.
LEMMA ErrorsStay ==
  ASSUME NEW r, IsFine(r), NEW b \in BOOLEAN, r.result = <<>>, r.error # <<>>, r.error[1].data = <<>>
  PROVE  validate_response_depth(r, b) /\ ensure_toon_response_encodable(r, b) = r
<1>1. DEFAULT_MAX_DEPTH \in Nat /\ DEFAULT_MAX_DEPTH >= 2
  BY MessagesAssumption
<1>2. validate_response_depth(r, b)
  <2>1. CASE b
    BY <1>1, <2>1 DEF validate_response_depth
  <2>2. CASE ~b
    BY <1>1, <2>2 DEF validate_response_depth
  <2> QED BY <2>1, <2>2
<1> QED BY <1>2, LastLook

-----------------------------------------------------------------------------
(* Answers. *)

\* What comes of one entry.
LEMMA HandledIs ==
  ASSUME NEW e
  PROVE  /\ ~IsCall(e) => Handled(CallOf(e)).responses = <<protocol_error("InvalidRequest")>>
         /\ IsCall(e) /\ Member(e, "id") = <<>> => Handled(CallOf(e)).responses = <<>>
         /\ IsCall(e) /\ Member(e, "id") # <<>> => Handled(CallOf(e)).responses = <<handle_request(CallOf(e))>>
         /\ Handled(CallOf(e)).ran =
              IF IsServed(e) THEN <<[method |-> MethodOf(e), params |-> Member(e, "params"), id |-> IdOf(e)]>> ELSE <<>>
<1> DEFINE call == CallOf(e)
<1>1. CASE ~IsCall(e)
  <2>1. call = Invalid
    BY <1>1, CallsAreSpecified
  <2>2. call.is = "Invalid"
    BY <2>1 DEF Invalid
  <2> HIDE DEF call
  <2>3. Handled(call).responses = <<protocol_error("InvalidRequest")>> /\ Handled(call).ran = <<>>
    BY <2>2 DEF Handled
  <2> QED BY <1>1, <2>3 DEF call, IsServed
<1>2. CASE IsCall(e)
  <2>1. call = [is |-> IF Member(e, "id") = <<>> THEN "Notification" ELSE "Request",
                method |-> MethodOf(e), params |-> Member(e, "params"), id |-> IdOf(e)]
    BY <1>2, CallsAreSpecified
  <2>2. /\ call.is = IF Member(e, "id") = <<>> THEN "Notification" ELSE "Request"
        /\ call.method = MethodOf(e) /\ call.params = Member(e, "params") /\ call.id = IdOf(e)
    BY <2>1
  <2> HIDE DEF call
  <2>3. Handled(call).responses = IF Member(e, "id") = <<>> THEN <<>> ELSE <<handle_request(call)>>
    BY <2>2 DEF Handled
  <2>4. Handled(call).ran = IF MethodOf(e) \in Registered
                            THEN <<[method |-> MethodOf(e), params |-> Member(e, "params"), id |-> IdOf(e)]>> ELSE <<>>
    BY <2>2 DEF Handled
  <2> QED BY <1>2, <2>3, <2>4 DEF call, IsServed
<1> QED BY <1>1, <1>2

\* An entry that is no call is told so.
LEMMA NoCallAnswered ==
  ASSUME NEW e, ~IsCall(e), NEW b \in BOOLEAN
  PROVE  LET r == protocol_error("InvalidRequest")
         IN  IsFine(r) /\ Answers(ensure_toon_response_encodable(r, b), e)
<1> DEFINE r == protocol_error("InvalidRequest")
<1>1. decode_id(Null) /\ "InvalidRequest" \in OwnNames
  BY DEF decode_id, Null, OwnNames
<1>2. /\ IsFine(r) /\ r.id = Null /\ r.result = <<>> /\ r.error # <<>>
      /\ r.error[1].code = ErrorCode("InvalidRequest") /\ r.error[1].data = <<>>
  BY <1>1, FailureIsFine DEF protocol_error
<1> HIDE DEF r
<1>3. ensure_toon_response_encodable(r, b) = r
  BY <1>2, ErrorsStay
<1>4. Fails(r, -32600)
  BY <1>2, OwnCodes DEF Fails, CodeOf
<1>5. Answers(r, e)
  BY <1>2, <1>4 DEF Answers, IsServed
<1> QED BY <1>2, <1>3, <1>5 DEF r

\* A request is answered with what its handler returned, or why there is nothing.
LEMMA RequestAnswered ==
  ASSUME NEW e \in Entries, IsCall(e), Member(e, "id") # <<>>, NEW b \in BOOLEAN
  PROVE  LET r == handle_request(CallOf(e))
         IN  IsFine(r) /\ Answers(ensure_toon_response_encodable(r, b), e)
<1> DEFINE call == CallOf(e)
           id == IdOf(e)
           r == handle_request(call)
           x == ensure_toon_response_encodable(r, b)
           o == Handler(MethodOf(e), Member(e, "params"), id)
           internal == Failure(ErrorCode("InternalError"), id)
<1>1. call.method = MethodOf(e) /\ call.params = Member(e, "params") /\ call.id = id
  BY CallsAreSpecified
<1>2. id = Member(e, "id")[1]
  BY DEF IdOf
<1>3. decode_id(id)
  BY <1>2 DEF IsCall, decode_id, IsInteger, validate_number
<1>4. r = IF MethodOf(e) \notin Registered THEN Failure(ErrorCode("MethodNotFound"), id)
          ELSE IF o.is # "Ok" THEN Response(<<>>, <<error_from_handler(o)>>, id)
          ELSE IF ~validate_core_value(o.result) THEN internal
          ELSE Response(<<o.result>>, <<>>, id)
  BY <1>1 DEF handle_request
<1>5. MethodOf(e) \in Registered => IsOutcome(o)
  BY MessagesAssumption
<1>6. /\ IsFine(internal) /\ internal.id = id /\ internal.result = <<>> /\ internal.error # <<>>
      /\ internal.error[1].code = ErrorCode("InternalError") /\ internal.error[1].data = <<>>
      /\ Fails(internal, -32603) /\ CodeOf(internal) = -32603
  <2>1. "InternalError" \in OwnNames
    BY DEF OwnNames
  <2>2. /\ IsFine(internal) /\ internal.id = id /\ internal.result = <<>> /\ internal.error # <<>>
        /\ internal.error[1].code = ErrorCode("InternalError") /\ internal.error[1].data = <<>>
    BY <1>3, <2>1, FailureIsFine
  <2> QED BY <2>2, OwnCodes DEF Fails, CodeOf
<1>7. IsServed(e) <=> MethodOf(e) \in Registered
  BY DEF IsServed
<1> HIDE DEF call, id, o, internal, r
<1>8. ASSUME NEW y, y.id = id, (y.result = <<>>) # (y.error = <<>>),
             ~IsServed(e) => Fails(y, -32601), IsServed(e) => SpeaksFor(o, y)
      PROVE  Answers(y, e)
  BY <1>2, <1>8 DEF Answers, o, id
<1>9. IsFine(r) => x = IF validate_response_depth(r, b) THEN r ELSE Failure(ErrorCode("InternalError"), r.id)
  BY LastLook
<1>10. CASE MethodOf(e) \notin Registered
  <2>1. "MethodNotFound" \in OwnNames /\ r = Failure(ErrorCode("MethodNotFound"), id)
    BY <1>4, <1>10 DEF OwnNames
  <2>2. /\ IsFine(r) /\ r.id = id /\ r.result = <<>> /\ r.error # <<>>
        /\ r.error[1].code = ErrorCode("MethodNotFound") /\ r.error[1].data = <<>>
    BY <1>3, <2>1, FailureIsFine
  <2>3. x = r
    BY <2>2, ErrorsStay
  <2>4. Fails(r, -32601)
    BY <2>2, OwnCodes DEF Fails, CodeOf
  <2> HIDE DEF x
  <2>5. Answers(r, e)
    BY <1>7, <1>8, <1>10, <2>2, <2>4
  <2> QED BY <2>2, <2>3, <2>5 DEF x, r, call
<1>11. CASE MethodOf(e) \in Registered /\ o.is # "Ok"
  <2> DEFINE err == error_from_handler(o)
  <2>1. r = Response(<<>>, <<err>>, id)
    BY <1>4, <1>11
  <2>2. /\ IsFineError(err)
        /\ code(err.code) \in {Claimed(o), -32603}
        /\ code(err.code) \notin {-32700, -32600, -32601}
        /\ (o.is = "ApplicationError" /\ ~is_reserved_code(o.code)) => code(err.code) = o.code /\ err.data = <<>>
    BY <1>5, <1>11, HandlersErrors
  <2> HIDE DEF err
  <2>3. r.result = <<>> /\ r.error = <<err>> /\ r.id = id /\ r = Response(r.result, r.error, r.id)
    BY <2>1 DEF Response
  <2>4. r.error[1] = err /\ r.error # <<>> /\ CodeOf(r) = code(err.code)
    BY <2>3 DEF CodeOf
  <2>5. IsFine(r)
    BY <1>3, <2>2, <2>3, <2>4 DEF IsFine
  <2>6. SpeaksFor(o, r)
    BY <1>11, <2>2, <2>4 DEF SpeaksFor, Fails
  <2>7. Answers(r, e)
    BY <1>7, <1>8, <1>11, <2>3, <2>4, <2>6
  <2>8. Answers(x, e)
    <3>1. CASE x = r
      BY <2>7, <3>1
    <3>2. CASE x # r
      <4>1. x = internal
        BY <1>9, <2>3, <2>5, <3>2 DEF internal
      <4>2. ~(o.is = "ApplicationError" /\ ~is_reserved_code(o.code))
        BY <2>2, <2>3, <2>4, <2>5, <3>2, ErrorsStay
      <4>3. SpeaksFor(o, internal)
        BY <1>6, <1>11, <4>2 DEF SpeaksFor
      <4> QED BY <1>6, <1>7, <1>8, <1>11, <4>1, <4>3
    <3> QED BY <3>1, <3>2
  <2> QED BY <2>5, <2>8 DEF r, call
<1>12. CASE MethodOf(e) \in Registered /\ o.is = "Ok"
  <2>1. SpeaksFor(o, internal)
    BY <1>6, <1>12 DEF SpeaksFor
  <2>2. Answers(internal, e)
    BY <1>6, <1>7, <1>8, <1>12, <2>1
  <2>3. CASE ~validate_core_value(o.result)
    <3>1. r = internal
      BY <1>4, <1>12, <2>3
    <3>2. x = r
      BY <1>6, <3>1, ErrorsStay
    <3> HIDE DEF x
    <3> QED BY <1>6, <2>2, <3>1, <3>2 DEF x, r, call
  <2>4. CASE validate_core_value(o.result)
    <3>1. r = Response(<<o.result>>, <<>>, id)
      BY <1>4, <1>12, <2>4
    <3>2. r.result = <<o.result>> /\ r.error = <<>> /\ r.id = id /\ r = Response(r.result, r.error, r.id)
      BY <3>1 DEF Response
    <3>3. r.result[1] = o.result /\ r.result # <<>>
      BY <3>2
    <3>4. IsFine(r)
      BY <1>3, <2>4, <3>2, <3>3 DEF IsFine
    <3>5. SpeaksFor(o, r)
      BY <1>12, <3>2 DEF SpeaksFor
    <3>6. Answers(r, e)
      <4>1. (r.result = <<>>) # (r.error = <<>>)
        BY <3>2, <3>3
      <4>2. r.id = id
        BY <3>2
      <4>3. IsServed(e)
        BY <1>7, <1>12
      <4> QED BY <1>8, <3>5, <4>1, <4>2, <4>3
    <3>7. x = r \/ x = internal
      BY <1>9, <3>2, <3>4 DEF internal
    <3> HIDE DEF x
    <3>8. Answers(x, e)
      BY <2>2, <3>6, <3>7
    <3> QED BY <3>4, <3>8 DEF x, r, call
  <2> QED BY <2>3, <2>4
<1> QED BY <1>10, <1>11, <1>12

-----------------------------------------------------------------------------
(* Documents. *)

DocumentInv ==
  /\ entries \in Seq(Entries) /\ array \in BOOLEAN
  /\ ~array => Len(entries) = 1 /\ entries[1].t # "array"
TheCalls == [i \in DOMAIN entries |-> CallOf(entries[i])]
IsRefused == array /\ Len(entries) \notin 1..max_batch_length

\* The entries of a document, and the calls that they are read as.
LEMMA EntriesAre ==
  ASSUME DocumentInv
  PROVE  /\ Len(entries) \in Nat /\ DOMAIN entries = 1..Len(entries)
         /\ \A i \in 1..Len(entries) : entries[i] \in Entries
         /\ DOMAIN TheCalls = 1..Len(entries) /\ Len(TheCalls) = Len(entries)
         /\ \A i \in 1..Len(entries) : TheCalls[i] = CallOf(entries[i])
         /\ ~array => entries = <<entries[1]>> /\ TheCalls = <<CallOf(entries[1])>>
<1> DEFINE n == Len(entries)
<1>1. n \in Nat /\ DOMAIN entries = 1..n /\ \A i \in 1..n : entries[i] \in Entries
  BY DEF DocumentInv
<1> HIDE DEF n
<1>2. TheCalls = [i \in 1..n |-> CallOf(entries[i])]
  BY <1>1 DEF TheCalls
<1>3. DOMAIN TheCalls = 1..n /\ Len(TheCalls) = n /\ \A i \in 1..n : TheCalls[i] = CallOf(entries[i])
  BY <1>1, <1>2
<1>4. ASSUME ~array PROVE entries = <<entries[1]>> /\ TheCalls = <<CallOf(entries[1])>>
  <2>1. n = 1
    BY <1>4 DEF DocumentInv, n
  <2>2. entries = <<entries[1]>>
    BY <2>1 DEF DocumentInv, n
  <2>3. TheCalls = <<CallOf(entries[1])>>
    BY <1>2, <2>1
  <2> QED BY <2>2, <2>3
<1> QED BY <1>1, <1>3, <1>4 DEF n

\* What comes of the calls, each by itself.
LEMMA AllHandledIs ==
  ASSUME DocumentInv, NEW b
  PROVE  AllHandled(TheCalls, b) =
           [responses |-> Flat([i \in 1..Len(entries) |-> Handled(CallOf(entries[i])).responses]), is_batch |-> b,
            ran |-> Flat([i \in 1..Len(entries) |-> Handled(CallOf(entries[i])).ran])]
<1> DEFINE n == Len(entries)
<1>1. DOMAIN TheCalls = 1..n /\ \A i \in 1..n : TheCalls[i] = CallOf(entries[i])
  BY EntriesAre
<1> HIDE DEF n
<1>2. [i \in DOMAIN TheCalls |-> Handled(TheCalls[i]).responses] = [i \in 1..n |-> Handled(CallOf(entries[i])).responses]
  BY <1>1
<1>3. [i \in DOMAIN TheCalls |-> Handled(TheCalls[i]).ran] = [i \in 1..n |-> Handled(CallOf(entries[i])).ran]
  BY <1>1
<1> QED BY <1>2, <1>3 DEF AllHandled, n

\* Entries of which none is a call are all told so.
LEMMA NoCalls ==
  ASSUME DocumentInv, \A i \in 1..Len(entries) : ~IsCall(entries[i]), NEW b
  PROVE  AllHandled(TheCalls, b) =
           [responses |-> [i \in 1..Len(entries) |-> protocol_error("InvalidRequest")], is_batch |-> b, ran |-> <<>>]
<1> DEFINE n == Len(entries)
           s == [i \in 1..n |-> Handled(CallOf(entries[i])).responses]
           t == [i \in 1..n |-> Handled(CallOf(entries[i])).ran]
           p == protocol_error("InvalidRequest")
<1>1. n \in Nat
  BY EntriesAre
<1>2. Len(s) = n /\ \A i \in 1..n : s[i] = <<p>>
  <2>1. \A i \in 1..n : Handled(CallOf(entries[i])).responses = <<p>>
    BY HandledIs
  <2> HIDE DEF p, n
  <2>2. Len(s) = n
    BY <1>1
  <2>3. \A i \in 1..n : s[i] = <<p>>
    BY <2>1
  <2> QED BY <2>2, <2>3
<1>3. Len(t) = n /\ \A i \in 1..n : t[i] = <<>>
  <2>1. \A i \in 1..n : Handled(CallOf(entries[i])).ran = <<>>
    BY HandledIs DEF IsServed
  <2> HIDE DEF n
  <2> QED BY <1>1, <2>1
<1>4. AllHandled(TheCalls, b) = [responses |-> Flat(s), is_batch |-> b, ran |-> Flat(t)]
  BY AllHandledIs
<1> HIDE DEF n, s, t, p
<1>5. Flat(s) = [i \in 1..n |-> p]
  <2> DEFINE y == <<p>>
  <2>1. \A i \in 1..n : s[i] = y
    BY <1>2
  <2>2. y = <<p>>
    OBVIOUS
  <2> HIDE DEF y
  <2> QED BY <1>1, <1>2, <2>1, <2>2, FlatSame
<1>6. Flat(t) = <<>>
  BY <1>1, <1>3, FlatNothing
<1> QED BY <1>4, <1>5, <1>6 DEF n, p

\* A batch is refused for its size, or comes to what comes of its entries.
LEMMA BatchHandled ==
  ASSUME DocumentInv, array
  PROVE  handle_message(message_from_toon_batch(entries)) =
           IF IsRefused THEN Refusal ELSE AllHandled(TheCalls, TRUE)
<1> DEFINE n == Len(entries)
           calls == Message("Batch", TheCalls)
           m == message_from_toon_batch(entries)
<1>1. n \in Nat /\ DOMAIN entries = 1..n /\ DOMAIN TheCalls = 1..n /\ Len(TheCalls) = n
      /\ \A i \in 1..n : TheCalls[i] = CallOf(entries[i])
  BY EntriesAre
<1>2. max_batch_length \in Nat
  BY MessagesAssumption
<1>3. CASE entries = <<>>
  <2>1. m = Message("Invalid", <<>>)
    BY <1>3 DEF message_from_toon_batch
  <2>2. m.is = "Invalid"
    BY <2>1 DEF Message
  <2>3. handle_message(m) = Refusal
    <3> HIDE DEF m
    <3> QED BY <2>2 DEF handle_message
  <2>4. IsRefused
    BY <1>2, <1>3 DEF IsRefused
  <2> QED BY <2>3, <2>4
<1>4. ASSUME entries # <<>>, m = calls
      PROVE  handle_message(m) = IF IsRefused THEN Refusal ELSE AllHandled(TheCalls, TRUE)
  <2>1. m.is = "Batch" /\ m.content = TheCalls
    BY <1>4 DEF Message
  <2>2. n # 0
    BY <1>1, <1>4 DEF DocumentInv
  <2>3. IsRefused <=> Len(m.content) > max_batch_length
    BY <1>1, <1>2, <2>1, <2>2 DEF IsRefused
  <2> HIDE DEF m
  <2> QED BY <2>1, <2>3 DEF handle_message
<1>5. CASE entries # <<>> /\ \E i \in DOMAIN entries : ~validate_core_value(entries[i])
  <2>1. m = Message("Batch", [i \in DOMAIN entries |->
                               IF validate_core_value(entries[i]) THEN decode_call(entries[i]) ELSE Invalid])
    BY <1>5 DEF message_from_toon_batch
  <2>2. m = calls
    BY <2>1 DEF TheCalls, CallOf
  <2> QED BY <1>4, <1>5, <2>2
<1>6. CASE entries # <<>> /\ \A i \in DOMAIN entries : validate_core_value(entries[i])
  <2>1. m = decode_batch(entries)
    BY <1>6 DEF message_from_toon_batch
  <2>2. Calls(entries) = calls
    <3>1. \A i \in DOMAIN entries : decode_call(entries[i]) = CallOf(entries[i])
      BY <1>6 DEF CallOf
    <3>2. [i \in DOMAIN entries |-> decode_call(entries[i])] = TheCalls
      BY <3>1 DEF TheCalls
    <3> QED BY <3>2 DEF Calls
  <2> DEFINE read == [i \in DOMAIN entries |-> deserialize(entries[i])]
             answered == [i \in DOMAIN entries |-> read[i][1]]
             Decides == /\ \E i \in DOMAIN entries : LooksAnswered(entries[i])
                        /\ \A i \in DOMAIN entries : Member(entries[i], "method") = <<>>
                        /\ \A i \in DOMAIN entries : read[i] # <<>>
  <2>3. m = IF Decides THEN Message("BatchResponse", answered) ELSE Calls(entries)
    BY <2>1 DEF decode_batch
  <2>4. CASE ~Decides
    BY <1>4, <1>6, <2>2, <2>3, <2>4
  <2>5. CASE Decides
    <3>1. m.is = "BatchResponse" /\ m.content = answered
      BY <2>3, <2>5 DEF Message
    <3>2. DOMAIN answered = 1..n /\ Len(answered) = n
      BY <1>1
    <3>3. n # 0
      BY <1>1, <1>6 DEF DocumentInv
    <3>4. \A i \in 1..n : ~IsCall(entries[i])
      BY <1>1, <2>5 DEF IsCall
    <3> HIDE DEF m, answered
    <3>5. IsRefused <=> Len(m.content) > max_batch_length
      BY <1>1, <1>2, <3>1, <3>2, <3>3 DEF IsRefused
    <3>6. AllHandled(TheCalls, TRUE) = [responses |-> [i \in 1..n |-> protocol_error("InvalidRequest")], is_batch |-> TRUE,
                                        ran |-> <<>>]
      BY <3>4, NoCalls
    <3>7. handle_message(m) = IF Len(m.content) > max_batch_length THEN Refusal
                              ELSE [responses |-> [i \in DOMAIN m.content |-> protocol_error("InvalidRequest")],
                                    is_batch |-> TRUE, ran |-> <<>>]
      BY <3>1 DEF handle_message
    <3> QED BY <3>1, <3>2, <3>5, <3>6, <3>7 DEF m
  <2> QED BY <2>4, <2>5
<1> QED BY <1>3, <1>5, <1>6

\* A document that is no batch comes to what comes of its entry.
LEMMA SingleHandled ==
  ASSUME DocumentInv, ~array
  PROVE  handle_message(from_wire(entries[1])) = AllHandled(TheCalls, FALSE)
<1> DEFINE e == entries[1]
           m == from_wire(e)
<1>1. e.t # "array" /\ Len(entries) = 1
  BY DEF DocumentInv
<1>2. TheCalls = <<CallOf(e)>>
  BY EntriesAre
<1> HIDE DEF e
<1>3. ASSUME m.is \in {"Invalid", "SingleResponse"}, ~IsCall(e)
      PROVE  handle_message(m) = AllHandled(TheCalls, FALSE)
  <2>1. handle_message(m) = Refusal
    <3> HIDE DEF m
    <3> QED BY <1>3 DEF handle_message
  <2>2. AllHandled(TheCalls, FALSE) = [responses |-> [i \in 1..1 |-> protocol_error("InvalidRequest")], is_batch |-> FALSE, ran |-> <<>>]
    <3>1. \A i \in 1..Len(entries) : ~IsCall(entries[i])
      BY <1>1, <1>3 DEF e
    <3> QED BY <1>1, <3>1, NoCalls
  <2>3. Refusal = [responses |-> <<protocol_error("InvalidRequest")>>, is_batch |-> FALSE, ran |-> <<>>]
    BY DEF Refusal, Refused
  <2>4. [i \in 1..1 |-> protocol_error("InvalidRequest")] = <<protocol_error("InvalidRequest")>>
    OBVIOUS
  <2> QED BY <2>1, <2>2, <2>3, <2>4
<1>4. CASE ~validate_core_value(e) \/ e.t # "object"
  <2>1. m = Message("Invalid", <<>>)
    BY <1>1, <1>4 DEF from_wire
  <2>2. m.is = "Invalid"
    BY <2>1 DEF Message
  <2>3. ~IsCall(e)
    BY <1>4 DEF IsCall
  <2> HIDE DEF m
  <2> QED BY <1>3, <2>2, <2>3 DEF m, e
<1>5. CASE validate_core_value(e) /\ e.t = "object"
  <2>1. m = decode_single(e)
    BY <1>1, <1>5 DEF from_wire
  <2>2. CASE Member(e, "method") # <<>>
    <3>1. m = Message("Single", decode_call(e))
      BY <2>1, <2>2 DEF decode_single
    <3>2. m.is = "Single" /\ m.content = CallOf(e)
      BY <1>5, <3>1 DEF Message, CallOf
    <3> HIDE DEF m
    <3>3. handle_message(m) = AllHandled(<<CallOf(e)>>, FALSE)
      BY <3>2 DEF handle_message
    <3> QED BY <1>2, <3>3 DEF m, e
  <2>3. CASE Member(e, "method") = <<>>
    <3>1. m.is \in {"Invalid", "SingleResponse"}
      BY <2>1, <2>3 DEF decode_single, Message
    <3>2. ~IsCall(e)
      BY <2>3 DEF IsCall
    <3> HIDE DEF m
    <3> QED BY <1>3, <3>1, <3>2 DEF m, e
  <2> QED BY <2>2, <2>3
<1> QED BY <1>4, <1>5

\* A document is refused, or comes to what comes of its entries.
LEMMA DocumentHandled ==
  ASSUME DocumentInv
  PROVE  handle_message(from_wire(Document)) = IF IsRefused THEN Refusal ELSE AllHandled(TheCalls, array)
<1>1. CASE array
  <2>1. Document = Arr(entries)
    BY <1>1 DEF Document
  <2>2. Document.t = "array" /\ Document.items = entries
    BY <2>1 DEF Arr
  <2>3. from_wire(Document) = message_from_toon_batch(entries)
    BY <2>2 DEF from_wire
  <2>4. array = TRUE
    BY <1>1 DEF DocumentInv
  <2> QED BY <1>1, <2>3, <2>4, BatchHandled
<1>2. CASE ~array
  <2>1. Document = entries[1] /\ ~IsRefused
    BY <1>2 DEF Document, IsRefused
  <2>2. array = FALSE
    BY <1>2 DEF DocumentInv
  <2> QED BY <1>2, <2>1, <2>2, SingleHandled
<1> QED BY <1>1, <1>2 DEF DocumentInv

-----------------------------------------------------------------------------
(* The document as a whole. *)

ResponsesTo(e) == Handled(CallOf(e)).responses
Owed(e) == IF IsOwed(e) THEN <<e>> ELSE <<>>
Got == {ResponsesTo(e)[1] : e \in Entries}
Meeting(b) == {p \in Got \X Entries : IsFine(p[1]) /\ Answers(ensure_toon_response_encodable(p[1], b), p[2])}

\* An entry gets as many answers as it is owed, each the one it is owed.
LEMMA EntryMet ==
  ASSUME NEW e \in Entries, NEW b \in BOOLEAN
  PROVE  ResponsesTo(e) \in Seq(Got) /\ Owed(e) \in Seq(Entries) /\ Alike(ResponsesTo(e), Owed(e), Meeting(b))
<1> DEFINE r == ResponsesTo(e)[1]
<1>1. r \in Got
  BY DEF Got
<1> HIDE DEF r
<1>2. ASSUME NEW q, ResponsesTo(e) = <<q>>, IsOwed(e), IsFine(q), Answers(ensure_toon_response_encodable(q, b), e)
      PROVE  ResponsesTo(e) \in Seq(Got) /\ Owed(e) \in Seq(Entries) /\ Alike(ResponsesTo(e), Owed(e), Meeting(b))
  <2>1. q = r
    BY <1>2 DEF r
  <2>2. Owed(e) = <<e>>
    BY <1>2 DEF Owed
  <2>3. q \in Got
    BY <1>1, <2>1
  <2>4. <<q, e>> \in Meeting(b)
    BY <1>2, <2>3 DEF Meeting
  <2>5. <<q>> \in Seq(Got) /\ <<e>> \in Seq(Entries)
    BY <2>3
  <2>6. Alike(<<q>>, <<e>>, Meeting(b))
    BY <2>4 DEF Alike
  <2> QED BY <1>2, <2>2, <2>5, <2>6
<1>3. CASE ~IsCall(e)
  <2>1. ResponsesTo(e) = <<protocol_error("InvalidRequest")>>
    BY <1>3, HandledIs DEF ResponsesTo
  <2>2. IsOwed(e)
    BY <1>3 DEF IsOwed
  <2>3. /\ IsFine(protocol_error("InvalidRequest"))
        /\ Answers(ensure_toon_response_encodable(protocol_error("InvalidRequest"), b), e)
    BY <1>3, NoCallAnswered
  <2> QED BY <1>2, <2>1, <2>2, <2>3
<1>4. CASE IsCall(e) /\ Member(e, "id") = <<>>
  <2>1. ResponsesTo(e) = <<>>
    BY <1>4, HandledIs DEF ResponsesTo
  <2>2. Owed(e) = <<>>
    BY <1>4 DEF Owed, IsOwed
  <2>3. Alike(<<>>, <<>>, Meeting(b)) /\ <<>> \in Seq(Got) /\ <<>> \in Seq(Entries)
    BY DEF Alike
  <2> QED BY <2>1, <2>2, <2>3
<1>5. CASE IsCall(e) /\ Member(e, "id") # <<>>
  <2>1. ResponsesTo(e) = <<handle_request(CallOf(e))>>
    BY <1>5, HandledIs DEF ResponsesTo
  <2>2. IsOwed(e)
    BY <1>5 DEF IsOwed
  <2>3. /\ IsFine(handle_request(CallOf(e)))
        /\ Answers(ensure_toon_response_encodable(handle_request(CallOf(e)), b), e)
    BY <1>5, RequestAnswered
  <2> QED BY <1>2, <2>1, <2>2, <2>3
<1> QED BY <1>3, <1>4, <1>5

\* What the entries get, what they are owed, and what is run.
TheResponses == Flat([i \in 1..Len(entries) |-> ResponsesTo(entries[i])])
TheOwed == Flat([i \in 1..Len(entries) |-> Owed(entries[i])])
TheRuns == Flat([i \in 1..Len(entries) |-> Handled(CallOf(entries[i])).ran])

\* What the entries of a document get is what they are owed, place by place.
LEMMA DocumentMet ==
  ASSUME DocumentInv, NEW b \in BOOLEAN
  PROVE  TheResponses \in Seq(Got) /\ TheOwed \in Seq(Entries) /\ Alike(TheResponses, TheOwed, Meeting(b))
<1> DEFINE n == Len(entries)
           s == [i \in 1..n |-> ResponsesTo(entries[i])]
           t == [i \in 1..n |-> Owed(entries[i])]
<1>1. n \in Nat /\ \A i \in 1..n : entries[i] \in Entries
  BY EntriesAre
<1> HIDE DEF n
<1>2. Len(s) = n /\ Len(t) = n
  BY <1>1
<1>3. ASSUME NEW i \in 1..n PROVE s[i] \in Seq(Got) /\ t[i] \in Seq(Entries) /\ Alike(s[i], t[i], Meeting(b))
  <2>1. entries[i] \in Entries
    BY <1>1
  <2> QED BY <2>1, EntryMet
<1> HIDE DEF s, t
<1>4. Flat(s) \in Seq(Got) /\ Flat(t) \in Seq(Entries) /\ Alike(Flat(s), Flat(t), Meeting(b))
  BY <1>1, <1>2, <1>3, FlatAlike
<1> QED BY <1>4 DEF s, t, n, TheResponses, TheOwed

\* Each response is fine, and answers what is owed in its place.
LEMMA EachMet ==
  ASSUME DocumentInv
  PROVE  /\ Len(TheResponses) \in Nat /\ DOMAIN TheResponses = 1..Len(TheResponses)
         /\ Len(TheOwed) = Len(TheResponses)
         /\ \A i \in 1..Len(TheResponses) :
              IsFine(TheResponses[i]) /\ Answers(ensure_toon_response_encodable(TheResponses[i], array), TheOwed[i])
         /\ ~array => Len(TheResponses) \in 0..1
<1>1. array \in BOOLEAN
  BY DEF DocumentInv
<1>2. TheResponses \in Seq(Got) /\ Alike(TheResponses, TheOwed, Meeting(array))
  BY <1>1, DocumentMet
<1>3. Len(TheResponses) \in Nat /\ DOMAIN TheResponses = 1..Len(TheResponses)
  BY <1>2
<1>4. ASSUME NEW i \in 1..Len(TheResponses)
      PROVE  IsFine(TheResponses[i]) /\ Answers(ensure_toon_response_encodable(TheResponses[i], array), TheOwed[i])
  <2>1. <<TheResponses[i], TheOwed[i]>> \in Meeting(array)
    BY <1>2 DEF Alike
  <2> QED BY <2>1 DEF Meeting
<1>5. ASSUME ~array PROVE Len(TheResponses) \in 0..1
  <2> DEFINE e == entries[1]
  <2>1. Len(entries) = 1 /\ e \in Entries
    BY <1>5, EntriesAre DEF DocumentInv
  <2>2. ResponsesTo(e) \in Seq(Got)
    BY <1>1, <2>1, EntryMet
  <2>3. [i \in 1..Len(entries) |-> ResponsesTo(entries[i])] = <<ResponsesTo(e)>>
    BY <2>1
  <2>4. TheResponses = ResponsesTo(e)
    BY <2>2, <2>3, FlatOne DEF TheResponses
  <2>5. ResponsesTo(e) = <<>> \/ \E x : ResponsesTo(e) = <<x>>
    BY HandledIs DEF ResponsesTo
  <2> QED BY <2>4, <2>5
<1> QED BY <1>2, <1>3, <1>4, <1>5 DEF Alike

\* The refusal is fine, and is not changed.
LEMMA RefusalIsFine ==
  /\ Refusal.responses = <<protocol_error("InvalidRequest")>> /\ Refusal.is_batch = FALSE /\ Refusal.ran = <<>>
  /\ IsFine(protocol_error("InvalidRequest"))
  /\ ensure_toon_response_encodable(protocol_error("InvalidRequest"), FALSE) = protocol_error("InvalidRequest")
<1> DEFINE r == protocol_error("InvalidRequest")
<1>1. decode_id(Null) /\ "InvalidRequest" \in OwnNames
  BY DEF decode_id, Null, OwnNames
<1>2. IsFine(r) /\ r.result = <<>> /\ r.error # <<>> /\ r.error[1].data = <<>>
  BY <1>1, FailureIsFine DEF protocol_error
<1> HIDE DEF r
<1>3. ensure_toon_response_encodable(r, FALSE) = r
  BY <1>2, ErrorsStay
<1>4. Refusal = [responses |-> <<r>>, is_batch |-> FALSE, ran |-> <<>>]
  BY DEF Refusal, Refused, r
<1> QED BY <1>2, <1>3, <1>4 DEF r

\* What is sent of a document in TOON.
Encoded == [i \in 1..Len(TheResponses) |-> ensure_toon_response_encodable(TheResponses[i], array)]
\* What a document in TOON is answered: the refusal, or its responses after the
\* last look at what can be sent.
LEMMA DispatchIs ==
  ASSUME DocumentInv
  PROVE  dispatch(<<Document>>) = IF IsRefused THEN Refusal
                                  ELSE [responses |-> Encoded, is_batch |-> array, ran |-> TheRuns]
<1> DEFINE h == handle_message(from_wire(Document))
<1>1. dispatch(<<Document>>) =
        [h EXCEPT !.responses = [i \in DOMAIN h.responses |-> ensure_toon_response_encodable(h.responses[i], h.is_batch)]]
  BY DEF dispatch
<1>2. h = IF IsRefused THEN Refusal ELSE AllHandled(TheCalls, array)
  BY DocumentHandled
<1> HIDE DEF h
<1>3. CASE IsRefused
  <2> DEFINE p == protocol_error("InvalidRequest")
  <2>1. h = [responses |-> <<p>>, is_batch |-> FALSE, ran |-> <<>>]
    BY <1>2, <1>3 DEF Refusal, Refused
  <2>2. ensure_toon_response_encodable(p, FALSE) = p
    BY RefusalIsFine
  <2> HIDE DEF p
  <2>3. h.responses = <<p>> /\ h.is_batch = FALSE
    BY <2>1
  <2>4. [i \in DOMAIN h.responses |-> ensure_toon_response_encodable(h.responses[i], h.is_batch)] = <<p>>
    <3>1. DOMAIN h.responses = 1..1 /\ \A i \in 1..1 : h.responses[i] = p
      BY <2>3
    <3>2. \A i \in 1..1 : ensure_toon_response_encodable(h.responses[i], h.is_batch) = p
      BY <2>2, <2>3, <3>1
    <3>3. [i \in DOMAIN h.responses |-> ensure_toon_response_encodable(h.responses[i], h.is_batch)] = [i \in 1..1 |-> p]
      BY <3>1, <3>2
    <3>4. [i \in 1..1 |-> p] = <<p>>
      OBVIOUS
    <3> QED BY <3>3, <3>4
  <2>5. dispatch(<<Document>>) = h
    BY <1>1, <2>1, <2>4
  <2> QED BY <1>2, <1>3, <2>5
<1>4. CASE ~IsRefused
  <2>1. h = [responses |-> TheResponses, is_batch |-> array, ran |-> TheRuns]
    BY <1>2, <1>4, AllHandledIs DEF TheResponses, TheRuns, ResponsesTo
  <2>2. h.responses = TheResponses /\ h.is_batch = array
    BY <2>1
  <2>3. DOMAIN TheResponses = 1..Len(TheResponses)
    BY EachMet
  <2>4. [i \in DOMAIN h.responses |-> ensure_toon_response_encodable(h.responses[i], h.is_batch)] = Encoded
    BY <2>2, <2>3 DEF Encoded
  <2> QED BY <1>1, <1>4, <2>1, <2>4
<1> QED BY <1>3, <1>4

-----------------------------------------------------------------------------
(* The parts of the promise. *)

\* Every entry is answered by itself (docs/toon-rpc-spec.md:219-231).
LEMMA Answered == DocumentInv => EveryEntryAnswered(dispatch(<<Document>>))
<1> SUFFICES ASSUME DocumentInv PROVE EveryEntryAnswered(dispatch(<<Document>>))
  OBVIOUS
<1> DEFINE n == Len(entries)
           out == dispatch(<<Document>>)
           owed == Flat([i \in DOMAIN entries |-> IF IsOwed(entries[i]) THEN <<entries[i]>> ELSE <<>>])
           ran == Flat([i \in DOMAIN entries |-> LET e == entries[i] IN
                    IF IsServed(e) THEN <<[method |-> MethodOf(e), params |-> Member(e, "params"), id |-> IdOf(e)]>>
                    ELSE <<>>])
<1>1. DOMAIN entries = 1..n
  BY EntriesAre
<1>2. owed = TheOwed
  BY <1>1 DEF TheOwed, Owed
<1>3. ran = TheRuns
  <2>1. \A i \in 1..n : Handled(CallOf(entries[i])).ran =
          LET e == entries[i] IN
          IF IsServed(e) THEN <<[method |-> MethodOf(e), params |-> Member(e, "params"), id |-> IdOf(e)]>> ELSE <<>>
    BY HandledIs
  <2> QED BY <1>1, <2>1 DEF TheRuns
<1> HIDE DEF n, out, owed, ran
<1>4. CASE IsRefused
  <2>1. out = Refusal
    BY <1>4, DispatchIs DEF out
  <2> QED BY <1>4, <2>1 DEF EveryEntryAnswered, IsRefused, out
<1>5. CASE ~IsRefused
  <2>1. out = [responses |-> Encoded, is_batch |-> array, ran |-> TheRuns]
    BY <1>5, DispatchIs DEF out
  <2>2. out.responses = Encoded /\ out.is_batch = array /\ out.ran = TheRuns
    BY <2>1
  <2>3. Len(Encoded) = Len(TheResponses) /\ Len(TheOwed) = Len(TheResponses)
    BY EachMet DEF Encoded
  <2>4. \A i \in 1..Len(TheOwed) : Answers(Encoded[i], TheOwed[i])
    BY EachMet DEF Encoded
  <2>5. /\ out.ran = ran /\ out.is_batch = array /\ Len(out.responses) = Len(owed)
        /\ \A i \in 1..Len(owed) : Answers(out.responses[i], owed[i])
    BY <1>2, <1>3, <2>2, <2>3, <2>4
  <2> QED BY <1>5, <2>5 DEF EveryEntryAnswered, IsRefused, out, owed, ran
<1> QED BY <1>4, <1>5

\* Fine responses are read back, one by itself and several in a batch.
LEMMA BatchReads ==
  ASSUME NEW n \in Nat, n # 0, NEW s, DOMAIN s = 1..n, s = [i \in 1..n |-> s[i]], \A i \in 1..n : IsFine(s[i])
  PROVE  from_wire(Arr([i \in 1..n |-> Sending(s[i])])) = Message("BatchResponse", s)
<1> DEFINE items == [i \in 1..n |-> Sending(s[i])]
           v == Arr(items)
           read == [i \in DOMAIN items |-> deserialize(items[i])]
<1>1. v.t = "array" /\ v.items = items
  BY DEF Arr
<1>2. DOMAIN items = 1..n /\ 1 \in 1..n
  OBVIOUS
<1>3. \A i \in 1..n : /\ validate_core_value(items[i]) /\ LooksAnswered(items[i])
                      /\ Member(items[i], "method") = <<>> /\ deserialize(items[i]) = <<s[i]>>
  BY FineIsSent, FineReads, SendingMembers
<1> HIDE DEF items
<1>4. DOMAIN read = 1..n /\ \A i \in 1..n : read[i] = <<s[i]>>
  BY <1>2, <1>3
<1>5. items # <<>>
  BY <1>2
<1>6. from_wire(v) = message_from_toon_batch(items)
  <2> HIDE DEF v
  <2> QED BY <1>1 DEF from_wire
<1>7. message_from_toon_batch(items) = decode_batch(items)
  BY <1>2, <1>3, <1>5 DEF message_from_toon_batch
<1>8. \A i \in 1..n : read[i] # <<>> /\ read[i][1] = s[i]
  BY <1>4
<1>9. [i \in DOMAIN items |-> read[i][1]] = s
  <2>1. [i \in DOMAIN items |-> read[i][1]] = [i \in 1..n |-> s[i]]
    BY <1>2, <1>8
  <2> QED BY <2>1
<1>10. decode_batch(items) = Message("BatchResponse", [i \in DOMAIN items |-> read[i][1]])
  BY <1>2, <1>3, <1>8 DEF decode_batch
<1> QED BY <1>6, <1>7, <1>9, <1>10 DEF items
\* A fine response that is sent by itself is read back as it was.
LEMMA SingleReads ==
  ASSUME NEW r, IsFine(r)
  PROVE  from_wire(Sending(r)) = Message("SingleResponse", r)
<1> DEFINE v == Sending(r)
<1>1. /\ v.t = "object" /\ validate_core_value(v) /\ LooksAnswered(v)
      /\ Member(v, "method") = <<>> /\ deserialize(v) = <<r>>
  BY FineIsSent, FineReads, SendingMembers
<1> HIDE DEF v
<1>2. from_wire(v) = decode_single(v)
  BY <1>1 DEF from_wire
<1>3. deserialize(v) # <<>> /\ deserialize(v)[1] = r
  BY <1>1
<1>4. decode_single(v) = Message("SingleResponse", r)
  BY <1>1, <1>3 DEF decode_single
<1> QED BY <1>2, <1>4 DEF v

\* An answer of fine responses is read back as those responses.
LEMMA ReadBack ==
  ASSUME NEW out, NEW n \in Nat, NEW s, out.responses = s, DOMAIN s = 1..n, s = [i \in 1..n |-> s[i]],
         \A i \in 1..n : IsFine(s[i]), out.is_batch \in BOOLEAN, ~out.is_batch => n \in 0..1
  PROVE  AnswersReadBack(out)
<1> DEFINE sent == Output(out, LAMBDA r : Written("toonrpc", TOONRPC_VERSION, r))
<1>1. ASSUME NEW i \in 1..n PROVE Sent(s[i]) # <<>>
  <2>1. IsFine(s[i])
    OBVIOUS
  <2>2. Sent(s[i]) = <<Sending(s[i])>>
    BY <2>1, FineIsSent
  <2>3. <<Sending(s[i])>> # <<>>
    OBVIOUS
  <2> QED BY <2>2, <2>3, Zenon
<1>2. ASSUME s # <<>>
      PROVE  from_wire(sent[1]) = IF out.is_batch THEN Message("BatchResponse", s) ELSE Message("SingleResponse", s[1])
  <2>1. n # 0 /\ 1 \in 1..n
    BY <1>2
  <2>2. sent = <<IF out.is_batch THEN Arr([i \in DOMAIN s |-> Written("toonrpc", TOONRPC_VERSION, s[i])])
                 ELSE Written("toonrpc", TOONRPC_VERSION, s[1])>>
    BY <1>2 DEF Output
  <2>3. sent[1] = IF out.is_batch THEN Arr([i \in 1..n |-> Sending(s[i])]) ELSE Sending(s[1])
    BY <2>2 DEF Sending
  <2> HIDE DEF sent
  <2>4. CASE out.is_batch
    BY <2>1, <2>3, <2>4, BatchReads
  <2>5. CASE ~out.is_batch
    BY <2>1, <2>3, <2>5, SingleReads
  <2> QED BY <2>4, <2>5
<1>3. out.responses # <<>> =>
        from_wire(sent[1]) = IF out.is_batch THEN Message("BatchResponse", out.responses)
                             ELSE Message("SingleResponse", out.responses[1])
  BY <1>2
<1> QED BY <1>1, <1>3 DEF AnswersReadBack

\* What is sent for a document is read as its responses and as nothing else.
LEMMA ReadsBack == DocumentInv => AnswersReadBack(dispatch(<<Document>>))
<1> SUFFICES ASSUME DocumentInv PROVE AnswersReadBack(dispatch(<<Document>>))
  OBVIOUS
<1> DEFINE out == dispatch(<<Document>>)
<1>1. array \in BOOLEAN
  BY DEF DocumentInv
<1>2. CASE IsRefused
  <2> DEFINE p == protocol_error("InvalidRequest")
             s == <<p>>
             n == 1
  <2>1. out = Refusal
    BY <1>2, DispatchIs
  <2>2. out.responses = s /\ out.is_batch = FALSE /\ IsFine(p)
    BY <2>1, RefusalIsFine
  <2> HIDE DEF p, out
  <2>3. n \in Nat /\ DOMAIN s = 1..n /\ s = [i \in 1..n |-> s[i]] /\ \A i \in 1..n : s[i] = p
    OBVIOUS
  <2> HIDE DEF s
  <2>4. \A i \in 1..n : IsFine(s[i])
    BY <2>2, <2>3
  <2>5. n \in 0..1
    OBVIOUS
  <2> HIDE DEF n
  <2> QED BY <2>2, <2>3, <2>4, <2>5, ReadBack DEF out
<1>3. CASE ~IsRefused
  <2> DEFINE n == Len(TheResponses)
  <2>1. out = [responses |-> Encoded, is_batch |-> array, ran |-> TheRuns]
    BY <1>3, DispatchIs
  <2>2. out.responses = Encoded /\ out.is_batch = array
    BY <2>1
  <2>3. n \in Nat /\ (~array => n \in 0..1) /\ \A i \in 1..n : IsFine(TheResponses[i])
    BY EachMet
  <2> HIDE DEF n, out
  <2>4. DOMAIN Encoded = 1..n /\ Encoded = [i \in 1..n |-> Encoded[i]]
        /\ \A i \in 1..n : Encoded[i] = ensure_toon_response_encodable(TheResponses[i], array)
    BY DEF Encoded, n
  <2>5. \A i \in 1..n : IsFine(Encoded[i])
    BY <1>1, <2>3, <2>4, LastLook
  <2> QED BY <1>1, <2>2, <2>3, <2>4, <2>5, ReadBack DEF out
<1> QED BY <1>2, <1>3

\* The same document in JSON runs the same calls, and its responses are the same
\* but for the last look at what TOON can carry.
LEMMA JsonIs ==
  ASSUME DocumentInv, Comparable
  PROVE  handle_jsonrpc(<<JsonDocument>>) =
           IF IsRefused THEN Refusal ELSE [responses |-> TheResponses, is_batch |-> array, ran |-> TheRuns]
<1> DEFINE n == Len(entries)
           J == JsonDocument
           values == IF J.t = "array" THEN J.items ELSE <<J>>
           handled == [i \in DOMAIN values |-> dispatch_jsonrpc_entry(values[i])]
<1>1. /\ n \in Nat /\ DOMAIN entries = 1..n /\ (\A i \in 1..n : entries[i] \in Entries)
      /\ array \in BOOLEAN /\ (~array => n = 1 /\ entries[1].t # "array")
  BY EntriesAre DEF DocumentInv
<1>2. max_batch_length \in Nat /\ (array \/ max_batch_length > 0)
  BY MessagesAssumption DEF Comparable
<1>3. (J.t = "array") = array /\ values = [i \in 1..n |-> Renamed(entries[i])]
  <2>1. CASE array
    <3>1. J = Arr([i \in 1..n |-> Renamed(entries[i])])
      BY <1>1, <2>1 DEF JsonDocument
    <3>2. J.t = "array" /\ J.items = [i \in 1..n |-> Renamed(entries[i])]
      BY <3>1 DEF Arr
    <3> HIDE DEF J
    <3> QED BY <1>1, <2>1, <3>2
  <2>2. CASE ~array
    <3>1. J = Renamed(entries[1])
      BY <2>2 DEF JsonDocument
    <3>2. J.t # "array"
      BY <1>1, <2>2, <3>1 DEF Renamed, Obj
    <3>3. values = <<Renamed(entries[1])>>
      BY <3>1, <3>2
    <3>4. [i \in 1..n |-> Renamed(entries[i])] = <<Renamed(entries[1])>>
      BY <1>1, <2>2
    <3> HIDE DEF J, values
    <3> QED BY <1>1, <2>2, <3>2, <3>3, <3>4
  <2> QED BY <2>1, <2>2
<1> HIDE DEF n, J, values
<1>4. DOMAIN values = 1..n /\ Len(values) = n /\ \A i \in 1..n : values[i] = Renamed(entries[i])
  BY <1>1, <1>3
<1>5. ASSUME NEW i \in 1..n
      PROVE  handled[i].responses = ResponsesTo(entries[i]) /\ handled[i].ran = Handled(CallOf(entries[i])).ran
  <2> DEFINE e == entries[i]
             m == Message("Single", EntryCall(values[i]))
  <2>1. e \in Entries /\ Member(e, "jsonrpc") = <<>> /\ Member(e, "toonrpc") # <<JSONRPC_VERSION>>
    BY <1>1 DEF Comparable, Translatable
  <2>2. handled[i] = handle_message(m)
    BY <1>4 DEF dispatch_jsonrpc_entry
  <2>3. EntryCall(values[i]) = CallOf(e)
    BY <1>4, <2>1, RenamedCall
  <2> HIDE DEF e
  <2>4. m.is = "Single" /\ m.content = CallOf(e)
    BY <2>3 DEF Message
  <2> HIDE DEF m
  <2>5. handle_message(m) = AllHandled(<<CallOf(e)>>, FALSE)
    BY <2>4 DEF handle_message
  <2>6. /\ AllHandled(<<CallOf(e)>>, FALSE).responses = Flat([j \in DOMAIN <<CallOf(e)>> |-> Handled(<<CallOf(e)>>[j]).responses])
        /\ AllHandled(<<CallOf(e)>>, FALSE).ran = Flat([j \in DOMAIN <<CallOf(e)>> |-> Handled(<<CallOf(e)>>[j]).ran])
    BY DEF AllHandled
  <2>7. /\ [j \in DOMAIN <<CallOf(e)>> |-> Handled(<<CallOf(e)>>[j]).responses] = <<ResponsesTo(e)>>
        /\ [j \in DOMAIN <<CallOf(e)>> |-> Handled(<<CallOf(e)>>[j]).ran] = <<Handled(CallOf(e)).ran>>
    BY DEF ResponsesTo
  <2>8. Flat(<<ResponsesTo(e)>>) = ResponsesTo(e)
    <3>1. ResponsesTo(e) \in Seq(Got)
      BY <2>1, EntryMet
    <3> QED BY <3>1, FlatOne
  <2>9. Flat(<<Handled(CallOf(e)).ran>>) = Handled(CallOf(e)).ran
    <3> DEFINE run == [method |-> MethodOf(e), params |-> Member(e, "params"), id |-> IdOf(e)]
               x == Handled(CallOf(e)).ran
    <3>1. x = IF IsServed(e) THEN <<run>> ELSE <<>>
      BY HandledIs
    <3> HIDE DEF run, x
    <3>2. <<run>> \in Seq({run}) /\ <<>> \in Seq({run})
      OBVIOUS
    <3>3. x \in Seq({run})
      BY <3>1, <3>2
    <3> QED BY <3>3, FlatOne DEF x
  <2> QED BY <2>2, <2>5, <2>6, <2>7, <2>8, <2>9 DEF e
<1>6. DOMAIN handled = 1..n
  BY <1>4
<1> HIDE DEF handled
<1>7. /\ [i \in DOMAIN handled |-> handled[i].responses] = [i \in 1..n |-> ResponsesTo(entries[i])]
      /\ [i \in DOMAIN handled |-> handled[i].ran] = [i \in 1..n |-> Handled(CallOf(entries[i])).ran]
  BY <1>5, <1>6
<1>8. values = <<>> \/ Len(values) > max_batch_length <=> IsRefused
  <2>1. values = <<>> <=> n = 0
    BY <1>1, <1>3, <1>4
  <2> QED BY <1>1, <1>2, <1>4, <2>1 DEF IsRefused, n
<1>9. handle_jsonrpc(<<J>>) =
        IF values = <<>> \/ Len(values) > max_batch_length THEN Refusal
        ELSE [responses |-> Flat([i \in DOMAIN handled |-> handled[i].responses]), is_batch |-> J.t = "array",
              ran |-> Flat([i \in DOMAIN handled |-> handled[i].ran])]
  BY DEF handle_jsonrpc, handled, values
<1>10. Flat([i \in DOMAIN handled |-> handled[i].responses]) = TheResponses
  BY <1>7 DEF TheResponses, n
<1>11. Flat([i \in DOMAIN handled |-> handled[i].ran]) = TheRuns
  BY <1>7 DEF TheRuns, n
<1>12. handle_jsonrpc(<<J>>) = IF IsRefused THEN Refusal ELSE [responses |-> TheResponses, is_batch |-> J.t = "array", ran |-> TheRuns]
  BY <1>8, <1>9, <1>10, <1>11
<1>13. (J.t = "array") = array
  BY <1>3
<1> QED BY <1>12, <1>13 DEF J

\* Both dialects run the same calls and answer the same (multi.rs:222).
LEMMA Agreed == DocumentInv /\ Comparable => DialectsAgree(dispatch(<<Document>>), handle_jsonrpc(<<JsonDocument>>))
<1> SUFFICES ASSUME DocumentInv, Comparable
             PROVE  DialectsAgree(dispatch(<<Document>>), handle_jsonrpc(<<JsonDocument>>))
  OBVIOUS
<1> DEFINE toon == dispatch(<<Document>>)
           json == handle_jsonrpc(<<JsonDocument>>)
           n == Len(TheResponses)
<1>1. toon = IF IsRefused THEN Refusal ELSE [responses |-> Encoded, is_batch |-> array, ran |-> TheRuns]
  BY DispatchIs
<1>2. json = IF IsRefused THEN Refusal ELSE [responses |-> TheResponses, is_batch |-> array, ran |-> TheRuns]
  BY JsonIs
<1>3. n \in Nat /\ DOMAIN TheResponses = 1..n /\ \A i \in 1..n : IsFine(TheResponses[i])
  BY EachMet
<1>4. array \in BOOLEAN
  BY DEF DocumentInv
<1> HIDE DEF toon, json, n
<1>5. CASE IsRefused
  <2>1. toon = json
    BY <1>1, <1>2, <1>5
  <2> QED BY <2>1 DEF DialectsAgree, toon, json
<1>6. CASE ~IsRefused
  <2>1. /\ toon.ran = json.ran /\ toon.responses = Encoded /\ json.responses = TheResponses
    BY <1>1, <1>2, <1>6
  <2>2. Len(Encoded) = n /\ \A i \in 1..n : Encoded[i] = ensure_toon_response_encodable(TheResponses[i], array)
    BY <1>3 DEF Encoded, n
  <2>3. ASSUME NEW i \in 1..n
        PROVE  \/ TheResponses[i] = Encoded[i]
               \/ /\ ~validate_response_depth(TheResponses[i], array)
                  /\ Encoded[i] = Failure(ErrorCode("InternalError"), TheResponses[i].id)
    BY <1>3, <1>4, <2>2, LastLook
  <2> QED BY <1>3, <2>1, <2>2, <2>3 DEF DialectsAgree, toon, json, n
<1> QED BY <1>5, <1>6

\* A client is answered in its dialect (multi.rs:69).
LEMMA InKind == AnsweredInKind(dispatch(<<Document>>), handle_jsonrpc(<<JsonDocument>>))
<1> DEFINE toon == dispatch(<<Document>>)
           json == handle_jsonrpc(<<JsonDocument>>)
           wire(r) == Written("toonrpc", TOONRPC_VERSION, r)
           asToon == [opens |-> IF array THEN "[" ELSE "t", json |-> <<>>, toon |-> <<Document>>]
           asJson == [opens |-> IF array THEN "[" ELSE "{", json |-> <<JsonDocument>>, toon |-> <<>>]
           broken == [opens |-> "{", json |-> <<>>, toon |-> <<>>]
<1>1. ASSUME NEW named \in {"none", "ToonRpc"} PROVE handle(asToon, named) = Output(toon, wire)
  <2>1. asToon.opens # "{" /\ asToon.json = <<>> /\ asToon.toon = <<Document>>
    OBVIOUS
  <2> HIDE DEF asToon
  <2>2. detect_protocol(asToon, named) = "ToonRpc"
    BY <2>1 DEF detect_protocol
  <2> QED BY <2>1, <2>2 DEF handle
<1>2. ASSUME NEW named \in {"none", "JsonRpc"}, named = "JsonRpc" \/ has_jsonrpc_member(JsonDocument)
      PROVE  handle(asJson, named) = Output(json, json_response_from)
  <2>1. asJson.opens \in {"[", "{"} /\ asJson.json = <<JsonDocument>>
    OBVIOUS
  <2>2. asJson.json # <<>> /\ asJson.json[1] = JsonDocument
    BY <2>1
  <2> HIDE DEF asJson
  <2>3. detect_protocol(asJson, named) = "JsonRpc"
    BY <1>2, <2>1, <2>2 DEF detect_protocol
  <2> QED BY <2>1, <2>3 DEF handle
<1>3. handle(broken, "none") = <<json_response_from(protocol_error("ParseError"))>>
  <2>1. broken.opens = "{" /\ broken.json = <<>>
    OBVIOUS
  <2> HIDE DEF broken
  <2>2. detect_protocol(broken, "none") = "JsonRpc"
    BY <2>1 DEF detect_protocol
  <2>3. handle(broken, "none") = Output(handle_jsonrpc(<<>>), json_response_from)
    BY <2>1, <2>2 DEF handle
  <2>4. handle_jsonrpc(<<>>) = Refused("ParseError")
    BY DEF handle_jsonrpc
  <2>5. Refused("ParseError").responses = <<protocol_error("ParseError")>> /\ Refused("ParseError").is_batch = FALSE
    BY DEF Refused
  <2> QED BY <2>3, <2>4, <2>5 DEF Output
<1> QED BY <1>1, <1>2, <1>3 DEF AnsweredInKind

\* A document is a sequence of entries, one that is no array when it is no batch.
LEMMA DocumentInvHolds == MessagesSpec => []DocumentInv
<1>1. MessagesInit => DocumentInv
  <2>1. ASSUME array = TRUE, entries = <<>> PROVE DocumentInv
    BY <2>1 DEF DocumentInv
  <2>2. ASSUME array = FALSE, NEW e \in Entries, e.t # "array", entries = <<e>> PROVE DocumentInv
    <3>1. <<e>> \in Seq(Entries) /\ Len(<<e>>) = 1 /\ <<e>>[1] = e
      OBVIOUS
    <3> QED BY <2>2, <3>1 DEF DocumentInv
  <2> QED BY <2>1, <2>2 DEF MessagesInit
<1>2. DocumentInv /\ [MessagesNext]_messageVars => DocumentInv'
  <2> SUFFICES ASSUME DocumentInv, [MessagesNext]_messageVars PROVE DocumentInv'
    OBVIOUS
  <2>1. CASE MessagesNext
    BY <2>1 DEF MessagesNext, DocumentInv
  <2>2. CASE UNCHANGED messageVars
    BY <2>2 DEF messageVars, DocumentInv
  <2> QED BY <2>1, <2>2
<1> QED BY <1>1, <1>2, PTL DEF MessagesSpec

\* docs/toon-rpc-spec.md:219-231, multi.rs: whatever entries a document has, whatever
\* the handlers return and whatever the limits are, every entry is answered by itself,
\* in the client's dialect, with what can be read back.
THEOREM DocumentsAnswered == MessagesSpec => []MessagesAnswered
<1>1. DocumentInv => MessagesAnswered
  BY Answered, ReadsBack, Agreed, InKind DEF MessagesAnswered
<1> QED BY <1>1, DocumentInvHolds, PTL

===============================================================================
