------------------------------- MODULE TsClient -------------------------------
(***************************************************************************)
(* The TypeScript TOON-RPC client, packages/toon-rpc/src/client.ts: a map  *)
(* of pending calls keyed by identifier, opened by the first call, with    *)
(* one receive loop over a duplex transport.                               *)
(*                                                                         *)
(* JavaScript runs one piece of code at a time up to its next await, so    *)
(* every action is one such piece; between two of them anything else may   *)
(* run, the callers' own code included.                                    *)
(*                                                                         *)
(* notify is Start: apart from opening the client it changes nothing, for  *)
(* a response to it is processed under an empty scope and settles nothing. *)
(* A batch is its entries one after the other: nothing else runs between   *)
(* two entries, which only makes fewer behaviours, and an entry that       *)
(* repeats a settled identifier finds nothing pending, as settledIds would *)
(* have it.  Diagnostics are reporting and are left out.                   *)
(***************************************************************************)
EXTENDS Integers, FiniteSets

CONSTANTS
  Calls,        \* the calls ever made
  ExplicitIds,  \* identifiers a caller may choose (CallOptions.id)
  MaxSafe,      \* the last safe integer
  MaxPending,   \* ClientOptions.maxPendingCalls
  NoCall, NoId

Numbers == 0..MaxSafe
Ids == Numbers \cup ExplicitIds

ASSUME TsClientAssumption ==
  /\ MaxSafe \in Nat /\ MaxPending \in Nat
  /\ NoCall \notin Calls
  /\ NoId \notin Ids
  /\ MaxSafe + 1 \notin ExplicitIds  \* isId: numbers are safe integers

VARIABLES
  state,      \* Client.state
  pending,    \* Client.pending: the call under each identifier
  idCounter,  \* Client.idCounter
  start,      \* Client.startPromise: "none", "waiting", "opened", "failed"
  step,       \* where dispatchCall stands for each call
  idOf,       \* the identifier a call registered under
  result,     \* what the promise of a call was settled with
  sent,       \* the calls whose request document was handed to the transport
  receiver,   \* receiveLoop: "none", "running", "over"
  closing,    \* close(): "none", "begun", "done"
  duplex,     \* transport.kind, fixed
  reuse       \* do callers choose identifiers that were used before?  fixed

clientVars == <<state, pending, idCounter, start, step, idOf, result, sent,
                receiver, closing, duplex, reuse>>

-----------------------------------------------------------------------------
\* What a promise is settled with.  An answer names the call it answers.

Answer(c)  == [kind |-> "answer",    of |-> c]
Closed     == [kind |-> "closed",    of |-> NoCall]
Transport  == [kind |-> "transport", of |-> NoCall]
Protocol   == [kind |-> "protocol",  of |-> NoCall]
Timeout    == [kind |-> "timeout",   of |-> NoCall]
Aborted    == [kind |-> "dropped",   of |-> NoCall]
Refused    == [kind |-> "refused",   of |-> NoCall]
Empty      == [kind |-> "empty",     of |-> NoCall]

Outcomes == {Answer(c) : c \in Calls} \cup
            {Closed, Transport, Protocol, Timeout, Aborted, Refused, Empty}

Terminal == state \in {"closed", "failed"}
PendingIds == {i \in Ids : pending[i] # NoCall}

ClientTypeOK ==
  /\ state \in {"idle", "opening", "open", "closed", "failed"}
  /\ pending \in [Ids -> Calls \cup {NoCall}]
  /\ idCounter \in 0..(MaxSafe + 1)
  /\ start \in {"none", "waiting", "opened", "failed"}
  /\ step \in [Calls -> {"idle", "waiting", "late", "sending", "over", "refused"}]
  /\ idOf \in [Calls -> Ids \cup {NoId}]
  /\ result \in [Calls -> Outcomes]
  /\ sent \in SUBSET Calls
  /\ receiver \in {"none", "running", "over"}
  /\ closing \in {"none", "begun", "done"}
  /\ duplex \in BOOLEAN /\ reuse \in BOOLEAN

ClientInit ==
  /\ state = "idle"
  /\ pending = [i \in Ids |-> NoCall]
  /\ idCounter = 0
  /\ start = "none"
  /\ step = [c \in Calls |-> "idle"]
  /\ idOf = [c \in Calls |-> NoId]
  /\ result = [c \in Calls |-> Empty]
  /\ sent = {}
  /\ receiver = "none"
  /\ closing = "none"
  /\ duplex \in BOOLEAN /\ reuse \in BOOLEAN

-----------------------------------------------------------------------------
\* Beginning a call.

\* allocateId: the first number from idCounter on that is not pending, even if
\* it was pending once.
IsNextNumber(n) ==
  /\ n \in idCounter..(MaxSafe + 1)
  /\ n \notin PendingIds
  /\ \A m \in idCounter..(n - 1) : m \in PendingIds

\* Callers that do not reuse identifiers draw them outside the numbers and
\* choose each one once.
MayChoose(i) == reuse \/ (i \notin Numbers /\ \A d \in Calls : idOf[d] # i)

\* ensureOpen, called by start, notify and call: the first one opens.
EnsureOpen ==
  /\ state' = IF state = "idle" THEN "opening" ELSE state
  /\ start' = IF state = "idle" THEN "waiting" ELSE start

\* call() looks at the number of pending calls, never at the state: on a client
\* that is terminal the call is registered and its dispatch rejects it.
Register(c, i) ==
  /\ pending' = [pending EXCEPT ![i] = c]
  /\ idOf' = [idOf EXCEPT ![c] = i]
  /\ step' = [step EXCEPT ![c] = IF Terminal THEN "late" ELSE "waiting"]

Call(c) ==
  /\ step[c] = "idle"
  /\ Cardinality(PendingIds) < MaxPending
  /\ \/ \E i \in ExplicitIds :
          MayChoose(i) /\ i \notin PendingIds /\ Register(c, i) /\ UNCHANGED idCounter
     \/ \E n \in Numbers :
          IsNextNumber(n) /\ Register(c, n) /\ idCounter' = n + 1
  /\ EnsureOpen
  /\ UNCHANGED <<result, sent, receiver, closing, duplex, reuse>>

\* A call that throws before it is registered: its signal is aborted, the map
\* is full, the identifier is taken or used up, or the request cannot be
\* encoded, by when the number is spent.
RefuseCall(c) ==
  /\ step[c] = "idle"
  /\ \/ UNCHANGED idCounter
     \/ /\ Cardinality(PendingIds) < MaxPending
        /\ \E n \in Numbers \cup {MaxSafe + 1} :
             /\ IsNextNumber(n)
             /\ idCounter' = IF n > MaxSafe THEN n ELSE n + 1
  /\ step' = [step EXCEPT ![c] = "refused"]
  /\ result' = [result EXCEPT ![c] = Refused]
  /\ UNCHANGED <<state, pending, start, idOf, sent, receiver, closing, duplex, reuse>>

Start ==
  /\ EnsureOpen
  /\ UNCHANGED <<pending, idCounter, step, idOf, result, sent, receiver, closing, duplex, reuse>>

-----------------------------------------------------------------------------
\* Settling: whatever call is under the identifier is taken out and told.

Settle_keepsEntry(i, what) ==
  /\ UNCHANGED pending
  /\ result' = [c \in Calls |-> IF pending[i] = c THEN what ELSE result[c]]
Settle(i, what) ==
  /\ pending' = [pending EXCEPT ![i] = NoCall]
  /\ result' = [c \in Calls |-> IF pending[i] = c THEN what ELSE result[c]]

\* The first reason to end wins, and tells every pending call at once.
Terminate_tellsNobody(newState, what) ==
  /\ state' = newState
  /\ UNCHANGED <<pending, result>>
Terminate(newState, what) ==
  /\ state' = newState
  /\ pending' = [i \in Ids |-> NoCall]
  /\ result' = [c \in Calls |-> IF \E i \in Ids : pending[i] = c THEN what ELSE result[c]]

\* terminalError, which everybody who comes too late is told.
TerminalError == IF state = "closed" THEN Closed ELSE Transport

-----------------------------------------------------------------------------
\* Opening.

\* A connection that is there after the client ended opens nothing.
Opened ==
  /\ start = "waiting"
  /\ IF state = "opening"
     THEN /\ state' = "open" /\ start' = "opened"
          /\ receiver' = IF duplex THEN "running" ELSE receiver
     ELSE start' = "failed" /\ UNCHANGED <<state, receiver>>
  /\ UNCHANGED <<pending, idCounter, step, idOf, result, sent, closing, duplex, reuse>>

OpenFails ==
  /\ start = "waiting"
  /\ start' = "failed"
  /\ IF Terminal THEN UNCHANGED <<state, pending, result>> ELSE Terminate("failed", Transport)
  /\ UNCHANGED <<idCounter, step, idOf, sent, receiver, closing, duplex, reuse>>

-----------------------------------------------------------------------------
\* dispatchCall, after `await this.ensureOpen()`.  It looks the call up by its
\* identifier, under which a newer call may be pending by now.
Dispatch(c) ==
  /\ step[c] = "waiting" /\ start = "opened"
  /\ \/ /\ pending[idOf[c]] = NoCall
        /\ step' = [step EXCEPT ![c] = "over"]
        /\ UNCHANGED <<pending, result, sent>>
     \/ /\ pending[idOf[c]] # NoCall /\ state = "open"
        /\ step' = [step EXCEPT ![c] = "sending"]
        /\ sent' = sent \cup {c}
        /\ UNCHANGED <<pending, result>>
     \/ /\ pending[idOf[c]] # NoCall /\ state # "open"
        /\ step' = [step EXCEPT ![c] = "over"]
        /\ Settle(idOf[c], TerminalError)
        /\ UNCHANGED sent
  /\ UNCHANGED <<state, idCounter, start, idOf, receiver, closing, duplex, reuse>>

\* ensureOpen rejected: the connection failed, or the client had ended before.
DispatchRejected(c) ==
  /\ step[c] = "late" \/ (step[c] = "waiting" /\ start = "failed")
  /\ step' = [step EXCEPT ![c] = IF @ = "late" THEN "refused" ELSE "over"]
  /\ Settle(idOf[c], TerminalError)
  /\ UNCHANGED <<state, idCounter, start, idOf, sent, receiver, closing, duplex, reuse>>

\* A duplex send ends well: the answer comes through the receive loop.
SendEnds(c) ==
  /\ duplex /\ step[c] = "sending"
  /\ step' = [step EXCEPT ![c] = "over"]
  /\ UNCHANGED <<state, pending, idCounter, start, idOf, result, sent, receiver, closing,
                 duplex, reuse>>

\* send or request rejects, by itself or because the call's own signal did; it
\* rejects whatever call is under the identifier by then.
OperationFails(c) ==
  /\ step[c] = "sending"
  /\ step' = [step EXCEPT ![c] = "over"]
  /\ Settle(idOf[c], Transport)
  /\ UNCHANGED <<state, idCounter, start, idOf, sent, receiver, closing, duplex, reuse>>

\* The response of an exchange, in one piece: the first entry under its own
\* identifier settles the call, and without one the call is rejected.  An
\* exchange brings no stale answer under its own identifier.
InScope(c, entry) == entry # NoCall /\ idOf[entry] = idOf[c]

Entries(c) == {d \in sent : d = c \/ idOf[d] # idOf[c]} \cup {NoCall}

Reply(c, entry) ==
  /\ ~duplex /\ step[c] = "sending"
  /\ step' = [step EXCEPT ![c] = "over"]
  /\ IF pending[idOf[c]] = NoCall THEN UNCHANGED <<pending, result>>
     ELSE Settle(idOf[c], IF InScope(c, entry) THEN Answer(entry) ELSE Protocol)
  /\ UNCHANGED <<state, idCounter, start, idOf, sent, receiver, closing, duplex, reuse>>

\* The caller's signal and the call's timer; both are gone once it is settled.
GiveUp(c) ==
  /\ \E i \in Ids :
       pending[i] = c /\ \E why \in {Timeout, Aborted} : Settle(i, why)
  /\ UNCHANGED <<state, idCounter, start, step, idOf, sent, receiver, closing, duplex, reuse>>

-----------------------------------------------------------------------------
\* The receive loop and the client's end.

\* An entry under an identifier that is not pending is only diagnosed.
Receive(entry) ==
  /\ receiver = "running" /\ state = "open"
  /\ idOf[entry] \in PendingIds
  /\ Settle(idOf[entry], Answer(entry))
  /\ UNCHANGED <<state, idCounter, start, step, idOf, sent, receiver, closing, duplex, reuse>>

ReceiveEnds ==
  /\ receiver = "running"
  /\ receiver' = "over"
  /\ IF state # "open" THEN UNCHANGED <<state, pending, result>>
     ELSE Terminate("closed", Closed) \/ Terminate("failed", Transport)
  /\ UNCHANGED <<idCounter, start, step, idOf, sent, closing, duplex, reuse>>

CloseClient ==
  /\ closing = "none"
  /\ closing' = "begun"
  /\ IF Terminal THEN UNCHANGED <<state, pending, result>> ELSE Terminate("closed", Closed)
  /\ UNCHANGED <<idCounter, start, step, idOf, sent, receiver, duplex, reuse>>

\* close() resolves once the transport is closed and the receive loop is over.
CloseResolves ==
  /\ closing = "begun" /\ receiver # "running"
  /\ closing' = "done"
  /\ UNCHANGED <<state, pending, idCounter, start, step, idOf, result, sent, receiver, duplex, reuse>>

-----------------------------------------------------------------------------

DispatchStep(c) ==
  \/ Dispatch(c) \/ DispatchRejected(c) \/ SendEnds(c) \/ OperationFails(c)
  \/ \E entry \in Entries(c) : Reply(c, entry)

ClientNext ==
  \/ \E c \in Calls : Call(c) \/ RefuseCall(c) \/ DispatchStep(c) \/ GiveUp(c)
  \/ \E entry \in sent : Receive(entry)
  \/ Start \/ Opened \/ OpenFails \/ ReceiveEnds \/ CloseClient \/ CloseResolves

ClientSpec == ClientInit /\ [][ClientNext]_clientVars

\* Promises that are settled have their continuations run, connecting and every
\* exchange end, and a receive loop whose signal is aborted ends.
ClientFairness ==
  /\ \A c \in Calls : WF_clientVars(DispatchStep(c))
  /\ WF_clientVars(Opened \/ OpenFails)
  /\ WF_clientVars(Terminal /\ ReceiveEnds)
  /\ WF_clientVars(CloseResolves)

-----------------------------------------------------------------------------
\* Correctness.

\* A call that was made on a client that had ended began nothing: whatever its
\* caller is told, it is refused.  Callers that reuse identifiers get less: an
\* answer counts as the call's own if it answers a call with that identifier,
\* and may even reach a call that came too late.
Made(c) == step[c] # "idle"
Late(c) == step[c] \in {"late", "refused"}
Seen(c) ==
  IF Late(c) /\ (reuse \/ result[c].kind # "answer") THEN Refused
  ELSE IF reuse /\ result[c].kind = "answer" /\ idOf[result[c].of] = idOf[c] THEN Answer(c)
  ELSE result[c]

ClientBar ==
  [c \in Calls |->
     IF result[c] # Empty THEN Seen(c)
     ELSE [kind |-> IF Made(c) /\ ~Late(c) THEN "pending" ELSE "idle", of |-> NoCall]]

Contract == INSTANCE CallContract WITH ledger <- ClientBar, open <- ~Terminal
TsImplementsContract == Contract!Spec

\* Once the client has ended, every call that was made is settled, and close()
\* resolves; a call over a request/response transport is settled in any case.
TsClientEnds ==
  /\ \A c \in Calls : (Made(c) /\ (Terminal \/ ~duplex)) ~> (result[c] # Empty)
  /\ closing = "begun" ~> closing = "done"
=============================================================================
