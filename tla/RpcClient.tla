------------------------------ MODULE RpcClient ------------------------------
(***************************************************************************)
(* The Rust TOON-RPC client, crates/reddb-io-toon-rpc/src/client.rs: a     *)
(* table of pending calls keyed by identifier, shared by the futures of    *)
(* the calls, by the receive task of a duplex transport, and by whoever    *)
(* closes the client.                                                      *)
(*                                                                         *)
(* A call is one incarnation of a call_with future; several may carry the  *)
(* same identifier one after the other.  Every action is one critical      *)
(* section of the state mutex together with the code up to the next await  *)
(* or the next lock: between two of them any other thread may run.         *)
(*                                                                         *)
(* notify is no action: it changes no state of the client (its response,   *)
(* if any, is processed under Scope::Nothing and settles nothing).         *)
(* Diagnostics are reporting and are left out; a document that decodes to  *)
(* nothing is the empty sequence of entries.                               *)
(***************************************************************************)
EXTENDS Integers, Sequences, FiniteSets

CONSTANTS
  Calls,        \* incarnations of call_with futures
  ExplicitIds,  \* identifiers a caller may choose (CallOptions::id)
  MaxSafe,      \* MAX_SAFE_INTEGER: the last automatic identifier
  MaxPending,   \* ClientOptions::max_pending_calls
  MaxBatch,     \* bound: entries of one response document
  ReuseIds,     \* may callers choose an identifier that was used before?
  Pump,         \* the receive task, as a processor of documents
  NoCall, NoId, Malformed

Numbers == 0..MaxSafe
Ids == Numbers \cup ExplicitIds
Processors == Calls \cup {Pump}

ASSUME ClientAssumption ==
  /\ MaxSafe \in Nat /\ MaxPending \in Nat /\ MaxBatch \in Nat
  /\ ReuseIds \in BOOLEAN
  /\ NoCall \notin Calls /\ Malformed \notin Calls /\ Pump \notin Calls
  /\ NoId \notin Ids
  /\ MaxSafe + 1 \notin ExplicitIds  \* serialization.rs:253 refuses larger numbers

VARIABLES
  status,     \* State::status
  pending,    \* State::pending: the call whose sender is under each identifier
  nextId,     \* State::next_id
  phase,      \* where the future of each call stands
  idOf,       \* the identifier a call registered under
  channel,    \* what was sent into the oneshot channel of a call
  outcome,    \* what the future of a call returned
  sent,       \* the calls whose request document was handed to the transport
  doc,        \* entries a processor still has to process
  settled,    \* settled_ids of the document a processor is processing
  pump,       \* the receive task; a request/response client has none
  closing,    \* close() has passed its terminate
  handles     \* does the program still hold a Client?

vars == <<status, pending, nextId, phase, idOf, channel, outcome, sent, doc,
          settled, pump, closing, handles>>

-----------------------------------------------------------------------------
\* What a call can be told.  An answer names the call it answers.

Answer(c)  == [kind |-> "answer",    of |-> c]
Closed     == [kind |-> "closed",    of |-> NoCall]
Transport  == [kind |-> "transport", of |-> NoCall]
Protocol   == [kind |-> "protocol",  of |-> NoCall]
Timeout    == [kind |-> "timeout",   of |-> NoCall]
Dropped    == [kind |-> "dropped",   of |-> NoCall]
Refused    == [kind |-> "refused",   of |-> NoCall]
Empty      == [kind |-> "empty",     of |-> NoCall]

Outcomes == {Answer(c) : c \in Calls} \cup
            {Closed, Transport, Protocol, Timeout, Dropped, Refused, Empty}

Waiting == {"registered", "sending", "processing", "awaiting"}
Phases  == Waiting \cup {"idle", "leaving", "gone"}

\* A response document is a batch of entries; an entry is the call whose request
\* it answers, or Malformed.  The peer answers nothing it was not sent, and an
\* exchange brings no stale answer under its own call's identifier.
DocumentsOver(entries) == UNION {[1..n -> entries \cup {Malformed}] : n \in 0..MaxBatch}
Documents == DocumentsOver(sent)
Replies(c) == DocumentsOver({d \in sent : d = c \/ idOf[d] # idOf[c]})

\* The transport is duplex (Link::Duplex).
Duplex == pump # "none"

PendingIds == {i \in Ids : pending[i] # NoCall}

\* The client's shared state lives as long as a Client or a call future does.
Shared == handles \/ \E c \in Calls : phase[c] \in Waiting \cup {"leaving"}

TypeOK ==
  /\ status \in {"Open", "Closed", "Failed"}
  /\ pending \in [Ids -> Calls \cup {NoCall}]
  /\ nextId \in 0..(MaxSafe + 1)
  /\ phase \in [Calls -> Phases]
  /\ idOf \in [Calls -> Ids \cup {NoId}]
  /\ channel \in [Calls -> Outcomes]
  /\ outcome \in [Calls -> Outcomes]
  /\ sent \in SUBSET Calls
  /\ doc \in [Processors -> Seq(Calls \cup {Malformed})]
  /\ settled \in [Processors -> SUBSET Ids]
  /\ pump \in {"none", "running", "stopped"}
  /\ closing \in BOOLEAN
  /\ handles \in BOOLEAN

Init ==
  /\ status = "Open"
  /\ pending = [i \in Ids |-> NoCall]
  /\ nextId = 0
  /\ phase = [c \in Calls |-> "idle"]
  /\ idOf = [c \in Calls |-> NoId]
  /\ channel = [c \in Calls |-> Empty]
  /\ outcome = [c \in Calls |-> Empty]
  /\ sent = {}
  /\ doc = [p \in Processors |-> <<>>]
  /\ settled = [p \in Processors |-> {}]
  /\ pump \in {"none", "running"}
  /\ closing = FALSE
  /\ handles = TRUE

-----------------------------------------------------------------------------
\* Beginning a call.

\* The first number from next_id on that is no pending call's identifier; one
\* past the last automatic identifier when all are pending or used up.
IsFreeNumber_ignoresPending(n) == n = nextId
IsFreeNumber(n) ==
  /\ n \in nextId..(MaxSafe + 1)
  /\ n \notin PendingIds
  /\ \A m \in nextId..(n - 1) : m \in PendingIds

\* next_id after a number was handed out.
After_same(n) == n
After(n) == n + 1

\* Callers that do not reuse identifiers draw them outside the automatic
\* numbers and choose each one once.
MayChoose(i) ==
  ReuseIds \/ (i \notin Numbers /\ \A d \in Calls : idOf[d] # i)

\* register looks at the status and at the number of pending calls first.
Admits_whenClosed == Cardinality(PendingIds) < MaxPending
Admits == status = "Open" /\ Cardinality(PendingIds) < MaxPending

RegisterAs(c, i) ==
  /\ pending' = [pending EXCEPT ![i] = c]
  /\ idOf' = [idOf EXCEPT ![c] = i]
  /\ phase' = [phase EXCEPT ![c] = "registered"]
  /\ UNCHANGED <<status, channel, outcome, sent, doc, settled, pump, closing, handles>>

Register(c) ==
  /\ handles
  /\ phase[c] = "idle"
  /\ Admits
  /\ \/ \E i \in ExplicitIds :
          /\ MayChoose(i)
          /\ i \notin PendingIds
          /\ RegisterAs(c, i)
          /\ UNCHANGED nextId
     \/ \E n \in Numbers :
          /\ IsFreeNumber(n)
          /\ RegisterAs(c, n)
          /\ nextId' = After(n)

\* A call that is refused before it is registered: the client is not open, is
\* full, the identifier is taken or exhausted, or the request cannot be encoded
\* (which, for an automatic identifier, still consumes the number).
Refuse(c) ==
  /\ handles
  /\ phase[c] = "idle"
  /\ \/ /\ \/ ~Admits
           \/ \E i \in ExplicitIds : MayChoose(i) \/ i \in PendingIds
        /\ UNCHANGED nextId
     \/ /\ Admits
        /\ \E n \in 0..(MaxSafe + 1) :
             /\ IsFreeNumber(n)
             /\ nextId' = IF n > MaxSafe THEN n ELSE After(n)
  /\ phase' = [phase EXCEPT ![c] = "gone"]
  /\ outcome' = [outcome EXCEPT ![c] = Refused]
  /\ UNCHANGED <<status, pending, idOf, channel, sent, doc, settled, pump, closing, handles>>

-----------------------------------------------------------------------------
\* Settling.

\* Take whatever call is pending under an identifier and tell it something.
Resolve_keepsEntry(i, what) ==
  /\ UNCHANGED pending
  /\ channel' = [c \in Calls |-> IF pending[i] = c THEN what ELSE channel[c]]
Resolve(i, what) ==
  /\ pending' = [pending EXCEPT ![i] = NoCall]
  /\ channel' = [c \in Calls |-> IF pending[i] = c THEN what ELSE channel[c]]

\* Scope::Only restricts an exchange to its own call's identifier.
InScope_any(p, i) == TRUE
InScope(p, i) == p = Pump \/ i = idOf[p]

\* One entry of the document a processor is working through.  A malformed, a
\* duplicate, an out-of-scope and an unknown entry are only diagnosed.
ProcessEntry(p) ==
  /\ doc[p] # <<>>
  /\ LET entry == Head(doc[p])
         id == idOf[entry]
         settles == /\ entry # Malformed
                    /\ id \notin settled[p]
                    /\ InScope(p, id)
                    /\ id \in PendingIds
     IN  /\ IF settles THEN Resolve(id, Answer(entry)) ELSE UNCHANGED <<pending, channel>>
         /\ settled' = [settled EXCEPT ![p] = IF Len(doc[p]) = 1 THEN {}
                                              ELSE IF settles THEN @ \cup {id} ELSE @]
  /\ doc' = [doc EXCEPT ![p] = Tail(@)]
  /\ UNCHANGED <<status, nextId, phase, idOf, outcome, sent, pump, closing, handles>>

\* Close the table: the first reason wins and tells every pending call.
Terminate_tellsNobody(newStatus, what) ==
  /\ status' = IF status = "Open" THEN newStatus ELSE status
  /\ pending' = [i \in Ids |-> NoCall]
  /\ UNCHANGED channel
Terminate(newStatus, what) ==
  IF status # "Open"
  THEN UNCHANGED <<status, pending, channel>>
  ELSE /\ status' = newStatus
       /\ pending' = [i \in Ids |-> NoCall]
       /\ channel' = [c \in Calls |->
                        IF \E i \in Ids : pending[i] = c THEN what ELSE channel[c]]

-----------------------------------------------------------------------------
\* The future of a call.

\* First poll: the request document goes to the transport.
BeginTransmit(c) ==
  /\ phase[c] = "registered"
  /\ phase' = [phase EXCEPT ![c] = "sending"]
  /\ sent' = sent \cup {c}
  /\ UNCHANGED <<status, pending, nextId, idOf, channel, outcome, doc, settled, pump,
                 closing, handles>>

SendDone(c) ==
  /\ Duplex
  /\ phase[c] = "sending"
  /\ phase' = [phase EXCEPT ![c] = "awaiting"]
  /\ UNCHANGED <<status, pending, nextId, idOf, channel, outcome, sent, doc, settled,
                 pump, closing, handles>>

\* send or request failed, or a request/response transport had no response.
TransmitFails(c) ==
  /\ phase[c] = "sending"
  /\ phase' = [phase EXCEPT ![c] = "awaiting"]
  /\ \/ Resolve(idOf[c], Transport)
     \/ ~Duplex /\ Resolve(idOf[c], Protocol)
  /\ UNCHANGED <<status, nextId, idOf, outcome, sent, doc, settled, pump, closing, handles>>

\* The response document of a request/response exchange.
ReplyArrives(c, document) ==
  /\ ~Duplex
  /\ phase[c] = "sending"
  /\ phase' = [phase EXCEPT ![c] = "processing"]
  /\ doc' = [doc EXCEPT ![c] = document]
  /\ UNCHANGED <<status, pending, nextId, idOf, channel, outcome, sent, settled, pump,
                 closing, handles>>

\* The whole response is processed: whatever is left pending is rejected.
EndExchange_noReject(c) ==
  /\ phase[c] = "processing"
  /\ doc[c] = <<>>
  /\ phase' = [phase EXCEPT ![c] = "awaiting"]
  /\ UNCHANGED <<status, pending, nextId, idOf, channel, outcome, sent, doc, settled, pump,
                 closing, handles>>
EndExchange(c) ==
  /\ phase[c] = "processing"
  /\ doc[c] = <<>>
  /\ Resolve(idOf[c], Protocol)
  /\ phase' = [phase EXCEPT ![c] = "awaiting"]
  /\ UNCHANGED <<status, nextId, idOf, outcome, sent, doc, settled, pump, closing, handles>>

\* The future's result is fixed; its locals are not dropped yet.
Leave(c, what) ==
  /\ outcome' = [outcome EXCEPT ![c] = what]
  /\ phase' = [phase EXCEPT ![c] = "leaving"]
  /\ UNCHANGED <<status, pending, nextId, idOf, channel, sent, doc, settled, pump,
                 closing, handles>>

Complete(c) ==
  /\ phase[c] = "awaiting"
  /\ channel[c] # Empty
  /\ Leave(c, channel[c])

\* The timer runs from the first poll and loses against an outcome that is there.
TimeoutFires(c) ==
  /\ phase[c] = "sending" \/ (phase[c] = "awaiting" /\ channel[c] = Empty)
  /\ Leave(c, Timeout)

DropFuture(c) ==
  /\ phase[c] \in {"registered", "sending", "awaiting"}
  /\ Leave(c, Dropped)

\* PendingGuard::drop.  A sender that is removed is dropped, which its receiver
\* reads as "closed".
ReleaseGuard(c) ==
  /\ phase[c] = "leaving"
  /\ Resolve(idOf[c], Closed)
  /\ phase' = [phase EXCEPT ![c] = "gone"]
  /\ UNCHANGED <<status, nextId, idOf, outcome, sent, doc, settled, pump, closing, handles>>

-----------------------------------------------------------------------------
\* The receive task and the client's end.

PumpReceives(document) ==
  /\ pump = "running"
  /\ doc[Pump] = <<>>
  /\ Shared
  /\ doc' = [doc EXCEPT ![Pump] = document]
  /\ UNCHANGED <<status, pending, nextId, phase, idOf, channel, outcome, sent, settled,
                 pump, closing, handles>>

PumpEnds ==
  /\ pump = "running"
  /\ doc[Pump] = <<>>
  /\ pump' = "stopped"
  /\ \/ Shared /\ Terminate("Closed", Closed)
     \/ Shared /\ Terminate("Failed", Transport)
     \/ (closing \/ ~Shared) /\ UNCHANGED <<status, pending, channel>>
  /\ UNCHANGED <<nextId, phase, idOf, outcome, sent, doc, settled, closing, handles>>

Close ==
  /\ handles
  /\ ~closing
  /\ closing' = TRUE
  /\ Terminate("Closed", Closed)
  /\ UNCHANGED <<nextId, phase, idOf, outcome, sent, doc, settled, pump, handles>>

DropClient ==
  /\ handles
  /\ handles' = FALSE
  /\ UNCHANGED <<status, pending, nextId, phase, idOf, channel, outcome, sent, doc,
                 settled, pump, closing>>

-----------------------------------------------------------------------------

CallStep(c) ==
  \/ Register(c) \/ Refuse(c)
  \/ BeginTransmit(c) \/ SendDone(c) \/ TransmitFails(c)
  \/ \E document \in Replies(c) : ReplyArrives(c, document)
  \/ EndExchange(c)
  \/ Complete(c) \/ TimeoutFires(c) \/ DropFuture(c) \/ ReleaseGuard(c)

Next ==
  \/ \E c \in Calls : CallStep(c)
  \/ \E p \in Processors : ProcessEntry(p)
  \/ \E document \in Documents \ {<<>>} : PumpReceives(document)
  \/ PumpEnds \/ Close \/ DropClient

Spec == Init /\ [][Next]_vars

\* The runtime keeps polling the futures its tasks await and every exchange
\* ends; nothing makes callers call, close or wait for less than an answer.
Fairness ==
  /\ \A c \in Calls :
       /\ WF_vars(phase[c] = "registered" /\ (BeginTransmit(c) \/ DropFuture(c)))
       /\ WF_vars(SendDone(c) \/ TransmitFails(c)
                    \/ \E document \in Replies(c) : ReplyArrives(c, document))
       /\ WF_vars(EndExchange(c))
       /\ WF_vars(Complete(c))
       /\ WF_vars(ReleaseGuard(c))
  /\ \A p \in Processors : WF_vars(ProcessEntry(p))

FairSpec == Spec /\ Fairness

-----------------------------------------------------------------------------
\* Correctness.

\* An entry of the pending table belongs to exactly the call that registered
\* under that identifier, and that call has been told nothing yet: a call is
\* removed before it settles (client.rs:5-7).
PendingIsUnsettled ==
  \A i \in PendingIds :
    /\ idOf[pending[i]] = i
    /\ channel[pending[i]] = Empty
    /\ phase[pending[i]] \in Waiting \cup {"leaving"}

\* A future that still waits and has been told nothing is in the table, so
\* some response, failure or close can still reach it: no call is forgotten.
NoCallForgotten ==
  \A c \in Calls :
    (phase[c] \in Waiting /\ channel[c] = Empty) => pending[idOf[c]] = c

\* Once the client is closed or failed its table stays empty: no call slips in
\* between the terminate that emptied it and the status that refuses calls.
TerminalTableEmpty == status # "Open" => PendingIds = {}

\* The table holds the calls that can still be settled, and only while they can.
PendingServesCalls == NoCallForgotten /\ TerminalTableEmpty

\* Whatever settles a call settles it once: nothing overwrites what a call was
\* told or what its future returned (client.rs:5-7).
SettlesOnce ==
  [][\A c \in Calls :
       /\ channel[c] # Empty => channel'[c] = channel[c]
       /\ outcome[c] # Empty => outcome'[c] = outcome[c]]_vars

\* A call is only ever answered with the answer to its own request document.
AnswersOwnCall ==
  \A c \in Calls : outcome[c].kind = "answer" => outcome[c] = Answer(c)

\* While the client is open nobody is told that it is closed.
ClosedOnlyWhenClosed ==
  \A c \in Calls : outcome[c] = Closed => status # "Open"

\* While the client is open, a call of a request/response client hears nothing
\* before its own exchange ended, and a call of a duplex client no failure before
\* its own send did (client.rs:5-6, 8-9).
SettledByOwnExchange ==
  \A c \in Calls :
    (/\ status = "Open"
     /\ channel[c] # Empty
     /\ ~Duplex \/ channel[c] \in {Transport, Protocol})
      => phase[c] \notin {"registered", "sending"}

\* A request/response call is settled from its own response document
\* (client.rs:4-5), even by callers that reuse identifiers.
ExchangeAnswersOwnCall ==
  \A c \in Calls : ~Duplex /\ outcome[c].kind = "answer" => outcome[c] = Answer(c)

\* Once the client is closed or failed, every call ends.
TerminalEndsCalls ==
  \A c \in Calls :
    (status # "Open" /\ phase[c] # "idle") ~> (phase[c] = "gone")

\* A request/response call ends, even without a timeout and whatever the
\* response document holds.
ExchangeEnds ==
  \A c \in Calls : (~Duplex /\ phase[c] = "registered") ~> (phase[c] = "gone")

\* The contract with the callers, seen through this state.
ledgerBar ==
  [c \in Calls |->
     IF phase[c] = "idle" THEN [kind |-> "idle", of |-> NoCall]
     ELSE IF outcome[c] = Empty THEN [kind |-> "pending", of |-> NoCall]
     ELSE outcome[c]]

Contract == INSTANCE CallContract WITH ledger <- ledgerBar, open <- (status = "Open")

\* Callers that do not reuse identifiers get the contract of CallContract.
ImplementsContract == Contract!Spec
=============================================================================
