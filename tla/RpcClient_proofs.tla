--------------------------- MODULE RpcClient_proofs ---------------------------
(***************************************************************************)
(* Proofs about RpcClient, for every set of calls and identifiers and both *)
(* links.                                                                  *)
(***************************************************************************)
EXTENDS RpcClient, TLAPS

Live == Waiting \cup {"leaving"}

\* A call has an identifier from its registration on, and before it nobody has
\* told it anything; documents hold answers to requests that were sent.
Identified ==
  \A c \in Calls :
    /\ phase[c] \in Live => idOf[c] \in Ids
    /\ c \in sent => idOf[c] \in Ids
    /\ phase[c] = "idle" => idOf[c] = NoId /\ channel[c] = Empty /\ outcome[c] = Empty
    /\ phase[c] \in Waiting => outcome[c] = Empty

DocumentsAreSent ==
  \A p \in Processors : \A k \in 1..Len(doc[p]) : doc[p][k] \in sent \cup {Malformed}

\* The inductive invariant.
IInv ==
  /\ TypeOK
  /\ Identified
  /\ DocumentsAreSent
  /\ PendingIsUnsettled
  /\ NoCallForgotten
  /\ TerminalTableEmpty

LEMMA OutcomeKinds ==
  /\ \A c \in Calls : Answer(c) \in Outcomes /\ Answer(c) # Empty
  /\ {Closed, Transport, Protocol, Timeout, Dropped, Refused, Empty} \subseteq Outcomes
  /\ Empty \notin {Closed, Transport, Protocol, Timeout, Dropped, Refused}
BY DEF Outcomes, Answer, Closed, Transport, Protocol, Timeout, Dropped, Refused, Empty

LEMMA InitIInv == Init => IInv
<1> SUFFICES ASSUME Init PROVE IInv
  OBVIOUS
<1> USE ClientAssumption, OutcomeKinds DEF Init
<1>1. TypeOK
  <2>1. Empty \in Outcomes
    BY DEF Outcomes
  <2>2. "idle" \in Phases
    BY DEF Phases
  <2>3. 0 \in 0..(MaxSafe + 1)
    OBVIOUS
  <2>4. doc \in [Processors -> Seq(Calls \cup {Malformed})]
    OBVIOUS
  <2>5. settled \in [Processors -> SUBSET Ids]
    OBVIOUS
  <2> QED BY <2>1, <2>2, <2>3, <2>4, <2>5 DEF TypeOK
<1>2. Identified /\ DocumentsAreSent
  BY DEF Identified, DocumentsAreSent, Live, Waiting
<1>3. PendingIsUnsettled /\ NoCallForgotten /\ TerminalTableEmpty
  BY DEF PendingIsUnsettled, NoCallForgotten, TerminalTableEmpty, PendingIds, Waiting
<1> QED BY <1>1, <1>2, <1>3 DEF IInv

-----------------------------------------------------------------------------
\* Resolve empties one entry and tells the call that was there, if any.
LEMMA ResolveFacts ==
  ASSUME TypeOK, NEW i \in Ids, NEW what \in Outcomes, Resolve(i, what)
  PROVE  /\ pending' \in [Ids -> Calls \cup {NoCall}]
         /\ channel' \in [Calls -> Outcomes]
         /\ \A j \in Ids : pending'[j] = IF j = i THEN NoCall ELSE pending[j]
         /\ \A c \in Calls : channel'[c] = IF pending[i] = c THEN what ELSE channel[c]
BY DEF TypeOK, Resolve

\* Terminate leaves an open client's table empty with every pending call told.
LEMMA TerminateFacts ==
  ASSUME TypeOK, TerminalTableEmpty, NEW newStatus \in {"Closed", "Failed"},
         NEW what \in Outcomes, Terminate(newStatus, what)
  PROVE  /\ status' \in {"Closed", "Failed"}
         /\ pending' \in [Ids -> Calls \cup {NoCall}]
         /\ \A i \in Ids : pending'[i] = NoCall
         /\ channel' \in [Calls -> Outcomes]
         /\ \A c \in Calls :
              channel'[c] = IF \E i \in Ids : pending[i] = c THEN what ELSE channel[c]
<1>1. CASE status = "Open"
  BY <1>1 DEF TypeOK, Terminate
<1>2. CASE status # "Open"
  <2>1. \A i \in Ids : pending[i] = NoCall
    BY <1>2 DEF TerminalTableEmpty, PendingIds
  <2>2. UNCHANGED <<status, pending, channel>>
    BY <1>2 DEF Terminate
  <2>4. \A c \in Calls : c # NoCall
    BY ClientAssumption
  <2> QED BY <1>2, <2>1, <2>2, <2>4 DEF TypeOK
<1> QED BY <1>1, <1>2

\* One disjunct of Next at a time: what a resolve, a termination or a mere move of
\* a future does to the table, the channels and the phases.
LEMMA RegisterStep ==
  ASSUME IInv, NEW c \in Calls, Register(c)
  PROVE  IInv'
<1> USE ClientAssumption DEF IInv
<1>1. PICK i \in Ids : /\ i \notin PendingIds
                       /\ RegisterAs(c, i)
                       /\ nextId' \in 0..(MaxSafe + 1)
  <2>1. CASE \E i \in ExplicitIds :
               i \notin PendingIds /\ RegisterAs(c, i) /\ UNCHANGED nextId
    BY <2>1 DEF Ids, TypeOK
  <2>2. CASE \E n \in Numbers :
               IsFreeNumber(n) /\ RegisterAs(c, n) /\ nextId' = After(n)
    <3>1. PICK n \in Numbers : /\ n \notin PendingIds
                               /\ RegisterAs(c, n)
                               /\ nextId' = n + 1
      BY <2>2 DEF IsFreeNumber, After
    <3> QED BY <3>1 DEF Ids, Numbers
  <2> QED BY <2>1, <2>2 DEF Register
<1>2. phase[c] = "idle" /\ status = "Open"
  BY DEF Register, Admits
<1>3. TypeOK'
  BY <1>1 DEF TypeOK, RegisterAs, Phases, Waiting
<1>4. Identified' /\ DocumentsAreSent'
  BY <1>1, <1>2 DEF Identified, DocumentsAreSent, RegisterAs, TypeOK, Live, Waiting
<1>5. PendingIsUnsettled'
  BY <1>1, <1>2 DEF PendingIsUnsettled, PendingIds, RegisterAs, TypeOK, Identified, Waiting
<1>6. NoCallForgotten'
  BY <1>1, <1>2 DEF NoCallForgotten, PendingIds, RegisterAs, TypeOK, Identified, Live, Waiting
<1>7. TerminalTableEmpty'
  BY <1>1, <1>2 DEF TerminalTableEmpty, RegisterAs
<1> QED BY <1>3, <1>4, <1>5, <1>6, <1>7

LEMMA RefuseStep ==
  ASSUME IInv, NEW c \in Calls, Refuse(c)
  PROVE  IInv'
<1> USE ClientAssumption, OutcomeKinds DEF IInv, Refuse
<1>1. nextId' \in 0..(MaxSafe + 1)
  BY DEF IsFreeNumber, After, TypeOK
<1>2. TypeOK'
  BY <1>1 DEF TypeOK, Phases
<1>3. Identified' /\ DocumentsAreSent'
  BY DEF Identified, DocumentsAreSent, TypeOK, Live, Waiting
<1>4. PendingIsUnsettled' /\ NoCallForgotten' /\ TerminalTableEmpty'
  BY DEF PendingIsUnsettled, NoCallForgotten, TerminalTableEmpty, PendingIds, TypeOK, Waiting
<1> QED BY <1>2, <1>3, <1>4

\* The future hands its request to the transport.
LEMMA BeginTransmitStep ==
  ASSUME IInv, NEW c \in Calls, BeginTransmit(c)
  PROVE  IInv'
<1> USE DEF IInv, BeginTransmit
<1>1. TypeOK'
  BY DEF TypeOK, Phases, Waiting
<1>2. Identified' /\ DocumentsAreSent'
  BY DEF Identified, DocumentsAreSent, TypeOK, Live, Waiting
<1>3. PendingIsUnsettled' /\ NoCallForgotten' /\ TerminalTableEmpty'
  BY DEF PendingIsUnsettled, NoCallForgotten, TerminalTableEmpty, PendingIds, TypeOK, Waiting
<1> QED BY <1>1, <1>2, <1>3

LEMMA SendDoneStep ==
  ASSUME IInv, NEW c \in Calls, SendDone(c)
  PROVE  IInv'
<1> USE DEF IInv, SendDone
<1>1. TypeOK'
  BY DEF TypeOK, Phases, Waiting
<1>2. Identified' /\ DocumentsAreSent'
  BY DEF Identified, DocumentsAreSent, TypeOK, Live, Waiting
<1>3. PendingIsUnsettled' /\ NoCallForgotten' /\ TerminalTableEmpty'
  BY DEF PendingIsUnsettled, NoCallForgotten, TerminalTableEmpty, PendingIds, TypeOK, Waiting
<1> QED BY <1>1, <1>2, <1>3

\* A future that resolves its own identifier and moves from one phase to another,
\* the shape of a failed transmission, the end of an exchange and the guard's drop.
LEMMA ResolveOwnStep ==
  ASSUME IInv, NEW c \in Calls, NEW what \in Outcomes \ {Empty}, NEW next \in Phases,
         phase[c] \in Live, next # "idle", next # "registered",
         next \in Waiting => phase[c] \in Waiting,
         Resolve(idOf[c], what),
         phase' = [phase EXCEPT ![c] = next],
         UNCHANGED <<status, nextId, idOf, outcome, sent, doc, settled, pump, closing, handles>>
  PROVE  IInv'
<1> USE ClientAssumption DEF IInv
<1>1. idOf[c] \in Ids
  BY DEF Identified
<1>2. /\ pending' \in [Ids -> Calls \cup {NoCall}]
      /\ channel' \in [Calls -> Outcomes]
      /\ \A j \in Ids : pending'[j] = IF j = idOf[c] THEN NoCall ELSE pending[j]
      /\ \A d \in Calls : channel'[d] = IF pending[idOf[c]] = d THEN what ELSE channel[d]
  BY <1>1, ResolveFacts
<1>3. TypeOK'
  BY <1>2 DEF TypeOK
<1>4. Identified' /\ DocumentsAreSent'
  BY <1>1, <1>2 DEF Identified, DocumentsAreSent, TypeOK, Live, Waiting, PendingIsUnsettled, PendingIds
<1>5. PendingIsUnsettled'
  BY <1>1, <1>2 DEF PendingIsUnsettled, PendingIds, NoCallForgotten, TypeOK, Live, Waiting
<1>6. NoCallForgotten'
  BY <1>1, <1>2 DEF PendingIsUnsettled, NoCallForgotten, PendingIds, TypeOK, Identified, Live, Waiting
<1>7. TerminalTableEmpty'
  BY <1>1, <1>2 DEF TerminalTableEmpty, PendingIds
<1> QED BY <1>3, <1>4, <1>5, <1>6, <1>7

LEMMA TransmitFailsStep ==
  ASSUME IInv, NEW c \in Calls, TransmitFails(c)
  PROVE  IInv'
<1> PICK what \in {Transport, Protocol} : Resolve(idOf[c], what)
  BY DEF TransmitFails
<1> what \in Outcomes \ {Empty}
  BY OutcomeKinds
<1> "awaiting" \in Phases /\ phase[c] \in Live /\ phase[c] \in Waiting
  BY DEF Phases, Waiting, Live, TransmitFails
<1> QED BY ResolveOwnStep DEF TransmitFails

LEMMA EndExchangeStep ==
  ASSUME IInv, NEW c \in Calls, EndExchange(c)
  PROVE  IInv'
<1> Protocol \in Outcomes \ {Empty}
  BY OutcomeKinds
<1> "awaiting" \in Phases /\ phase[c] \in Live /\ phase[c] \in Waiting
  BY DEF Phases, Waiting, Live, EndExchange
<1> QED BY ResolveOwnStep DEF EndExchange

LEMMA ReleaseGuardStep ==
  ASSUME IInv, NEW c \in Calls, ReleaseGuard(c)
  PROVE  IInv'
<1> Closed \in Outcomes \ {Empty}
  BY OutcomeKinds
<1> "gone" \in Phases /\ "gone" \notin Waiting /\ phase[c] \in Live
  BY DEF Phases, Waiting, Live, ReleaseGuard
<1> QED BY ResolveOwnStep DEF ReleaseGuard

LEMMA LeaveStep ==
  ASSUME IInv, NEW c \in Calls, NEW what \in Outcomes,
         phase[c] \in Waiting, Leave(c, what)
  PROVE  IInv'
<1> USE DEF IInv, Leave
<1>1. TypeOK'
  BY DEF TypeOK, Phases
<1>2. Identified' /\ DocumentsAreSent'
  BY DEF Identified, DocumentsAreSent, TypeOK, Live, Waiting
<1>3. PendingIsUnsettled' /\ NoCallForgotten' /\ TerminalTableEmpty'
  BY DEF PendingIsUnsettled, NoCallForgotten, TerminalTableEmpty, PendingIds, TypeOK, Waiting
<1> QED BY <1>1, <1>2, <1>3

\* A document that arrives is a sequence of answers to requests that were sent.
LEMMA DocumentFacts ==
  ASSUME NEW entries \in SUBSET sent, sent \subseteq Calls, NEW document \in DocumentsOver(entries)
  PROVE  /\ document \in Seq(Calls \cup {Malformed})
         /\ \A k \in 1..Len(document) : document[k] \in sent \cup {Malformed}
<1>1. PICK n \in 0..MaxBatch : document \in [1..n -> entries \cup {Malformed}]
  BY DEF DocumentsOver
<1>2. document \in Seq(entries \cup {Malformed}) /\ Len(document) = n
  BY <1>1, ClientAssumption
<1> QED BY <1>1, <1>2

LEMMA ReplyArrivesStep ==
  ASSUME IInv, NEW c \in Calls, NEW document \in Replies(c), ReplyArrives(c, document)
  PROVE  IInv'
<1> USE DEF IInv, ReplyArrives
<1>1. /\ document \in Seq(Calls \cup {Malformed})
      /\ \A k \in 1..Len(document) : document[k] \in sent \cup {Malformed}
  BY DocumentFacts DEF Replies, TypeOK
<1>2. TypeOK'
  BY <1>1 DEF TypeOK, Phases, Waiting, Processors
<1>3. Identified' /\ DocumentsAreSent'
  BY <1>1 DEF Identified, DocumentsAreSent, TypeOK, Live, Waiting, Processors
<1>4. PendingIsUnsettled' /\ NoCallForgotten' /\ TerminalTableEmpty'
  BY DEF PendingIsUnsettled, NoCallForgotten, TerminalTableEmpty, PendingIds, TypeOK, Waiting
<1> QED BY <1>2, <1>3, <1>4

LEMMA PumpReceivesStep ==
  ASSUME IInv, NEW document \in Documents, PumpReceives(document)
  PROVE  IInv'
<1> USE DEF IInv, PumpReceives
<1>1. /\ document \in Seq(Calls \cup {Malformed})
      /\ \A k \in 1..Len(document) : document[k] \in sent \cup {Malformed}
  BY DocumentFacts DEF Documents, TypeOK
<1>2. TypeOK'
  BY <1>1 DEF TypeOK, Processors
<1>3. Identified' /\ DocumentsAreSent'
  BY <1>1 DEF Identified, DocumentsAreSent, TypeOK, Processors
<1>4. PendingIsUnsettled' /\ NoCallForgotten' /\ TerminalTableEmpty'
  BY DEF PendingIsUnsettled, NoCallForgotten, TerminalTableEmpty, PendingIds, TypeOK
<1> QED BY <1>2, <1>3, <1>4

\* One entry: either it settles the call under its identifier or nothing happens
\* to the table and the channels.
LEMMA ProcessEntryStep ==
  ASSUME IInv, NEW p \in Processors, ProcessEntry(p)
  PROVE  IInv'
<1> DEFINE entry == Head(doc[p])
           id == idOf[entry]
<1> USE ClientAssumption DEF IInv
<1>1. entry \in sent \cup {Malformed}
  <2>1. doc[p] \in Seq(Calls \cup {Malformed}) /\ doc[p] # <<>>
    BY DEF ProcessEntry, TypeOK
  <2>2. 1 \in 1..Len(doc[p]) /\ entry = doc[p][1]
    BY <2>1
  <2> QED BY <2>2 DEF DocumentsAreSent
<1>2. doc' \in [Processors -> Seq(Calls \cup {Malformed})]
  <2>1. Tail(doc[p]) \in Seq(Calls \cup {Malformed})
    BY DEF ProcessEntry, TypeOK
  <2> QED BY <2>1 DEF ProcessEntry, TypeOK
<1>3. DocumentsAreSent'
  <2>1. doc[p] \in Seq(Calls \cup {Malformed}) /\ doc[p] # <<>>
    BY DEF ProcessEntry, TypeOK
  <2>2. \A k \in 1..Len(Tail(doc[p])) : Tail(doc[p])[k] \in sent \cup {Malformed}
    BY <2>1 DEF DocumentsAreSent
  <2> QED BY <2>2 DEF ProcessEntry, DocumentsAreSent, TypeOK
<1>4. UNCHANGED <<status, nextId, phase, idOf, outcome, sent, pump, closing, handles>>
  BY DEF ProcessEntry
<1>5. settled' \in [Processors -> SUBSET Ids]
  <2>1. entry # Malformed => id \in Ids
    BY <1>1 DEF Identified, TypeOK
  <2>2. PICK ids : ids \in {{}, settled[p], settled[p] \cup {id}}
                   /\ (ids = settled[p] \cup {id} => entry # Malformed \/ ids = settled[p])
                   /\ settled' = [settled EXCEPT ![p] = ids]
    BY DEF ProcessEntry
  <2>3. ids \subseteq Ids
    BY <2>1, <2>2 DEF TypeOK
  <2> QED BY <2>2, <2>3 DEF TypeOK
<1>6. CASE UNCHANGED <<pending, channel>>
  <2>1. TypeOK'
    BY <1>2, <1>4, <1>5, <1>6 DEF TypeOK
  <2>2. Identified' /\ PendingIsUnsettled' /\ NoCallForgotten' /\ TerminalTableEmpty'
    BY <1>4, <1>6 DEF Identified, PendingIsUnsettled, NoCallForgotten, TerminalTableEmpty, PendingIds
  <2> QED BY <2>1, <2>2, <1>3
<1>7. CASE entry # Malformed /\ id \in PendingIds /\ Resolve(id, Answer(entry))
  <2>1. id \in Ids /\ Answer(entry) \in Outcomes /\ Answer(entry) # Empty
    BY <1>1, <1>7, OutcomeKinds DEF PendingIds, TypeOK
  <2>2. /\ pending' \in [Ids -> Calls \cup {NoCall}]
        /\ channel' \in [Calls -> Outcomes]
        /\ \A j \in Ids : pending'[j] = IF j = id THEN NoCall ELSE pending[j]
        /\ \A d \in Calls : channel'[d] = IF pending[id] = d THEN Answer(entry) ELSE channel[d]
    BY <2>1, <1>7, ResolveFacts
  <2>3. TypeOK'
    BY <1>2, <1>4, <1>5, <2>2 DEF TypeOK
  <2>4. Identified'
    BY <1>4, <1>7, <2>1, <2>2 DEF Identified, PendingIsUnsettled, PendingIds, TypeOK, Live, Waiting
  <2>5. PendingIsUnsettled'
    BY <1>4, <2>1, <2>2 DEF PendingIsUnsettled, PendingIds, TypeOK
  <2>6. NoCallForgotten'
    BY <1>4, <2>1, <2>2 DEF PendingIsUnsettled, NoCallForgotten, PendingIds, Identified, TypeOK, Live, Waiting
  <2>7. TerminalTableEmpty'
    BY <1>4, <2>2 DEF TerminalTableEmpty, PendingIds
  <2> QED BY <1>3, <2>3, <2>4, <2>5, <2>6, <2>7
<1> QED BY <1>6, <1>7 DEF ProcessEntry

LEMMA TerminateStep ==
  ASSUME IInv, NEW newStatus \in {"Closed", "Failed"}, NEW what \in Outcomes \ {Empty},
         Terminate(newStatus, what), pump' \in {"none", "running", "stopped"}, closing' \in BOOLEAN,
         UNCHANGED <<nextId, phase, idOf, outcome, sent, doc, settled, handles>>
  PROVE  IInv'
<1> USE ClientAssumption DEF IInv
<1>1. /\ status' \in {"Closed", "Failed"}
      /\ pending' \in [Ids -> Calls \cup {NoCall}]
      /\ \A i \in Ids : pending'[i] = NoCall
      /\ channel' \in [Calls -> Outcomes]
      /\ \A c \in Calls :
           channel'[c] = IF \E i \in Ids : pending[i] = c THEN what ELSE channel[c]
  <2>1. status' \in {"Closed", "Failed"}
    BY TerminateFacts
  <2>2. \A i \in Ids : pending'[i] = NoCall
    BY TerminateFacts
  <2>3. channel' \in [Calls -> Outcomes]
    BY TerminateFacts
  <2>4. pending' \in [Ids -> Calls \cup {NoCall}]
    BY TerminateFacts
  <2>5. \A c \in Calls :
           channel'[c] = IF \E i \in Ids : pending[i] = c THEN what ELSE channel[c]
    BY TerminateFacts
  <2> QED BY <2>1, <2>2, <2>3, <2>4, <2>5
<1>2. TypeOK'
  BY <1>1 DEF TypeOK
<1>3. Identified' /\ DocumentsAreSent'
  BY <1>1 DEF Identified, DocumentsAreSent, PendingIsUnsettled, PendingIds, TypeOK, Live, Waiting
<1>4. PendingIsUnsettled' /\ TerminalTableEmpty'
  BY <1>1 DEF PendingIsUnsettled, TerminalTableEmpty, PendingIds
<1>5. NoCallForgotten'
  BY <1>1 DEF NoCallForgotten, PendingIsUnsettled, PendingIds, Identified, TypeOK, Live
<1> QED BY <1>2, <1>3, <1>4, <1>5

LEMMA PumpEndsStep ==
  ASSUME IInv, PumpEnds
  PROVE  IInv'
<1>1. CASE Terminate("Closed", Closed)
  BY <1>1, TerminateStep, OutcomeKinds DEF PumpEnds, IInv, TypeOK
<1>2. CASE Terminate("Failed", Transport)
  BY <1>2, TerminateStep, OutcomeKinds DEF PumpEnds, IInv, TypeOK
<1>3. CASE UNCHANGED <<status, pending, channel>>
  <2> USE <1>3 DEF IInv, PumpEnds
  <2>1. TypeOK'
    BY DEF TypeOK
  <2>2. Identified' /\ DocumentsAreSent'
    BY DEF Identified, DocumentsAreSent
  <2>3. PendingIsUnsettled' /\ NoCallForgotten' /\ TerminalTableEmpty'
    BY DEF PendingIsUnsettled, NoCallForgotten, TerminalTableEmpty, PendingIds
  <2> QED BY <2>1, <2>2, <2>3
<1> QED BY <1>1, <1>2, <1>3 DEF PumpEnds

LEMMA CloseStep ==
  ASSUME IInv, Close
  PROVE  IInv'
BY TerminateStep, OutcomeKinds DEF Close, IInv, TypeOK

LEMMA DropClientStep ==
  ASSUME IInv, DropClient
  PROVE  IInv'
<1> USE DEF IInv, DropClient
<1>1. TypeOK'
  BY DEF TypeOK
<1>2. Identified' /\ DocumentsAreSent'
  BY DEF Identified, DocumentsAreSent
<1>3. PendingIsUnsettled' /\ NoCallForgotten' /\ TerminalTableEmpty'
  BY DEF PendingIsUnsettled, NoCallForgotten, TerminalTableEmpty, PendingIds
<1> QED BY <1>1, <1>2, <1>3

LEMMA StutterStep ==
  ASSUME IInv, UNCHANGED vars
  PROVE  IInv'
<1> USE DEF IInv, vars
<1>1. TypeOK'
  BY DEF TypeOK
<1>2. Identified' /\ DocumentsAreSent'
  BY DEF Identified, DocumentsAreSent
<1>3. PendingIsUnsettled' /\ NoCallForgotten' /\ TerminalTableEmpty'
  BY DEF PendingIsUnsettled, NoCallForgotten, TerminalTableEmpty, PendingIds
<1> QED BY <1>1, <1>2, <1>3

LEMMA CallStepInvariant ==
  ASSUME IInv, NEW c \in Calls, CallStep(c)
  PROVE  IInv'
<1>1. CASE Register(c) \/ Refuse(c)
  BY <1>1, RegisterStep, RefuseStep
<1>2. CASE BeginTransmit(c) \/ SendDone(c) \/ TransmitFails(c)
  BY <1>2, BeginTransmitStep, SendDoneStep, TransmitFailsStep
<1>3. CASE \E document \in Replies(c) : ReplyArrives(c, document)
  BY <1>3, ReplyArrivesStep
<1>4. CASE EndExchange(c) \/ ReleaseGuard(c)
  BY <1>4, EndExchangeStep, ReleaseGuardStep
<1>5. CASE Complete(c)
  <2>1. channel[c] \in Outcomes /\ phase[c] \in Waiting
    BY <1>5 DEF Complete, IInv, TypeOK, Waiting
  <2> QED BY <1>5, <2>1, LeaveStep DEF Complete
<1>6. CASE TimeoutFires(c)
  BY <1>6, LeaveStep, OutcomeKinds DEF TimeoutFires, Waiting
<1>7. CASE DropFuture(c)
  BY <1>7, LeaveStep, OutcomeKinds DEF DropFuture, Waiting
<1> QED BY <1>1, <1>2, <1>3, <1>4, <1>5, <1>6, <1>7 DEF CallStep

LEMMA NextIInv == IInv /\ [Next]_vars => IInv'
<1> SUFFICES ASSUME IInv, [Next]_vars PROVE IInv'
  OBVIOUS
<1>1. CASE \E c \in Calls : CallStep(c)
  BY <1>1, CallStepInvariant
<1>2. CASE \E p \in Processors : ProcessEntry(p)
  BY <1>2, ProcessEntryStep
<1>3. CASE \E document \in Documents \ {<<>>} : PumpReceives(document)
  BY <1>3, PumpReceivesStep
<1>4. CASE PumpEnds \/ Close \/ DropClient
  BY <1>4, PumpEndsStep, CloseStep, DropClientStep
<1>5. CASE UNCHANGED vars
  BY <1>5, StutterStep
<1> QED BY <1>1, <1>2, <1>3, <1>4, <1>5 DEF Next

-----------------------------------------------------------------------------
\* Every variable keeps its type, whatever identifiers callers choose.
THEOREM TypeCorrect == Spec => []TypeOK
<1>1. IInv => TypeOK
  BY DEF IInv
<1> QED BY <1>1, InitIInv, NextIInv, PTL DEF Spec

\* The pending table of client.rs: an entry belongs to the call that registered
\* it and that call has been told nothing (client.rs:5-7).
THEOREM PendingTableSound == Spec => []PendingIsUnsettled
<1>1. IInv => PendingIsUnsettled
  BY DEF IInv
<1> QED BY <1>1, InitIInv, NextIInv, PTL DEF Spec

\* A waiting future that has been told nothing can still be reached through the
\* table, even when guards of earlier calls remove its entry.
THEOREM CallsReachable == Spec => []NoCallForgotten
<1>1. IInv => NoCallForgotten
  BY DEF IInv
<1> QED BY <1>1, InitIInv, NextIInv, PTL DEF Spec

\* A closed or failed client has no pending call (client.rs:437-450).
THEOREM TerminalClientEmpty == Spec => []TerminalTableEmpty
<1>1. IInv => TerminalTableEmpty
  BY DEF IInv
<1> QED BY <1>1, InitIInv, NextIInv, PTL DEF Spec

\* The table holds what can still be settled, whatever identifiers callers choose.
THEOREM PendingServes == Spec => []PendingServesCalls
<1>1. NoCallForgotten /\ TerminalTableEmpty => PendingServesCalls
  BY DEF PendingServesCalls
<1> QED BY <1>1, CallsReachable, TerminalClientEmpty, PTL

\* What a step may tell: only calls that have been told nothing.
LEMMA ToldOnce ==
  ASSUME IInv, [Next]_vars, NEW c \in Calls
  PROVE  /\ channel[c] # Empty => channel'[c] = channel[c]
         /\ outcome[c] # Empty => outcome'[c] = outcome[c]
<1> USE DEF IInv
<1>1. \A i \in Ids : pending[i] = c => channel[c] = Empty
  BY ClientAssumption DEF PendingIsUnsettled, PendingIds
<1>2. ASSUME NEW i \in Ids, NEW what, Resolve(i, what)
      PROVE  channel[c] # Empty => channel'[c] = channel[c]
  BY <1>1, <1>2 DEF Resolve
<1>3. ASSUME NEW s, NEW what, Terminate(s, what)
      PROVE  channel[c] # Empty => channel'[c] = channel[c]
  BY <1>1, <1>3 DEF Terminate
<1>4. ASSUME NEW d \in Calls, CallStep(d)
      PROVE  /\ channel[c] # Empty => channel'[c] = channel[c]
             /\ outcome[c] # Empty => outcome'[c] = outcome[c]
  <2>1. phase[d] \in Live => idOf[d] \in Ids
    BY DEF Identified
  <2>2. CASE Register(d) \/ BeginTransmit(d) \/ SendDone(d)
             \/ \E document \in Replies(d) : ReplyArrives(d, document)
    BY <2>2 DEF Register, RegisterAs, BeginTransmit, SendDone, ReplyArrives
  <2>3. CASE TransmitFails(d) \/ EndExchange(d) \/ ReleaseGuard(d)
    <3>1. PICK what : Resolve(idOf[d], what)
      BY <2>3 DEF TransmitFails, EndExchange, ReleaseGuard
    <3>2. idOf[d] \in Ids /\ outcome' = outcome
      BY <2>1, <2>3 DEF TransmitFails, EndExchange, ReleaseGuard, Live, Waiting
    <3> QED BY <1>2, <3>1, <3>2
  <2>4. CASE Refuse(d) \/ Complete(d) \/ TimeoutFires(d) \/ DropFuture(d)
    <3>1. outcome[d] = Empty /\ channel' = channel
      BY <2>4 DEF Refuse, Complete, TimeoutFires, DropFuture, Leave, Identified, Waiting
    <3>2. \E what : outcome' = [outcome EXCEPT ![d] = what]
      BY <2>4 DEF Refuse, Complete, TimeoutFires, DropFuture, Leave
    <3> QED BY <3>1, <3>2 DEF TypeOK
  <2> QED BY <1>4, <2>2, <2>3, <2>4 DEF CallStep
<1>5. ASSUME NEW p \in Processors, ProcessEntry(p)
      PROVE  /\ channel[c] # Empty => channel'[c] = channel[c]
             /\ outcome[c] # Empty => outcome'[c] = outcome[c]
  <2>1. outcome' = outcome
    BY <1>5 DEF ProcessEntry
  <2>2. UNCHANGED channel \/ \E i \in PendingIds : \E what : Resolve(i, what)
    BY <1>5 DEF ProcessEntry
  <2> QED BY <1>2, <2>1, <2>2 DEF PendingIds
<1>6. CASE \/ \E document \in Documents \ {<<>>} : PumpReceives(document)
           \/ DropClient \/ UNCHANGED vars
  BY <1>6 DEF PumpReceives, DropClient, vars
<1>7. CASE PumpEnds \/ Close
  BY <1>3, <1>7 DEF PumpEnds, Close
<1> QED BY <1>4, <1>5, <1>6, <1>7 DEF Next

\* Whatever settles a call settles it exactly once (client.rs:5-7), also when
\* callers reuse identifiers.
THEOREM CallsSettleOnce == Spec => SettlesOnce
<1>1. IInv /\ [Next]_vars
        => [\A c \in Calls : /\ channel[c] # Empty => channel'[c] = channel[c]
                             /\ outcome[c] # Empty => outcome'[c] = outcome[c]]_vars
  BY ToldOnce
<1> QED BY <1>1, InitIInv, NextIInv, PTL DEF Spec, SettlesOnce

-----------------------------------------------------------------------------
\* When callers do not reuse identifiers, an identifier is one call for ever.
UniqueIds ==
  /\ \A c, d \in Calls : idOf[c] = idOf[d] /\ idOf[c] # NoId => c = d
  /\ \A c \in Calls : idOf[c] \in Numbers => idOf[c] < nextId

OwnAnswers ==
  \A c \in Calls :
    /\ channel[c].kind = "answer" => channel[c] = Answer(c)
    /\ channel[c] # Refused
    /\ outcome[c].kind = "answer" => outcome[c] = Answer(c)

ClosedIsTrue ==
  \A c \in Calls :
    /\ channel[c] = Closed /\ phase[c] \in Waiting => status # "Open"
    /\ outcome[c] = Closed => status # "Open"

FreshInv == IInv /\ UniqueIds /\ OwnAnswers /\ ClosedIsTrue

LEMMA KindsDiffer ==
  /\ \A c \in Calls : Answer(c) # Closed /\ Answer(c).kind = "answer"
  /\ \A o \in {Closed, Transport, Protocol, Timeout, Dropped, Refused, Empty} : o.kind # "answer"
  /\ Closed \notin {Transport, Protocol, Timeout, Dropped, Refused, Empty}
  /\ Refused \notin {Transport, Protocol, Timeout, Dropped, Closed, Empty}
  /\ \A c \in Calls : Answer(c) # Refused
BY DEF Answer, Closed, Transport, Protocol, Timeout, Dropped, Refused, Empty

LEMMA InitFresh == Init => FreshInv
<1> SUFFICES ASSUME Init PROVE FreshInv
  OBVIOUS
<1>1. UniqueIds
  BY ClientAssumption DEF Init, UniqueIds, Ids
<1>2. OwnAnswers /\ ClosedIsTrue
  BY KindsDiffer DEF Init, OwnAnswers, ClosedIsTrue
<1> QED BY <1>1, <1>2, InitIInv DEF FreshInv

\* A new call's identifier is no earlier call's.
LEMMA RegisterIsFresh ==
  ASSUME FreshInv, ~ReuseIds, NEW c \in Calls, Register(c)
  PROVE  UniqueIds'
<1> USE ClientAssumption DEF FreshInv, IInv, UniqueIds
<1>1. nextId \in Nat /\ idOf \in [Calls -> Ids \cup {NoId}]
  BY DEF TypeOK
<1>2. CASE \E i \in ExplicitIds :
             MayChoose(i) /\ RegisterAs(c, i) /\ UNCHANGED nextId
  <2>1. PICK i \in ExplicitIds : /\ i \notin Numbers
                                 /\ \A d \in Calls : idOf[d] # i
                                 /\ idOf' = [idOf EXCEPT ![c] = i]
                                 /\ nextId' = nextId
    BY <1>2 DEF MayChoose, RegisterAs
  <2> QED BY <1>1, <2>1
<1>3. CASE \E n \in Numbers :
             IsFreeNumber(n) /\ RegisterAs(c, n) /\ nextId' = After(n)
  <2>0. PICK n \in Numbers : IsFreeNumber(n) /\ RegisterAs(c, n) /\ nextId' = After(n)
    BY <1>3
  <2>1. n >= nextId /\ idOf' = [idOf EXCEPT ![c] = n] /\ nextId' = n + 1
    BY <1>1, <2>0 DEF IsFreeNumber, RegisterAs, After
  <2>2. \A d \in Calls : idOf[d] # n
    BY <1>1, <2>1 DEF Numbers
  <2>3. \A d \in Calls : idOf'[d] = IF d = c THEN n ELSE idOf[d]
    BY <1>1, <2>1
  <2>4. n \in Nat /\ n # NoId
    BY <2>1 DEF Numbers, Ids
  <2>5. \A d \in Calls : idOf'[d] \in Numbers => idOf'[d] < nextId'
    <3> SUFFICES ASSUME NEW d \in Calls, idOf'[d] \in Numbers PROVE idOf'[d] < nextId'
      OBVIOUS
    <3>1. CASE d = c
      BY <2>1, <2>3, <2>4, <3>1
    <3>2. CASE d # c
      <4>1. idOf[d] \in Nat /\ idOf[d] < nextId
        BY <2>3, <3>2 DEF Numbers
      <4> QED BY <1>1, <2>1, <2>3, <2>4, <3>2, <4>1
    <3> QED BY <3>1, <3>2
  <2> QED BY <2>2, <2>3, <2>5
<1> QED BY <1>2, <1>3 DEF Register

LEMMA NextUniqueIds ==
  ASSUME FreshInv, ~ReuseIds, [Next]_vars
  PROVE  UniqueIds'
<1>1. CASE \E c \in Calls : Register(c)
  BY <1>1, RegisterIsFresh
<1>2. CASE \E c \in Calls : Refuse(c)
  <2>1. idOf' = idOf /\ nextId' >= nextId /\ nextId' \in Nat /\ nextId \in Nat
    BY <1>2, ClientAssumption DEF FreshInv, IInv, TypeOK, Refuse, IsFreeNumber, After
  <2> QED BY <2>1 DEF FreshInv, UniqueIds, Numbers
<1>3. CASE UNCHANGED <<idOf, nextId>>
  BY <1>3 DEF FreshInv, UniqueIds
<1>4. ASSUME NEW c \in Calls, CallStep(c)
      PROVE  Register(c) \/ Refuse(c) \/ UNCHANGED <<idOf, nextId>>
  BY <1>4 DEF CallStep, BeginTransmit, SendDone, TransmitFails, ReplyArrives, EndExchange,
              Complete, TimeoutFires, DropFuture, ReleaseGuard, Leave
<1>5. ASSUME ~ \E c \in Calls : CallStep(c)
      PROVE  UNCHANGED <<idOf, nextId>>
  BY <1>5 DEF Next, ProcessEntry, PumpReceives, PumpEnds, Close, DropClient, vars
<1> QED BY <1>1, <1>2, <1>3, <1>4, <1>5

\* What one step tells a call: nothing new, the answer to its own request, a
\* failure, or "closed" by a client that is closed or by its own guard.
LEMMA TellsOwn ==
  ASSUME FreshInv, [Next]_vars, NEW c \in Calls
  PROVE  \/ channel'[c] = channel[c]
         \/ channel'[c] \in {Answer(c), Transport, Protocol}
         \/ channel'[c] = Closed /\ (status' # "Open" \/ phase'[c] \notin Waiting)
<1> USE ClientAssumption DEF FreshInv, IInv
<1>1. ASSUME NEW d \in Calls, CallStep(d)
      PROVE  \/ channel'[c] = channel[c]
             \/ channel'[c] \in {Transport, Protocol}
             \/ channel'[c] = Closed /\ phase'[c] \notin Waiting
  <2>1. CASE TransmitFails(d) \/ EndExchange(d)
    <3>1. PICK what \in {Transport, Protocol} : Resolve(idOf[d], what)
      BY <2>1 DEF TransmitFails, EndExchange
    <3> QED BY <3>1 DEF Resolve
  <2>2. CASE ReleaseGuard(d)
    <3>1. idOf[d] \in Ids /\ Resolve(idOf[d], Closed)
      BY <2>2 DEF ReleaseGuard, Identified, Live
    <3>2. CASE pending[idOf[d]] = c
      <4>1. idOf[c] = idOf[d]
        BY <3>1, <3>2 DEF PendingIsUnsettled, PendingIds
      <4>2. c = d
        BY <3>1, <4>1 DEF UniqueIds
      <4> QED BY <2>2, <3>1, <3>2, <4>2 DEF ReleaseGuard, Resolve, TypeOK, Waiting
    <3>3. CASE pending[idOf[d]] # c
      BY <3>1, <3>3 DEF Resolve
    <3> QED BY <3>2, <3>3
  <2>3. CASE ~(TransmitFails(d) \/ EndExchange(d) \/ ReleaseGuard(d))
    BY <1>1, <2>3 DEF CallStep, Register, RegisterAs, Refuse, BeginTransmit, SendDone,
                      ReplyArrives, Complete, TimeoutFires, DropFuture, Leave
  <2> QED BY <2>1, <2>2, <2>3
<1>2. ASSUME NEW p \in Processors, ProcessEntry(p)
      PROVE  channel'[c] = channel[c] \/ channel'[c] = Answer(c)
  <2> DEFINE entry == Head(doc[p])
  <2>1. CASE UNCHANGED channel
    BY <2>1
  <2>2. CASE entry # Malformed /\ idOf[entry] \in PendingIds
             /\ Resolve(idOf[entry], Answer(entry))
    <3>1. entry \in Calls
      <4>1. doc[p] \in Seq(Calls \cup {Malformed}) /\ doc[p] # <<>>
        BY <1>2 DEF ProcessEntry, TypeOK
      <4> QED BY <2>2, <4>1
    <3>2. CASE pending[idOf[entry]] = c
      <4>1. idOf[c] = idOf[entry] /\ idOf[c] # NoId
        BY <2>2, <3>2 DEF PendingIsUnsettled, PendingIds
      <4>2. c = entry
        BY <3>1, <4>1 DEF UniqueIds
      <4> HIDE DEF entry
      <4> QED BY <2>2, <3>2, <4>2 DEF Resolve
    <3>3. CASE pending[idOf[entry]] # c
      BY <2>2, <3>3 DEF Resolve
    <3> QED BY <3>2, <3>3
  <2> QED BY <1>2, <2>1, <2>2 DEF ProcessEntry
<1>3. ASSUME NEW s \in {"Closed", "Failed"}, NEW what \in {Closed, Transport}, Terminate(s, what)
      PROVE  \/ channel'[c] = channel[c]
             \/ channel'[c] = Transport
             \/ channel'[c] = Closed /\ status' # "Open"
  BY <1>3 DEF Terminate
<1>4. CASE PumpEnds \/ Close
  BY <1>3, <1>4 DEF PumpEnds, Close
<1>5. CASE \/ \E document \in Documents \ {<<>>} : PumpReceives(document)
           \/ DropClient \/ UNCHANGED vars
  BY <1>5 DEF PumpReceives, DropClient, vars
<1> QED BY <1>1, <1>2, <1>4, <1>5 DEF Next

\* What one step makes of a future: it stays, or it takes a result that is the
\* content of its channel or no answer at all.  A closed client stays closed, and
\* only a registration makes a future wait.
LEMMA FutureStep ==
  ASSUME FreshInv, [Next]_vars, NEW c \in Calls
  PROVE  /\ \/ outcome'[c] = outcome[c]
            \/ phase[c] = "idle" /\ phase'[c] # "idle" /\ outcome'[c] = Refused
            \/ /\ phase[c] \in Waiting /\ phase'[c] # "idle" /\ status' = status
               /\ \/ outcome'[c] \in {Timeout, Dropped}
                  \/ channel[c] # Empty /\ outcome'[c] = channel[c]
         /\ status # "Open" => status' # "Open"
         /\ phase'[c] \in Waiting =>
              phase[c] \in Waiting \/ (phase[c] = "idle" /\ status = "Open")
         /\ phase'[c] = "idle" => phase[c] = "idle" /\ outcome'[c] = outcome[c]
<1> USE DEF FreshInv, IInv
<1> phase \in [Calls -> Phases] /\ outcome \in [Calls -> Outcomes]
  BY DEF TypeOK
<1>1. ASSUME NEW d \in Calls, Register(d) \/ Refuse(d)
      PROVE  /\ status' = status
             /\ IF d # c THEN phase'[c] = phase[c] /\ outcome'[c] = outcome[c]
                ELSE /\ phase[c] = "idle"
                     /\ \/ phase'[c] = "registered" /\ outcome'[c] = outcome[c] /\ status = "Open"
                        \/ phase'[c] = "gone" /\ outcome'[c] = Refused
  BY <1>1 DEF Register, RegisterAs, Admits, Refuse
<1>2. ASSUME NEW d \in Calls,
             \/ BeginTransmit(d) \/ SendDone(d) \/ TransmitFails(d) \/ EndExchange(d)
             \/ \E document \in Replies(d) : ReplyArrives(d, document)
      PROVE  /\ status' = status /\ outcome' = outcome
             /\ phase'[c] = phase[c] \/ (phase[c] \in Waiting /\ phase'[c] \in Waiting)
  BY <1>2 DEF BeginTransmit, SendDone, TransmitFails, EndExchange, ReplyArrives, Waiting
<1>3. ASSUME NEW d \in Calls, Complete(d) \/ TimeoutFires(d) \/ DropFuture(d)
      PROVE  /\ status' = status
             /\ IF d # c THEN phase'[c] = phase[c] /\ outcome'[c] = outcome[c]
                ELSE /\ phase[c] \in Waiting /\ phase'[c] = "leaving"
                     /\ \/ outcome'[c] \in {Timeout, Dropped}
                        \/ channel[c] # Empty /\ outcome'[c] = channel[c]
  BY <1>3 DEF Complete, TimeoutFires, DropFuture, Leave, Waiting
<1>4. ASSUME NEW d \in Calls, ReleaseGuard(d)
      PROVE  /\ status' = status /\ outcome' = outcome
             /\ phase'[c] = phase[c] \/ (phase[c] = "leaving" /\ phase'[c] = "gone")
  BY <1>4 DEF ReleaseGuard
<1>5. ASSUME ~ \E d \in Calls : CallStep(d)
      PROVE  phase' = phase /\ outcome' = outcome /\ (status # "Open" => status' # "Open")
  BY <1>5 DEF Next, ProcessEntry, PumpReceives, PumpEnds, Close, DropClient, Terminate, vars
<1> QED BY <1>1, <1>2, <1>3, <1>4, <1>5 DEF CallStep, Waiting

LEMMA NextFresh == FreshInv /\ ~ReuseIds /\ [Next]_vars => FreshInv'
<1> SUFFICES ASSUME FreshInv, ~ReuseIds, [Next]_vars PROVE FreshInv'
  OBVIOUS
<1>1. IInv'
  BY NextIInv DEF FreshInv
<1>2. UniqueIds'
  BY NextUniqueIds
<1>3. OwnAnswers'
  <2> SUFFICES ASSUME NEW c \in Calls
               PROVE  /\ channel'[c].kind = "answer" => channel'[c] = Answer(c)
                      /\ channel'[c] # Refused
                      /\ outcome'[c].kind = "answer" => outcome'[c] = Answer(c)
    BY DEF OwnAnswers
  <2>1. /\ channel'[c].kind = "answer" => channel'[c] = Answer(c)
        /\ channel'[c] # Refused
    BY TellsOwn, KindsDiffer DEF FreshInv, OwnAnswers
  <2>2. outcome'[c].kind = "answer" => outcome'[c] = Answer(c)
    BY FutureStep, KindsDiffer DEF FreshInv, OwnAnswers
  <2> QED BY <2>1, <2>2
<1>4. ClosedIsTrue'
  <2> SUFFICES ASSUME NEW c \in Calls
               PROVE  /\ channel'[c] = Closed /\ phase'[c] \in Waiting => status' # "Open"
                      /\ outcome'[c] = Closed => status' # "Open"
    BY DEF ClosedIsTrue
  <2>1. channel'[c] = Closed /\ phase'[c] \in Waiting => status' # "Open"
    <3>1. CASE channel'[c] = channel[c]
      <4>1. phase[c] = "idle" => channel[c] # Closed
        BY KindsDiffer DEF FreshInv, IInv, Identified
      <4> QED BY <3>1, <4>1, FutureStep DEF FreshInv, ClosedIsTrue
    <3>2. CASE channel'[c] # channel[c]
      BY <3>2, TellsOwn, KindsDiffer
    <3> QED BY <3>1, <3>2
  <2>2. outcome'[c] = Closed => status' # "Open"
    BY FutureStep, KindsDiffer DEF FreshInv, ClosedIsTrue
  <2> QED BY <2>1, <2>2
<1> QED BY <1>1, <1>2, <1>3, <1>4 DEF FreshInv

\* Callers that do not reuse identifiers are only ever given the answer to their
\* own request, whatever the peer answers, duplicates or mangles.
THEOREM AnswersOwn ==
  ASSUME ~ReuseIds
  PROVE  Spec => []AnswersOwnCall
<1>1. FreshInv => AnswersOwnCall
  BY DEF FreshInv, OwnAnswers, AnswersOwnCall
<1>2. FreshInv /\ [Next]_vars => FreshInv'
  BY NextFresh
<1> QED BY <1>1, <1>2, InitFresh, PTL DEF Spec

\* They are told "closed" only by a client that is closed.
THEOREM ClosedIsClosed ==
  ASSUME ~ReuseIds
  PROVE  Spec => []ClosedOnlyWhenClosed
<1>1. FreshInv => ClosedOnlyWhenClosed
  BY DEF FreshInv, ClosedIsTrue, ClosedOnlyWhenClosed
<1>2. FreshInv /\ [Next]_vars => FreshInv'
  BY NextFresh
<1> QED BY <1>1, <1>2, InitFresh, PTL DEF Spec

-----------------------------------------------------------------------------
LEMMA ContractInit == Init => Contract!Init
BY DEF Init, Contract!Init, Contract!Idle, ledgerBar

\* A step of one future is a step of the contract about that call.
LEMMA ContractCallStep ==
  ASSUME FreshInv, FreshInv', NEW c \in Calls, CallStep(c)
  PROVE  [Contract!Next]_(Contract!vars)
<1> USE DEF FreshInv, IInv
<1>1. /\ phase \in [Calls -> Phases] /\ outcome \in [Calls -> Outcomes]
      /\ phase' \in [Calls -> Phases] /\ outcome' \in [Calls -> Outcomes]
  BY DEF TypeOK
<1>2. ASSUME phase' = phase \/ (phase[c] \in Waiting \cup {"leaving"}
                              /\ phase'[c] # "idle"
                              /\ \E p : phase' = [phase EXCEPT ![c] = p]),
             outcome' = outcome, status' = status
      PROVE  UNCHANGED Contract!vars
  <2>1. \A d \in Calls : phase'[d] = "idle" <=> phase[d] = "idle"
    BY <1>1, <1>2 DEF Waiting
  <2> QED BY <1>2, <2>1 DEF Contract!vars, ledgerBar
<1>3. CASE BeginTransmit(c) \/ SendDone(c) \/ TransmitFails(c) \/ EndExchange(c)
           \/ ReleaseGuard(c) \/ \E document \in Replies(c) : ReplyArrives(c, document)
  BY <1>1, <1>2, <1>3 DEF BeginTransmit, SendDone, TransmitFails, EndExchange, ReleaseGuard,
                    ReplyArrives, Waiting
<1>4. CASE Register(c)
  <2>1. /\ phase[c] = "idle" /\ outcome' = outcome /\ status = "Open" /\ status' = status
        /\ phase' = [phase EXCEPT ![c] = "registered"]
    BY <1>4 DEF Register, RegisterAs, Admits
  <2>2. outcome[c] = Empty
    BY <2>1 DEF Identified
  <2>3. ledgerBar' = [ledgerBar EXCEPT ![c] = Contract!Pending] /\ ledgerBar[c] = Contract!Idle
    BY <1>1, <2>1, <2>2 DEF ledgerBar, Contract!Pending, Contract!Idle
  <2> QED BY <2>1, <2>3 DEF Contract!Next, Contract!Begin
<1>5. CASE Refuse(c)
  <2>1. /\ phase[c] = "idle" /\ outcome' = [outcome EXCEPT ![c] = Refused] /\ status' = status
        /\ phase' = [phase EXCEPT ![c] = "gone"]
    BY <1>5 DEF Refuse
  <2>2. ledgerBar' = [ledgerBar EXCEPT ![c] = Contract!Refused] /\ ledgerBar[c] = Contract!Idle
    BY <1>1, <2>1, OutcomeKinds DEF ledgerBar, Contract!Refused, Contract!Idle, Refused
  <2> QED BY <2>1, <2>2 DEF Contract!Next, Contract!Refuse
<1>6. CASE Complete(c) \/ TimeoutFires(c) \/ DropFuture(c)
  <2>1. /\ phase[c] \in Waiting /\ status' = status
        /\ phase' = [phase EXCEPT ![c] = "leaving"]
    BY <1>6 DEF Complete, TimeoutFires, DropFuture, Leave, Waiting
  <2>2. PICK what \in Outcomes : /\ outcome' = [outcome EXCEPT ![c] = what]
                                 /\ what # Empty
                                 /\ what \in {Timeout, Dropped} \/ what = channel[c]
    BY <1>1, <1>6, OutcomeKinds DEF Complete, TimeoutFires, DropFuture, Leave, TypeOK
  <2>3. outcome[c] = Empty /\ phase[c] # "idle"
    BY <2>1 DEF Identified, Waiting
  <2>4. ledgerBar' = [ledgerBar EXCEPT ![c] = what] /\ ledgerBar[c] = Contract!Pending
    BY <1>1, <2>1, <2>2, <2>3 DEF ledgerBar, Contract!Pending
  <2>5. what \in {Answer(c), Transport, Protocol, Timeout, Dropped, Closed}
    <3>1. what # Refused
      BY <2>2, KindsDiffer DEF OwnAnswers
    <3>2. what.kind = "answer" => what = Answer(c)
      BY <2>2, KindsDiffer DEF OwnAnswers
    <3> QED BY <2>2, <3>1, <3>2, KindsDiffer DEF Outcomes
  <2>6. what = Closed => status # "Open"
    BY <2>1, <2>2, KindsDiffer DEF ClosedIsTrue
  <2>7. /\ Contract!Answer(c) = Answer(c) /\ Contract!Closed = Closed
        /\ Contract!Transport = Transport /\ Contract!Protocol = Protocol
        /\ Contract!Timeout = Timeout /\ Contract!Dropped = Dropped
    BY DEF Answer, Closed, Transport, Protocol, Timeout, Dropped,
       Contract!Answer, Contract!Closed, Contract!Transport, Contract!Protocol,
       Contract!Timeout, Contract!Dropped
  <2> QED BY <2>1, <2>4, <2>5, <2>6, <2>7 DEF Contract!Next, Contract!Finish
<1> QED BY <1>3, <1>4, <1>5, <1>6 DEF CallStep

LEMMA ContractStep ==
  ASSUME FreshInv, FreshInv', [Next]_vars
  PROVE  [Contract!Next]_(Contract!vars)
<1>1. CASE \E c \in Calls : CallStep(c)
  BY <1>1, ContractCallStep
<1>2. CASE ~ \E c \in Calls : CallStep(c)
  <2>1. phase' = phase /\ outcome' = outcome
    BY <1>2 DEF Next, ProcessEntry, PumpReceives, PumpEnds, Close, DropClient, vars
  <2>2. ledgerBar' = ledgerBar
    BY <2>1 DEF ledgerBar
  <2>3. status' = status \/ (status = "Open" /\ status' # "Open")
    BY <1>2 DEF Next, ProcessEntry, PumpReceives, PumpEnds, Close, DropClient, Terminate, vars
  <2>4. /\ {} \in SUBSET {c \in Calls : ledgerBar[c] = Contract!Pending}
        /\ ledgerBar = [c \in Calls |-> IF c \in {} THEN Contract!Closed ELSE ledgerBar[c]]
    BY DEF ledgerBar
  <2> QED BY <2>2, <2>3, <2>4 DEF Contract!Next, Contract!Shut, Contract!vars
<1> QED BY <1>1, <1>2

\* The client implements the contract with callers that do not reuse identifiers.
THEOREM ClientImplementsContract ==
  ASSUME ~ReuseIds
  PROVE  Spec => ImplementsContract
<1>1. FreshInv /\ [Next]_vars => FreshInv'
  BY NextFresh
<1> QED BY <1>1, InitFresh, ContractInit, ContractStep, PTL DEF Spec, ImplementsContract, Contract!Spec

-----------------------------------------------------------------------------
\* Only the call of an exchange processes its document, which the receive task
\* of a request/response client does not have.
ExchangesApart ==
  /\ ~Duplex => doc[Pump] = <<>>
  /\ \A c \in Calls : doc[c] # <<>> => phase[c] = "processing"

ExchangeInv == FreshInv /\ ExchangesApart /\ SettledByOwnExchange

LEMMA ExchangesStayApart ==
  ASSUME FreshInv, ExchangesApart, [Next]_vars
  PROVE  ExchangesApart'
<1> USE ClientAssumption DEF ExchangesApart, FreshInv, IInv
<1>1. /\ phase \in [Calls -> Phases]
      /\ doc \in [Processors -> Seq(Calls \cup {Malformed})]
      /\ Calls \subseteq Processors /\ Pump \in Processors
  BY DEF TypeOK, Processors
<1>2. ASSUME NEW c \in Calls, CallStep(c)
      PROVE  ExchangesApart'
  <2>1. CASE \E document \in Replies(c) : ReplyArrives(c, document)
    BY <1>1, <2>1 DEF ReplyArrives, Duplex
  <2>2. CASE ~ \E document \in Replies(c) : ReplyArrives(c, document)
    <3>1. doc' = doc /\ pump' = pump /\ (phase[c] = "processing" => doc[c] = <<>>)
      BY <1>2, <2>2 DEF CallStep, Register, RegisterAs, Refuse, BeginTransmit, SendDone,
                        TransmitFails, EndExchange, Complete, TimeoutFires, DropFuture,
                        ReleaseGuard, Leave
    <3>2. \A d \in Calls : d # c => phase'[d] = phase[d]
      BY <1>1, <1>2, <2>2 DEF CallStep, Register, RegisterAs, Refuse, BeginTransmit, SendDone,
                        TransmitFails, EndExchange, Complete, TimeoutFires, DropFuture,
                        ReleaseGuard, Leave
    <3> QED BY <3>1, <3>2 DEF Duplex
  <2> QED BY <2>1, <2>2
<1>3. ASSUME NEW p \in Processors, ProcessEntry(p)
      PROVE  ExchangesApart'
  <2>1. doc[p] # <<>> /\ phase' = phase /\ pump' = pump
    BY <1>3 DEF ProcessEntry
  <2>2. \A q \in Processors : q # p => doc'[q] = doc[q]
    BY <1>1, <1>3 DEF ProcessEntry
  <2> QED BY <1>1, <2>1, <2>2 DEF Duplex
<1>4. CASE \E document \in Documents \ {<<>>} : PumpReceives(document)
  BY <1>1, <1>4 DEF PumpReceives, Duplex
<1>5. CASE PumpEnds \/ Close \/ DropClient \/ UNCHANGED vars
  BY <1>5 DEF PumpEnds, Close, DropClient, Duplex, vars
<1> QED BY <1>2, <1>3, <1>4, <1>5 DEF Next

\* Whoever tells a call something while it transmits is not its own exchange: an
\* answer that the receive task found, or the end of the client.
LEMMA TellsTransmitting ==
  ASSUME FreshInv, ExchangesApart, [Next]_vars, NEW c \in Calls,
         phase[c] \in {"registered", "sending"}, phase'[c] \in {"registered", "sending"},
         channel'[c] # channel[c]
  PROVE  status' # "Open" \/ (Duplex /\ channel'[c] = Answer(c))
<1> USE ClientAssumption DEF FreshInv, IInv
<1>1. /\ phase \in [Calls -> Phases]
      /\ doc \in [Processors -> Seq(Calls \cup {Malformed})]
      /\ idOf[c] \in Ids
  BY DEF TypeOK, Identified, Live, Waiting
<1>2. ASSUME NEW d \in Calls, CallStep(d)
      PROVE  FALSE
  <2>1. CASE TransmitFails(d) \/ EndExchange(d) \/ ReleaseGuard(d)
    <3>1. PICK what : Resolve(idOf[d], what)
      BY <2>1 DEF TransmitFails, EndExchange, ReleaseGuard
    <3>2. idOf[d] \in Ids /\ phase'[d] \notin {"registered", "sending"}
      BY <1>1, <2>1 DEF TransmitFails, EndExchange, ReleaseGuard, Identified, Live, Waiting
    <3>3. pending[idOf[d]] = c
      BY <3>1 DEF Resolve
    <3>4. c = d
      BY <3>2, <3>3 DEF PendingIsUnsettled, PendingIds, UniqueIds
    <3> QED BY <3>2, <3>4
  <2>2. CASE ~(TransmitFails(d) \/ EndExchange(d) \/ ReleaseGuard(d))
    BY <1>2, <2>2 DEF CallStep, Register, RegisterAs, Refuse, BeginTransmit, SendDone,
                      ReplyArrives, Complete, TimeoutFires, DropFuture, Leave
  <2> QED BY <2>1, <2>2
<1>3. ASSUME NEW p \in Processors, ProcessEntry(p)
      PROVE  Duplex /\ channel'[c] = Answer(c)
  <2> DEFINE entry == Head(doc[p])
  <2>1. /\ entry # Malformed /\ idOf[entry] \in PendingIds
        /\ InScope(p, idOf[entry]) /\ Resolve(idOf[entry], Answer(entry))
    BY <1>3 DEF ProcessEntry
  <2>2. pending[idOf[entry]] = c
    BY <2>1 DEF Resolve
  <2>3. idOf[entry] = idOf[c]
    BY <2>1, <2>2 DEF PendingIsUnsettled, PendingIds
  <2>4. p = Pump
    <3> SUFFICES ASSUME p # Pump PROVE FALSE
      OBVIOUS
    <3>1. p \in Calls /\ idOf[c] = idOf[p]
      BY <2>1, <2>3 DEF InScope, Processors
    <3>2. p = c
      BY <1>1, <3>1 DEF UniqueIds
    <3>3. phase[p] = "processing"
      BY <1>3, <3>1 DEF ProcessEntry, ExchangesApart
    <3> QED BY <3>2, <3>3
  <2>5. Duplex
    BY <1>3, <2>4 DEF ProcessEntry, ExchangesApart
  <2>6. channel'[c] = Answer(c)
    BY <1>3, TellsOwn, <2>1, <2>2, KindsDiffer DEF ProcessEntry, Resolve, Answer, Transport, Protocol, Closed
  <2> QED BY <2>5, <2>6
<1>4. CASE PumpEnds \/ Close
  <2>1. PICK s \in {"Closed", "Failed"} : \E what : Terminate(s, what)
    BY <1>4 DEF PumpEnds, Close
  <2> QED BY <2>1 DEF Terminate
<1>5. CASE \/ \E document \in Documents \ {<<>>} : PumpReceives(document)
           \/ DropClient \/ UNCHANGED vars
  BY <1>5 DEF PumpReceives, DropClient, vars
<1> QED BY <1>2, <1>3, <1>4, <1>5 DEF Next

LEMMA LinkIsFixed == [Next]_vars => (Duplex' <=> Duplex)
<1>1. ASSUME NEW c \in Calls, CallStep(c)
      PROVE  pump' = pump
  BY <1>1 DEF CallStep, Register, RegisterAs, Refuse, BeginTransmit, SendDone, TransmitFails,
              ReplyArrives, EndExchange, Complete, TimeoutFires, DropFuture, ReleaseGuard, Leave
<1> QED BY <1>1 DEF Next, ProcessEntry, PumpReceives, PumpEnds, Close, DropClient, Duplex, vars

\* Only a call that is in the table can be told anything.
LEMMA UntoldUnlessPending ==
  ASSUME IInv, [Next]_vars, NEW c \in Calls, ~ \E i \in Ids : pending[i] = c
  PROVE  channel'[c] = channel[c]
<1> USE DEF IInv
<1>1. ASSUME NEW i \in Ids, NEW what, Resolve(i, what)
      PROVE  channel'[c] = channel[c]
  BY <1>1 DEF Resolve
<1>2. ASSUME NEW s, NEW what, Terminate(s, what)
      PROVE  channel'[c] = channel[c]
  BY <1>2 DEF Terminate
<1>3. ASSUME NEW d \in Calls, CallStep(d)
      PROVE  channel'[c] = channel[c]
  <2>1. CASE TransmitFails(d) \/ EndExchange(d) \/ ReleaseGuard(d)
    <3>1. idOf[d] \in Ids /\ \E what : Resolve(idOf[d], what)
      BY <2>1 DEF TransmitFails, EndExchange, ReleaseGuard, Identified, Live, Waiting
    <3> QED BY <1>1, <3>1
  <2>2. CASE ~(TransmitFails(d) \/ EndExchange(d) \/ ReleaseGuard(d))
    BY <1>3, <2>2 DEF CallStep, Register, RegisterAs, Refuse, BeginTransmit, SendDone,
                      ReplyArrives, Complete, TimeoutFires, DropFuture, Leave
  <2> QED BY <2>1, <2>2
<1>4. ASSUME NEW p \in Processors, ProcessEntry(p)
      PROVE  channel'[c] = channel[c]
  <2>1. UNCHANGED channel \/ \E i \in PendingIds : \E what : Resolve(i, what)
    BY <1>4 DEF ProcessEntry
  <2> QED BY <1>1, <2>1 DEF PendingIds
<1>5. CASE \/ \E document \in Documents \ {<<>>} : PumpReceives(document)
           \/ DropClient \/ UNCHANGED vars
  BY <1>5 DEF PumpReceives, DropClient, vars
<1>6. CASE PumpEnds \/ Close
  BY <1>2, <1>6 DEF PumpEnds, Close
<1> QED BY <1>3, <1>4, <1>5, <1>6 DEF Next

\* A future transmits only from its registration on.
LEMMA TransmittingOnlyFromStart ==
  ASSUME IInv, [Next]_vars, NEW c \in Calls, phase'[c] \in {"registered", "sending"}
  PROVE  phase[c] \in {"idle", "registered", "sending"}
<1>0. phase \in [Calls -> Phases]
  BY DEF IInv, TypeOK
<1>1. ASSUME NEW d \in Calls, CallStep(d)
      PROVE  phase[c] \in {"idle", "registered", "sending"}
  BY <1>0, <1>1 DEF CallStep, Register, RegisterAs, Refuse, BeginTransmit, SendDone, TransmitFails,
              ReplyArrives, EndExchange, Complete, TimeoutFires, DropFuture, ReleaseGuard, Leave
<1>2. ASSUME ~ \E d \in Calls : CallStep(d)
      PROVE  phase' = phase
  BY <1>2 DEF Next, ProcessEntry, PumpReceives, PumpEnds, Close, DropClient, vars
<1> QED BY <1>1, <1>2

LEMMA NextExchange == ExchangeInv /\ ~ReuseIds /\ [Next]_vars => ExchangeInv'
<1> SUFFICES ASSUME ExchangeInv, ~ReuseIds, [Next]_vars PROVE ExchangeInv'
  OBVIOUS
<1>1. FreshInv' /\ ExchangesApart'
  BY NextFresh, ExchangesStayApart DEF ExchangeInv
<1>2. SettledByOwnExchange'
  <2> SUFFICES ASSUME NEW c \in Calls, status' = "Open", channel'[c] # Empty,
                      ~Duplex' \/ channel'[c] \in {Transport, Protocol},
                      phase'[c] \in {"registered", "sending"}
               PROVE  FALSE
    BY DEF SettledByOwnExchange
  <2>1. status = "Open" /\ (Duplex' <=> Duplex)
    BY FutureStep, LinkIsFixed DEF ExchangeInv
  <2>2. CASE phase[c] = "idle"
    <3>1. channel[c] = Empty
      BY <2>2 DEF ExchangeInv, FreshInv, IInv, Identified
    <3>2. channel'[c] = channel[c]
      <4>1. ~ \E i \in Ids : pending[i] = c
        BY <2>2, ClientAssumption
           DEF ExchangeInv, FreshInv, IInv, PendingIsUnsettled, PendingIds, Waiting
      <4> QED BY <4>1, UntoldUnlessPending DEF ExchangeInv, FreshInv
    <3> QED BY <3>1, <3>2
  <2>3. CASE phase[c] \in {"registered", "sending"}
    <3>1. CASE channel'[c] = channel[c]
      BY <2>1, <2>3, <3>1 DEF ExchangeInv, SettledByOwnExchange
    <3>2. CASE channel'[c] # channel[c]
      <4>1. Duplex /\ channel'[c] = Answer(c)
        BY <2>3, <3>2, TellsTransmitting DEF ExchangeInv
      <4>2. channel'[c] \notin {Transport, Protocol}
        BY <4>1, KindsDiffer
      <4> QED BY <2>1, <4>1, <4>2
    <3> QED BY <3>1, <3>2
  <2>4. CASE phase[c] \notin {"idle", "registered", "sending"}
    BY <2>4, TransmittingOnlyFromStart DEF ExchangeInv, FreshInv
  <2> QED BY <2>2, <2>3, <2>4
<1> QED BY <1>1, <1>2 DEF ExchangeInv

\* While the client is open a request/response call hears nothing before its own
\* exchange has ended, and a duplex call no failure before its own send has
\* (client.rs:5-9), when callers do not reuse identifiers.
THEOREM SettledByOwn ==
  ASSUME ~ReuseIds
  PROVE  Spec => []SettledByOwnExchange
<1>1. Init => ExchangeInv
  <2>1. Init => ExchangesApart /\ SettledByOwnExchange
    BY DEF Init, ExchangesApart, SettledByOwnExchange, Processors
  <2> QED BY <2>1, InitFresh DEF ExchangeInv
<1>2. ExchangeInv /\ [Next]_vars => ExchangeInv'
  BY NextExchange
<1>3. ExchangeInv => SettledByOwnExchange
  BY DEF ExchangeInv
<1> QED BY <1>1, <1>2, <1>3, PTL DEF Spec
=============================================================================
