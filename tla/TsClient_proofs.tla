---------------------------- MODULE TsClient_proofs ----------------------------
(***************************************************************************)
(* Proofs about TsClient, for every set of calls and identifiers, over     *)
(* both kinds of transport and with callers of both kinds.                 *)
(***************************************************************************)
EXTENDS TsClient, TLAPS

\* A call that is made has an identifier, one that is not has nothing; only a
\* call that was dispatched on an open client is sent.
Stepwise ==
  \A c \in Calls :
    /\ step[c] = "idle" => idOf[c] = NoId /\ result[c] = Empty
    /\ step[c] \in {"waiting", "late", "sending", "over"} => idOf[c] \in Ids
    /\ c \in sent => step[c] \in {"sending", "over"}

\* The map holds calls under their own identifiers that were told nothing; those
\* that came too late are there on a client that ended, and no others are.
PendingOwn ==
  \A i \in Ids :
    pending[i] # NoCall =>
      /\ idOf[pending[i]] = i
      /\ result[pending[i]] = Empty
      /\ step[pending[i]] # "idle"
      /\ Terminal <=> step[pending[i]] \in {"late", "refused"}

LateOnEnded == \A c \in Calls : step[c] = "late" => Terminal

\* Callers that do not reuse identifiers have one identifier for each call.
Distinct ==
  ~reuse =>
    /\ \A c, d \in Calls : idOf[c] = idOf[d] /\ idOf[c] \in Ids => c = d
    /\ \A c \in Calls : idOf[c] \in Numbers => idOf[c] < idCounter

\* An answer is one to the same identifier, and was asked for.
AnswersFit ==
  \A c \in Calls :
    result[c].kind = "answer" => /\ result[c].of \in sent
                                 /\ idOf[result[c].of] = idOf[c]

ClosedTrue == \A c \in Calls : result[c] = Closed => Terminal

\* The inductive invariant.
TsInv ==
  /\ ClientTypeOK
  /\ Stepwise
  /\ PendingOwn
  /\ LateOnEnded
  /\ Distinct
  /\ AnswersFit
  /\ ClosedTrue

LEMMA Kinds ==
  /\ \A c : Answer(c) = [kind |-> "answer", of |-> c] /\ Answer(c).kind = "answer" /\ Answer(c).of = c
  /\ \A c \in Calls : Answer(c) \in Outcomes
  /\ {Closed, Transport, Protocol, Timeout, Aborted, Refused, Empty} \subseteq Outcomes
  /\ \A w \in {Closed, Transport, Protocol, Timeout, Aborted, Refused, Empty} : w.kind # "answer"
  /\ Empty \notin {Closed, Transport, Protocol, Timeout, Aborted, Refused}
  /\ Closed \notin {Transport, Protocol, Timeout, Aborted, Refused, Empty}
  /\ Refused \notin {Closed, Transport, Protocol, Timeout, Aborted, Empty}
  /\ \A c : Answer(c) # Empty /\ Answer(c) # Closed /\ Answer(c) # Refused
BY DEF Outcomes, Answer, Closed, Transport, Protocol, Timeout, Aborted, Refused, Empty

LEMMA AnswerOutcome ==
  ASSUME NEW o \in Outcomes, o.kind = "answer"
  PROVE  o.of \in Calls /\ o = Answer(o.of)
BY DEF Outcomes, Answer, Closed, Transport, Protocol, Timeout, Aborted, Refused, Empty

LEMMA InitTsInv == ClientInit => TsInv
<1> SUFFICES ASSUME ClientInit PROVE TsInv
  OBVIOUS
<1> USE TsClientAssumption, Kinds DEF ClientInit
<1>1. ClientTypeOK
  BY DEF ClientTypeOK
<1>2. Stepwise /\ PendingOwn /\ LateOnEnded
  BY DEF Stepwise, PendingOwn, LateOnEnded
<1>3. Distinct /\ AnswersFit /\ ClosedTrue
  BY DEF Distinct, AnswersFit, ClosedTrue, Ids, Numbers
<1> QED BY <1>1, <1>2, <1>3 DEF TsInv

-----------------------------------------------------------------------------
\* What may be said to the call under an identifier.
Sayable(i, what) ==
  \/ what \in {Transport, Protocol, Timeout, Aborted}
  \/ what = Closed /\ Terminal
  \/ \E e \in sent : idOf[e] = i /\ what = Answer(e)

\* How far a dispatch gets while somebody is told something.
StepsOn ==
  /\ step' \in [Calls -> {"idle", "waiting", "late", "sending", "over", "refused"}]
  /\ \A c \in Calls :
       \/ step'[c] = step[c]
       \/ step[c] \in {"waiting", "sending"} /\ step'[c] \in {"sending", "over"} /\ (c \in sent => step[c] # "waiting")
       \/ step[c] = "late" /\ step'[c] = "refused"

LEMMA SettleStep ==
  ASSUME TsInv, NEW i \in Ids, NEW what, Sayable(i, what), Settle(i, what), StepsOn,
         UNCHANGED <<state, idCounter, start, idOf, sent, receiver, closing, duplex, reuse>>
  PROVE  TsInv'
<1> USE Kinds, TsClientAssumption DEF TsInv
<1>1. what \in Outcomes /\ what # Empty
  BY DEF Sayable, ClientTypeOK
<1>2. /\ pending' \in [Ids -> Calls \cup {NoCall}]
      /\ result' \in [Calls -> Outcomes]
  BY <1>1 DEF Settle, ClientTypeOK
<1>3. ClientTypeOK'
  BY <1>2 DEF ClientTypeOK, StepsOn
<1>4. Stepwise'
  BY DEF Stepwise, StepsOn, Settle, PendingOwn, ClientTypeOK
<1>5. PendingOwn'
  BY DEF PendingOwn, Settle, StepsOn, ClientTypeOK, Terminal
<1>6. LateOnEnded'
  BY DEF LateOnEnded, StepsOn, Terminal
<1>7. Distinct'
  BY DEF Distinct
<1>8. AnswersFit'
  <2> SUFFICES ASSUME NEW c \in Calls, result'[c].kind = "answer"
               PROVE  result'[c].of \in sent /\ idOf[result'[c].of] = idOf[c]
    BY DEF AnswersFit
  <2>1. CASE pending[i] = c
    <3>1. result'[c] = what
      BY <2>1 DEF Settle
    <3>2. PICK e \in sent : idOf[e] = i /\ what = Answer(e)
      BY <3>1 DEF Sayable
    <3>3. idOf[c] = i
      BY <2>1 DEF PendingOwn
    <3> QED BY <3>1, <3>2, <3>3
  <2>2. CASE pending[i] # c
    BY <2>2 DEF Settle, AnswersFit
  <2> QED BY <2>1, <2>2
<1>9. ClosedTrue'
  <2>1. what = Closed => Terminal
    BY DEF Sayable
  <2> QED BY <2>1 DEF ClosedTrue, Settle, Terminal
<1> QED BY <1>3, <1>4, <1>5, <1>6, <1>7, <1>8, <1>9

LEMMA NothingToldStep ==
  ASSUME TsInv, StepsOn,
         UNCHANGED <<state, idCounter, start, idOf, sent, receiver, closing, duplex, reuse, pending, result>>
  PROVE  TsInv'
<1> USE DEF TsInv
<1>1. ClientTypeOK' /\ Stepwise'
  BY DEF ClientTypeOK, Stepwise, StepsOn
<1>2. PendingOwn' /\ LateOnEnded'
  BY DEF PendingOwn, LateOnEnded, StepsOn, ClientTypeOK, Terminal
<1>3. Distinct' /\ AnswersFit' /\ ClosedTrue'
  BY DEF Distinct, AnswersFit, ClosedTrue, Terminal
<1> QED BY <1>1, <1>2, <1>3

-----------------------------------------------------------------------------
\* The end of the client tells everybody.
LEMMA TerminateStep ==
  ASSUME TsInv, NEW newState \in {"closed", "failed"}, NEW what \in {Closed, Transport},
         ~Terminal, Terminate(newState, what),
         start' \in {"none", "waiting", "opened", "failed"},
         receiver' \in {"none", "running", "over"}, closing' \in {"none", "begun", "done"},
         UNCHANGED <<idCounter, step, idOf, sent, duplex, reuse>>
  PROVE  TsInv'
<1> USE Kinds, TsClientAssumption DEF TsInv
<1>1. /\ pending' = [i \in Ids |-> NoCall] /\ state' = newState
      /\ \A c \in Calls : result'[c] \in {what, result[c]}
      /\ result' \in [Calls -> Outcomes]
  BY DEF Terminate, ClientTypeOK
<1>2. ClientTypeOK'
  BY <1>1 DEF ClientTypeOK
<1>3. \A c \in Calls : step[c] = "idle" => result'[c] = result[c]
  BY DEF Terminate, PendingOwn
<1>4. Stepwise'
  BY <1>3 DEF Stepwise
<1>5. PendingOwn' /\ LateOnEnded' /\ Distinct'
  BY <1>1 DEF PendingOwn, LateOnEnded, Distinct, Terminal
<1>6. AnswersFit'
  BY <1>1 DEF AnswersFit
<1>7. ClosedTrue'
  BY <1>1 DEF ClosedTrue, Terminal
<1> QED BY <1>2, <1>4, <1>5, <1>6, <1>7

LEMMA CallStep ==
  ASSUME TsInv, NEW c \in Calls, Call(c)
  PROVE  TsInv'
<1> USE Kinds, TsClientAssumption DEF TsInv
<1>1. PICK i \in Ids :
        /\ Register(c, i)
        /\ pending[i] = NoCall
        /\ \/ i \in ExplicitIds /\ MayChoose(i) /\ idCounter' = idCounter
           \/ i \in Numbers /\ i >= idCounter /\ idCounter' = i + 1
  <2>1. \A j \in Ids : j \notin PendingIds => pending[j] = NoCall
    BY DEF PendingIds
  <2>2. CASE \E j \in ExplicitIds :
               MayChoose(j) /\ j \notin PendingIds /\ Register(c, j) /\ UNCHANGED idCounter
    BY <2>1, <2>2 DEF Ids
  <2>3. CASE \E n \in Numbers : IsNextNumber(n) /\ Register(c, n) /\ idCounter' = n + 1
    <3>1. PICK n \in Numbers : IsNextNumber(n) /\ Register(c, n) /\ idCounter' = n + 1
      BY <2>3
    <3>2. n \in Ids /\ n >= idCounter /\ n \notin PendingIds
      BY <3>1 DEF Ids, Numbers, IsNextNumber, ClientTypeOK
    <3> QED BY <2>1, <3>1, <3>2
  <2> QED BY <2>2, <2>3 DEF Call
<1>2. /\ step[c] = "idle" /\ idOf[c] = NoId /\ result[c] = Empty /\ c \notin sent
      /\ UNCHANGED <<result, sent, receiver, closing, duplex, reuse>>
      /\ state' = IF state = "idle" THEN "opening" ELSE state
      /\ start' = IF state = "idle" THEN "waiting" ELSE start
  BY DEF Call, Stepwise, EnsureOpen
<1>3. /\ pending' = [pending EXCEPT ![i] = c]
      /\ idOf' = [idOf EXCEPT ![c] = i]
      /\ step' = [step EXCEPT ![c] = IF Terminal THEN "late" ELSE "waiting"]
  BY <1>1 DEF Register
<1>4. Terminal' = Terminal
  BY <1>2 DEF Terminal, ClientTypeOK
<1>5. idCounter' \in 0..(MaxSafe + 1)
  BY <1>1 DEF ClientTypeOK, Numbers
<1>6. ClientTypeOK'
  BY <1>2, <1>3, <1>5 DEF ClientTypeOK
<1>7. Stepwise'
  BY <1>2, <1>3 DEF Stepwise, ClientTypeOK
<1>8. PendingOwn'
  BY <1>1, <1>2, <1>3, <1>4 DEF PendingOwn, ClientTypeOK
<1>9. LateOnEnded'
  BY <1>3, <1>4 DEF LateOnEnded, ClientTypeOK
<1>10. Distinct'
  <2> SUFFICES ASSUME ~reuse PROVE Distinct'
    BY <1>2 DEF Distinct
  <2>1. \A d \in Calls : idOf[d] # i
    <3>1. CASE i \in ExplicitIds /\ MayChoose(i)
      BY <3>1 DEF MayChoose
    <3>2. CASE i \in Numbers /\ i >= idCounter
      <4>1. \A d \in Calls : idOf[d] \in Numbers => idOf[d] < idCounter
        BY DEF Distinct
      <4> QED BY <3>2, <4>1 DEF Numbers, ClientTypeOK
    <3> QED BY <1>1, <3>1, <3>2
  <2>2. i \in Numbers => i < idCounter'
    BY <1>1 DEF MayChoose, Numbers
  <2>3. idCounter' >= idCounter
    BY <1>1 DEF Numbers, ClientTypeOK
  <2>4. \A d, e \in Calls : idOf'[d] = idOf'[e] /\ idOf'[d] \in Ids => d = e
    BY <1>3, <2>1 DEF Distinct, ClientTypeOK
  <2>5. ASSUME NEW d \in Calls, idOf'[d] \in Numbers PROVE idOf'[d] < idCounter'
    <3>1. CASE d = c
      BY <3>1, <1>3, <2>2, <2>5 DEF ClientTypeOK
    <3>2. CASE d # c
      <4>1. idOf'[d] = idOf[d] /\ idOf[d] < idCounter
        BY <3>2, <1>3, <2>5 DEF Distinct, ClientTypeOK
      <4> QED BY <4>1, <2>3, <2>5, <1>5 DEF ClientTypeOK, Numbers
    <3> QED BY <3>1, <3>2
  <2> QED BY <2>4, <2>5 DEF Distinct
<1>11. AnswersFit'
  <2> SUFFICES ASSUME NEW d \in Calls, result'[d].kind = "answer"
               PROVE  result'[d].of \in sent' /\ idOf'[result'[d].of] = idOf'[d]
    BY DEF AnswersFit
  <2>1. result[d].kind = "answer" /\ result'[d] = result[d] /\ d # c
    BY <1>2
  <2>2. result[d].of \in sent /\ idOf[result[d].of] = idOf[d] /\ result[d].of # c
    BY <1>2, <2>1 DEF AnswersFit
  <2> QED BY <1>2, <1>3, <2>1, <2>2 DEF ClientTypeOK
<1>12. ClosedTrue'
  BY <1>2, <1>4 DEF ClosedTrue
<1> QED BY <1>6, <1>7, <1>8, <1>9, <1>10, <1>11, <1>12

LEMMA RefuseStep ==
  ASSUME TsInv, NEW c \in Calls, RefuseCall(c)
  PROVE  TsInv'
<1> USE Kinds, TsClientAssumption DEF TsInv, RefuseCall
<1>1. idCounter' \in 0..(MaxSafe + 1) /\ idCounter' >= idCounter
  BY DEF IsNextNumber, ClientTypeOK, Numbers
<1>2. ClientTypeOK'
  BY <1>1 DEF ClientTypeOK
<1>3. \A i \in Ids : pending[i] # c
  BY DEF PendingOwn
<1>4. Stepwise' /\ PendingOwn' /\ LateOnEnded'
  BY <1>3 DEF Stepwise, PendingOwn, LateOnEnded, ClientTypeOK, Terminal
<1>5. Distinct'
  BY <1>1 DEF Distinct, ClientTypeOK, Numbers
<1>6. AnswersFit' /\ ClosedTrue'
  BY DEF AnswersFit, ClosedTrue, ClientTypeOK, Terminal
<1> QED BY <1>2, <1>4, <1>5, <1>6

\* Opening and the ends of close() and of the loop that say nothing to anybody.
LEMMA QuietStep ==
  ASSUME TsInv,
         state' \in {"idle", "opening", "open", "closed", "failed"}, Terminal' = Terminal,
         start' \in {"none", "waiting", "opened", "failed"},
         receiver' \in {"none", "running", "over"}, closing' \in {"none", "begun", "done"},
         UNCHANGED <<pending, idCounter, step, idOf, result, sent, duplex, reuse>>
  PROVE  TsInv'
<1> USE DEF TsInv
<1>1. ClientTypeOK' /\ Stepwise' /\ PendingOwn' /\ LateOnEnded'
  BY DEF ClientTypeOK, Stepwise, PendingOwn, LateOnEnded
<1>2. Distinct' /\ AnswersFit' /\ ClosedTrue'
  BY DEF Distinct, AnswersFit, ClosedTrue
<1> QED BY <1>1, <1>2

LEMMA DispatchStepInvariant ==
  ASSUME TsInv, NEW c \in Calls, DispatchStep(c)
  PROVE  TsInv'
<1> USE Kinds DEF TsInv
<1>0. step \in [Calls -> {"idle", "waiting", "late", "sending", "over", "refused"}]
  BY DEF ClientTypeOK
<1>1. step[c] # "idle" /\ (step[c] = "refused" \/ idOf[c] \in Ids)
  BY <1>0 DEF DispatchStep, Dispatch, DispatchRejected, SendEnds, OperationFails, Reply, Stepwise
<1>2. Terminal => Sayable(idOf[c], TerminalError)
  BY DEF Sayable, TerminalError, Terminal
<1>3. TerminalError = Closed => Terminal
  BY DEF TerminalError, Terminal
<1>4. Sayable(idOf[c], TerminalError) /\ Sayable(idOf[c], Transport) /\ Sayable(idOf[c], Protocol)
  BY <1>3 DEF Sayable, TerminalError
<1>5. CASE Dispatch(c)
  <2>1. CASE pending[idOf[c]] = NoCall
    BY <1>0, <1>5, <2>1, NothingToldStep DEF Dispatch, StepsOn, Stepwise
  <2>2. CASE pending[idOf[c]] # NoCall /\ state # "open"
    BY <1>0, <1>1, <1>4, <1>5, <2>2, SettleStep DEF Dispatch, StepsOn, Stepwise
  <2>3. CASE pending[idOf[c]] # NoCall /\ state = "open"
    <3>1. /\ step[c] = "waiting" /\ step' = [step EXCEPT ![c] = "sending"] /\ sent' = sent \cup {c}
          /\ UNCHANGED <<state, pending, idCounter, start, idOf, result, receiver, closing, duplex, reuse>>
      BY <1>5, <2>3 DEF Dispatch
    <3>2. ClientTypeOK' /\ Stepwise' /\ PendingOwn' /\ LateOnEnded'
      BY <1>0, <3>1, <2>3 DEF ClientTypeOK, Stepwise, PendingOwn, LateOnEnded, Terminal
    <3>3. Distinct' /\ AnswersFit' /\ ClosedTrue'
      BY <3>1 DEF Distinct, AnswersFit, ClosedTrue, Terminal
    <3> QED BY <3>2, <3>3
  <2> QED BY <2>1, <2>2, <2>3
<1>6. CASE DispatchRejected(c)
  BY <1>0, <1>1, <1>4, <1>6, SettleStep DEF DispatchRejected, StepsOn, Stepwise
<1>7. CASE SendEnds(c)
  BY <1>0, <1>7, NothingToldStep DEF SendEnds, StepsOn
<1>8. CASE OperationFails(c)
  BY <1>0, <1>1, <1>4, <1>8, SettleStep DEF OperationFails, StepsOn
<1>9. CASE \E entry \in Entries(c) : Reply(c, entry)
  <2>1. PICK entry \in Entries(c) : Reply(c, entry)
    BY <1>9
  <2>2. CASE pending[idOf[c]] = NoCall
    BY <1>0, <2>1, <2>2, NothingToldStep DEF Reply, StepsOn
  <2>3. CASE pending[idOf[c]] # NoCall
    <3> DEFINE what == IF InScope(c, entry) THEN Answer(entry) ELSE Protocol
    <3>1. Sayable(idOf[c], what)
      BY <1>4 DEF Sayable, InScope, Entries
    <3>2. Settle(idOf[c], what)
      BY <2>1, <2>3 DEF Reply
    <3> HIDE DEF what
    <3> QED BY <1>0, <1>1, <2>1, <3>1, <3>2, SettleStep DEF Reply, StepsOn
  <2> QED BY <2>2, <2>3
<1> QED BY <1>5, <1>6, <1>7, <1>8, <1>9 DEF DispatchStep

LEMMA NextTsInv == TsInv /\ [ClientNext]_clientVars => TsInv'
<1> SUFFICES ASSUME TsInv, [ClientNext]_clientVars PROVE TsInv'
  OBVIOUS
<1>0. ClientTypeOK
  BY DEF TsInv
<1>a. StepsOn \/ step' # step
  BY <1>0 DEF StepsOn, ClientTypeOK
<1>1. ASSUME NEW c \in Calls, Call(c) PROVE TsInv'
  BY <1>1, CallStep
<1>2. ASSUME NEW c \in Calls, RefuseCall(c) PROVE TsInv'
  BY <1>2, RefuseStep
<1>3. ASSUME NEW c \in Calls, DispatchStep(c) PROVE TsInv'
  BY <1>3, DispatchStepInvariant
<1>4. ASSUME NEW c \in Calls, GiveUp(c) PROVE TsInv'
  <2>1. PICK i \in Ids, why \in {Timeout, Aborted} : Settle(i, why)
    BY <1>4 DEF GiveUp
  <2> QED BY <1>4, <1>a, <2>1, SettleStep DEF GiveUp, Sayable
<1>5. ASSUME NEW entry \in sent, Receive(entry) PROVE TsInv'
  <2>1. idOf[entry] \in Ids /\ Sayable(idOf[entry], Answer(entry))
    BY <1>5 DEF Receive, PendingIds, Sayable
  <2> QED BY <1>5, <1>a, <2>1, SettleStep DEF Receive
<1>6. CASE Start \/ Opened \/ CloseResolves
  BY <1>0, <1>6, QuietStep DEF Start, EnsureOpen, Opened, CloseResolves, ClientTypeOK, Terminal
<1>7. CASE OpenFails
  <2>1. CASE Terminal
    BY <1>0, <1>7, <2>1, QuietStep DEF OpenFails, ClientTypeOK, Terminal
  <2>2. CASE ~Terminal
    BY <1>0, <1>7, <2>2, TerminateStep DEF OpenFails, ClientTypeOK
  <2> QED BY <2>1, <2>2
<1>8. CASE ReceiveEnds
  <2>1. CASE state # "open"
    BY <1>0, <1>8, <2>1, QuietStep DEF ReceiveEnds, ClientTypeOK, Terminal
  <2>2. CASE state = "open"
    BY <1>0, <1>8, <2>2, TerminateStep DEF ReceiveEnds, ClientTypeOK, Terminal
  <2> QED BY <2>1, <2>2
<1>9. CASE CloseClient
  <2>1. CASE Terminal
    BY <1>0, <1>9, <2>1, QuietStep DEF CloseClient, ClientTypeOK, Terminal
  <2>2. CASE ~Terminal
    BY <1>0, <1>9, <2>2, TerminateStep DEF CloseClient, ClientTypeOK
  <2> QED BY <2>1, <2>2
<1>10. CASE UNCHANGED clientVars
  BY <1>0, <1>10, QuietStep DEF clientVars, ClientTypeOK, Terminal
<1> QED BY <1>1, <1>2, <1>3, <1>4, <1>5, <1>6, <1>7, <1>8, <1>9, <1>10 DEF ClientNext

-----------------------------------------------------------------------------
\* What a caller sees depends on how far the call got and what it was told, for
\* an answer is always one to the call's own identifier.
View(l, m, r) ==
  IF r = Empty THEN [kind |-> IF m /\ ~l THEN "pending" ELSE "idle", of |-> NoCall]
  ELSE IF l THEN [kind |-> "refused", of |-> NoCall] ELSE r
Told(c) == IF result[c].kind = "answer" THEN Answer(c) ELSE result[c]

LEMMA BarIs == TsInv => ClientBar = [c \in Calls |-> View(Late(c), Made(c), Told(c))]
<1> SUFFICES ASSUME TsInv, NEW c \in Calls
             PROVE  (IF result[c] # Empty THEN Seen(c)
                     ELSE [kind |-> IF Made(c) /\ ~Late(c) THEN "pending" ELSE "idle", of |-> NoCall])
                    = View(Late(c), Made(c), Told(c))
  BY DEF ClientBar
<1> USE Kinds DEF TsInv
<1>1. CASE result[c].kind # "answer"
  BY <1>1 DEF Seen, View, Told, Refused
<1>2. CASE result[c].kind = "answer"
  <2>1. PICK e \in Calls : result[c] = Answer(e) /\ e \in sent /\ idOf[e] = idOf[c]
    BY <1>2, AnswerOutcome DEF AnswersFit, ClientTypeOK
  <2>2. reuse \in BOOLEAN /\ (~reuse => e = c)
    <3>1. idOf[e] \in Ids
      BY <2>1 DEF Stepwise
    <3> QED BY <2>1, <3>1 DEF Distinct, ClientTypeOK
  <2>3. ~reuse => ~Late(c)
    BY <2>1, <2>2 DEF Stepwise, Late
  <2>4. Seen(c) = IF Late(c) THEN Refused ELSE Answer(c)
    BY <2>1, <2>2, <2>3 DEF Seen
  <2> QED BY <1>2, <2>1, <2>4 DEF View, Told, Refused
<1> QED BY <1>1, <1>2

LEMMA BarThen == TsInv' => ClientBar' = [c \in Calls |-> View(Late(c)', Made(c)', Told(c)')]
<1>1. (TsInv => ClientBar = [c \in Calls |-> View(Late(c), Made(c), Told(c))])'
  BY BarIs, PTL
<1> QED BY <1>1

LEMMA Stutters ==
  ASSUME TsInv, TsInv', Terminal' = Terminal, result' = result,
         \A c \in Calls : View(Late(c)', Made(c)', Told(c)) = View(Late(c), Made(c), Told(c))
  PROVE  UNCHANGED Contract!vars
<1>1. \A c \in Calls : Told(c)' = Told(c)
  BY DEF Told, Answer
<1> QED BY <1>1, BarIs, BarThen DEF Contract!vars

\* A dispatch neither makes a call nor makes it late.
LEMMA StepsOnSame ==
  ASSUME StepsOn, NEW c \in Calls
  PROVE  Late(c)' = Late(c) /\ Made(c)' = Made(c)
BY DEF StepsOn, Late, Made

\* One call, and only that one, is told something.
LEMMA SettleContract ==
  ASSUME TsInv, TsInv', NEW i \in Ids, NEW what, Sayable(i, what), Settle(i, what), StepsOn,
         UNCHANGED <<state, sent, idOf, reuse>>
  PROVE  [Contract!Next]_(Contract!vars)
<1> USE Kinds DEF TsInv
<1>0. Terminal' = Terminal /\ pending \in [Ids -> Calls \cup {NoCall}] /\ NoCall \notin Calls
  BY TsClientAssumption DEF Terminal, ClientTypeOK
<1>1. CASE pending[i] = NoCall
  <2>1. result' = result
    BY <1>0, <1>1 DEF Settle, ClientTypeOK
  <2> QED BY <1>0, <2>1, Stutters, StepsOnSame
<1>2. CASE pending[i] # NoCall
  <2>0. PICK d \in Calls : pending[i] = d
    BY <1>0, <1>2
  <2>1. /\ idOf[d] = i /\ result[d] = Empty /\ step[d] # "idle"
        /\ Late(d) <=> Terminal
    BY <1>0, <1>2, <2>0 DEF PendingOwn, Late
  <2>2. \A c \in Calls : result'[c] = IF c = d THEN what ELSE result[c]
    BY <2>0 DEF Settle
  <2>3. what # Empty /\ (what.kind = "answer" => what \in {Answer(e) : e \in Calls})
    BY DEF Sayable, ClientTypeOK
  <2>4. \A c \in Calls : Told(c)' = IF c = d THEN Told(d)' ELSE Told(c)
    BY <2>2 DEF Told, Answer
  <2>5. Made(d) /\ Told(d) = Empty /\ Told(d)' = IF what.kind = "answer" THEN Answer(d) ELSE what
    BY <2>1, <2>2 DEF Made, Told, Answer
  <2>6. ClientBar[d] = [kind |-> IF Late(d) THEN "idle" ELSE "pending", of |-> NoCall]
    BY <2>1, <2>5, BarIs DEF View
  <2>7. ClientBar' = [ClientBar EXCEPT ![d] = IF Late(d) THEN Contract!Refused ELSE Told(d)']
    BY <2>1, <2>3, <2>4, <2>5, BarIs, BarThen, StepsOnSame DEF View, Contract!Refused
  <2>8. CASE Late(d)
    BY <1>0, <2>1, <2>6, <2>7, <2>8 DEF Contract!Next, Contract!Refuse, Contract!Idle
  <2>9. CASE ~Late(d)
    <3>1. /\ Told(d)' \in {Contract!Answer(d), Contract!Transport, Contract!Protocol,
                           Contract!Timeout, Contract!Dropped, Contract!Closed}
          /\ Told(d)' = Contract!Closed => Terminal
      BY <2>1, <2>5, <2>9 DEF Sayable, Answer, Transport, Protocol, Timeout, Aborted, Closed,
         Contract!Answer, Contract!Transport, Contract!Protocol, Contract!Timeout,
         Contract!Dropped, Contract!Closed
    <3> QED BY <1>0, <2>1, <2>6, <2>7, <2>9, <3>1
            DEF Contract!Next, Contract!Finish, Contract!Pending
  <2> QED BY <2>8, <2>9
<1> QED BY <1>1, <1>2

\* Everybody in the map is told so when the client ends, and nobody there is late.
LEMMA TerminateContract ==
  ASSUME TsInv, TsInv', NEW newState \in {"closed", "failed"}, NEW what \in {Closed, Transport},
         ~Terminal, Terminate(newState, what), UNCHANGED step
  PROVE  Contract!Next
<1> DEFINE told == {c \in Calls : \E i \in Ids : pending[i] = c}
<1> USE Kinds DEF TsInv
<1>1. Terminal' /\ (\A c \in Calls : Late(c)' = Late(c) /\ Made(c)' = Made(c))
  BY DEF Terminal, Terminate, Late, Made
<1>2. \A c \in told : result[c] = Empty /\ Made(c) /\ ~Late(c)
  BY TsClientAssumption DEF PendingOwn, Late, Made
<1>3. \A c \in Calls : result'[c] = IF c \in told THEN what ELSE result[c]
  BY DEF Terminate
<1>4. \A c \in Calls : Told(c)' = IF c \in told THEN what ELSE Told(c)
  BY <1>3 DEF Told, Answer
<1>5. \A c \in told : Told(c) = Empty
  BY <1>2 DEF Told
<1> HIDE DEF told
<1>6. told \subseteq Calls
  BY DEF told
<1>7. \A c \in told : ClientBar[c] = Contract!Pending
  BY <1>2, <1>5, <1>6, BarIs DEF View, Contract!Pending
<1>8. ClientBar' = [c \in Calls |-> IF c \in told THEN what ELSE ClientBar[c]]
  BY <1>1, <1>2, <1>4, BarIs, BarThen DEF View
<1>9. what \in {Contract!Closed, Contract!Transport}
  BY DEF Closed, Transport, Contract!Closed, Contract!Transport
<1> QED BY <1>1, <1>6, <1>7, <1>8, <1>9 DEF Contract!Next, Contract!Shut

LEMMA CallContractStep ==
  ASSUME TsInv, TsInv', NEW c \in Calls, Call(c)
  PROVE  [Contract!Next]_(Contract!vars)
<1> USE Kinds DEF TsInv
<1>1. /\ step[c] = "idle" /\ result[c] = Empty /\ result' = result /\ Terminal' = Terminal
      /\ step' = [step EXCEPT ![c] = IF Terminal THEN "late" ELSE "waiting"]
  BY DEF Call, Register, EnsureOpen, Stepwise, Terminal, ClientTypeOK
<1>2. \A d \in Calls \ {c} : Late(d)' = Late(d) /\ Made(d)' = Made(d)
  BY <1>1 DEF Late, Made, ClientTypeOK
<1>3. ~Made(c) /\ Made(c)' /\ (Late(c)' <=> Terminal) /\ Told(c) = Empty
  BY <1>1 DEF Late, Made, Told, ClientTypeOK
<1>4. CASE Terminal
  BY <1>1, <1>2, <1>3, <1>4, Stutters DEF View
<1>5. CASE ~Terminal
  <2>1. \A d \in Calls : Told(d)' = Told(d)
    BY <1>1 DEF Told, Answer
  <2>2. ClientBar[c] = Contract!Idle
    BY <1>3, BarIs DEF View, Contract!Idle
  <2>3. ClientBar' = [ClientBar EXCEPT ![c] = Contract!Pending]
    BY <1>2, <1>3, <1>5, <2>1, BarIs, BarThen DEF View, Contract!Pending
  <2> QED BY <1>1, <1>5, <2>2, <2>3 DEF Contract!Next, Contract!Begin
<1> QED BY <1>4, <1>5

LEMMA RefuseContractStep ==
  ASSUME TsInv, TsInv', NEW c \in Calls, RefuseCall(c)
  PROVE  Contract!Next
<1> USE Kinds DEF TsInv, RefuseCall
<1>1. ~Made(c) /\ Told(c) = Empty /\ Late(c)' /\ Told(c)' = Refused
  BY DEF Made, Late, Told, Stepwise, ClientTypeOK
<1>2. \A d \in Calls \ {c} : Late(d)' = Late(d) /\ Made(d)' = Made(d) /\ Told(d)' = Told(d)
  BY DEF Late, Made, Told, Answer, ClientTypeOK
<1>3. ClientBar[c] = Contract!Idle
  BY <1>1, BarIs DEF View, Contract!Idle
<1>4. ClientBar' = [ClientBar EXCEPT ![c] = Contract!Refused]
  BY <1>1, <1>2, BarIs, BarThen DEF View, Contract!Refused
<1>5. Terminal' = Terminal
  BY DEF Terminal
<1> QED BY <1>3, <1>4, <1>5 DEF Contract!Next, Contract!Refuse

LEMMA DispatchContract ==
  ASSUME TsInv, TsInv', NEW c \in Calls, DispatchStep(c)
  PROVE  [Contract!Next]_(Contract!vars)
<1> USE Kinds
<1>0. /\ step \in [Calls -> {"idle", "waiting", "late", "sending", "over", "refused"}]
      /\ step[c] \in {"waiting", "sending"} => idOf[c] \in Ids
      /\ step[c] = "late" => idOf[c] \in Ids
      /\ c \in sent => step[c] # "waiting"
  BY DEF TsInv, ClientTypeOK, Stepwise
<1>1. \A what \in {TerminalError, Transport, Protocol} : Sayable(idOf[c], what)
  BY DEF Sayable, TerminalError, Terminal
<1>2. ASSUME step[c] \in {"waiting", "sending"},
             step' \in {[step EXCEPT ![c] = "sending"], [step EXCEPT ![c] = "over"]},
             UNCHANGED <<state, pending, result>>
      PROVE  [Contract!Next]_(Contract!vars)
  <2>1. Terminal' = Terminal /\ \A d \in Calls : Late(d)' = Late(d) /\ Made(d)' = Made(d)
    BY <1>0, <1>2 DEF Terminal, Late, Made
  <2> QED BY <1>2, <2>1, Stutters
<1>3. CASE Dispatch(c)
  <2>1. CASE pending[idOf[c]] = NoCall \/ state = "open"
    BY <1>2, <1>3, <2>1 DEF Dispatch
  <2>2. CASE pending[idOf[c]] # NoCall /\ state # "open"
    BY <1>0, <1>1, <1>3, <2>2, SettleContract DEF Dispatch, StepsOn
  <2> QED BY <2>1, <2>2
<1>4. CASE DispatchRejected(c)
  BY <1>0, <1>1, <1>4, SettleContract DEF DispatchRejected, StepsOn
<1>5. CASE SendEnds(c)
  BY <1>2, <1>5 DEF SendEnds
<1>6. CASE OperationFails(c)
  BY <1>0, <1>1, <1>6, SettleContract DEF OperationFails, StepsOn
<1>7. CASE \E entry \in Entries(c) : Reply(c, entry)
  <2>1. PICK entry \in Entries(c) : Reply(c, entry)
    BY <1>7
  <2>2. CASE pending[idOf[c]] = NoCall
    BY <1>2, <2>1, <2>2 DEF Reply
  <2>3. CASE pending[idOf[c]] # NoCall
    <3> DEFINE what == IF InScope(c, entry) THEN Answer(entry) ELSE Protocol
    <3>1. Sayable(idOf[c], what)
      BY <1>1 DEF Sayable, InScope, Entries
    <3>2. Settle(idOf[c], what)
      BY <2>1, <2>3 DEF Reply
    <3> HIDE DEF what
    <3> QED BY <1>0, <2>1, <3>1, <3>2, SettleContract DEF Reply, StepsOn
  <2> QED BY <2>2, <2>3
<1> QED BY <1>3, <1>4, <1>5, <1>6, <1>7 DEF DispatchStep

LEMMA TsContractStep ==
  ASSUME TsInv, TsInv', [ClientNext]_clientVars
  PROVE  [Contract!Next]_(Contract!vars)
<1> USE DEF TsInv
<1>a. StepsOn \/ step' # step
  BY DEF StepsOn, ClientTypeOK
<1>b. ASSUME UNCHANGED <<step, result>>, Terminal' = Terminal PROVE UNCHANGED Contract!vars
  BY <1>b, Stutters DEF Late, Made
<1>1. ASSUME NEW c \in Calls, Call(c) PROVE [Contract!Next]_(Contract!vars)
  BY <1>1, CallContractStep
<1>2. ASSUME NEW c \in Calls, RefuseCall(c) PROVE [Contract!Next]_(Contract!vars)
  BY <1>2, RefuseContractStep
<1>3. ASSUME NEW c \in Calls, DispatchStep(c) PROVE [Contract!Next]_(Contract!vars)
  BY <1>3, DispatchContract
<1>4. ASSUME NEW c \in Calls, GiveUp(c) PROVE [Contract!Next]_(Contract!vars)
  <2>1. PICK i \in Ids, why \in {Timeout, Aborted} : Settle(i, why)
    BY <1>4 DEF GiveUp
  <2> QED BY <1>4, <1>a, <2>1, SettleContract DEF GiveUp, Sayable
<1>5. ASSUME NEW entry \in sent, Receive(entry) PROVE [Contract!Next]_(Contract!vars)
  <2>1. idOf[entry] \in Ids /\ Sayable(idOf[entry], Answer(entry))
    BY <1>5 DEF Receive, PendingIds, Sayable
  <2> QED BY <1>5, <1>a, <2>1, SettleContract DEF Receive
<1>6. CASE Start \/ Opened \/ CloseResolves \/ UNCHANGED clientVars
  BY <1>6, <1>b DEF Start, EnsureOpen, Opened, CloseResolves, clientVars, Terminal
<1>7. CASE OpenFails
  BY <1>7, <1>b, TerminateContract DEF OpenFails, Terminal
<1>8. CASE ReceiveEnds
  BY <1>8, <1>b, TerminateContract DEF ReceiveEnds, Terminal
<1>9. CASE CloseClient
  BY <1>9, <1>b, TerminateContract DEF CloseClient, Terminal
<1> QED BY <1>1, <1>2, <1>3, <1>4, <1>5, <1>6, <1>7, <1>8, <1>9 DEF ClientNext

LEMMA TsContractInit == ClientInit => Contract!Init
<1> SUFFICES ASSUME ClientInit PROVE Contract!Init
  OBVIOUS
<1>1. ~Terminal /\ \A c \in Calls : result[c] = Empty /\ ~Made(c)
  BY DEF ClientInit, Terminal, Made
<1> QED BY <1>1 DEF Contract!Init, Contract!Idle, ClientBar

\* The client's variables keep to their types.
THEOREM TsClientTypes == ClientSpec => []ClientTypeOK
<1>1. TsInv => ClientTypeOK
  BY DEF TsInv
<1> QED BY <1>1, InitTsInv, NextTsInv, PTL DEF ClientSpec

\* The client keeps the contract with callers of both kinds, over both kinds of
\* transport, for any number of calls: with callers that reuse identifiers as far
\* as identifiers can tell.
THEOREM TsClientImplementsContract == ClientSpec => TsImplementsContract
<1>1. TsInv /\ [ClientNext]_clientVars => TsInv'
  BY NextTsInv
<1> QED BY <1>1, InitTsInv, TsContractInit, TsContractStep, PTL
        DEF ClientSpec, TsImplementsContract, Contract!Spec
=============================================================================
