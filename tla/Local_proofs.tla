----------------------------- MODULE Local_proofs -----------------------------
(***************************************************************************)
(* Proofs about what one process does with its files, its own threads and  *)
(* the bytes it reads: the streaming decoder's hand-off, tq's replacing of *)
(* a file and the readers of lines, for every value of their constants.    *)
(*                                                                         *)
(* Items of a document reach the consumer in order and whole, one batch    *)
(* ahead at most, and the source is read only while the consumer waits     *)
(* with everything in hand. That it has everything during a read follows   *)
(* from the order of items once the batch and what is pending are known to *)
(* be empty: the invariant says in which states they are, and that the     *)
(* worker is ended once next has returned None.                            *)
(*                                                                         *)
(* What is renamed over a file was written out in full, and what was moved *)
(* aside was the file, so that there is a whole file under its name.       *)
(*                                                                         *)
(* How a stream of lines is cut does not change what is read from it:      *)
(* neither the events of both parsers of server-sent events nor the frames *)
(* of the dual dialect stream; and what an encoder wrote is read back.     *)
(***************************************************************************)
EXTENDS EventHandoff, InPlace, EventReading, Lemmas, SequenceTheorems, TLAPS

-------------------------------------------------------------------------------
(* The hand-off. *)

Items == Nat \cup {Err}

HandoffInv ==
  /\ HandoffTypeOK
  /\ Connected => got \o pending \o filled = emitted
  /\ Len(filled) <= EVENT_BATCH
  /\ worker = "parsing" => Len(filled) < EVENT_BATCH
  /\ worker \in {"asking", "reading", "ended"} => filled = <<>>
  /\ worker = "flushing" => filled # <<>>
  /\ worker = "reading" => consumer = "receiving"
  /\ consumer = "receiving" => pending = <<>>
  /\ finished => worker = "ended" /\ pending = <<>>

LEMMA AppendLast ==
  ASSUME NEW s \in Seq(Items), NEW e \in Items
  PROVE  Append(s, e) = s \o <<e>> /\ Append(s, e) \in Seq(Items)
  <1>1. /\ Append(s, e) \in Seq(Items) /\ <<e>> \in Seq(Items)
        /\ Len(Append(s, e)) = Len(s) + 1
        /\ \A i \in 1..Len(s) + 1 : Append(s, e)[i] = IF i <= Len(s) THEN s[i] ELSE e
    OBVIOUS
  <1>2. /\ s \o <<e>> \in Seq(Items)
        /\ Len(s \o <<e>>) = Len(s) + 1
        /\ \A i \in 1..Len(s) + 1 : (s \o <<e>>)[i] = IF i <= Len(s) THEN s[i] ELSE e
    BY <1>1, ConcatProperties, LenProperties
  <1> QED
    BY <1>1, <1>2, SeqEqual, LenProperties

LEMMA HeadFirst ==
  ASSUME NEW s \in Seq(Items), s # <<>>
  PROVE  <<Head(s)>> \o Tail(s) = s /\ Head(s) \in Items /\ Tail(s) \in Seq(Items)
  <1>1. /\ Head(s) \in Items /\ Tail(s) \in Seq(Items) /\ Len(Tail(s)) = Len(s) - 1 /\ Len(s) \in Nat \ {0}
        /\ \A i \in 1..Len(Tail(s)) : Tail(s)[i] = s[i + 1]
    BY HeadTailProperties, EmptySeq
  <1>2. <<Head(s)>> \in Seq(Items) /\ Len(<<Head(s)>>) = 1 /\ <<Head(s)>>[1] = s[1]
    BY <1>1
  <1>3. /\ <<Head(s)>> \o Tail(s) \in Seq(Items)
        /\ Len(<<Head(s)>> \o Tail(s)) = Len(s)
        /\ \A i \in 1..Len(s) : (<<Head(s)>> \o Tail(s))[i] = IF i <= 1 THEN <<Head(s)>>[i] ELSE Tail(s)[i - 1]
    BY <1>1, <1>2, ConcatProperties
  <1>4. \A i \in 1..Len(s) : (<<Head(s)>> \o Tail(s))[i] = s[i]
    BY <1>1, <1>2, <1>3
  <1> QED
    BY <1>1, <1>3, <1>4, SeqEqual

\* Moving the first item of a batch to what was returned.
LEMMA MoveHead ==
  ASSUME NEW s \in Seq(Items), NEW t \in Seq(Items), t # <<>>
  PROVE  Append(s, Head(t)) \o Tail(t) = s \o t
  <1>1. <<Head(t)>> \in Seq(Items) /\ Tail(t) \in Seq(Items) /\ <<Head(t)>> \o Tail(t) = t
        /\ Append(s, Head(t)) = s \o <<Head(t)>>
    BY HeadFirst, AppendLast
  <1> QED
    BY <1>1, ConcatAssociative

LEMMA HandoffInitEstablishes == HandoffInit => HandoffInv
  <1> SUFFICES ASSUME HandoffInit PROVE HandoffInv
    OBVIOUS
  <1>1. <<>> \in Seq(Items) /\ Len(<<>>) = 0
    BY EmptySeq
  <1>2. <<>> \o <<>> \o <<>> = <<>>
    BY <1>1, ConcatEmptySeq
  <1>3. got \o pending \o filled = emitted
    BY <1>2 DEF HandoffInit
  <1>4. HandoffTypeOK
    BY <1>1 DEF HandoffInit, HandoffTypeOK, Items
  <1>5. Len(filled) <= EVENT_BATCH /\ filled = <<>>
    BY <1>1, HandoffAssumption DEF HandoffInit
  <1> QED
    BY <1>3, <1>4, <1>5 DEF HandoffInit, HandoffInv

LEMMA EmitKeeps == HandoffInv /\ Emit => HandoffInv'
  <1> SUFFICES ASSUME HandoffInv, Emit PROVE HandoffInv'
    OBVIOUS
  <1> DEFINE e == Len(emitted) + 1
  <1>1. got \in Seq(Items) /\ pending \in Seq(Items) /\ filled \in Seq(Items) /\ emitted \in Seq(Items)
    BY DEF HandoffInv, HandoffTypeOK, Items
  <1>2. e \in Items /\ <<e>> \in Seq(Items)
    BY <1>1, LenProperties DEF Items
  <1>3. Append(filled, e) = filled \o <<e>> /\ Append(emitted, e) = emitted \o <<e>>
        /\ Append(filled, e) \in Seq(Items) /\ Append(emitted, e) \in Seq(Items)
    BY <1>1, <1>2, AppendLast
  <1>4. (got \o pending) \o (filled \o <<e>>) = (got \o pending \o filled) \o <<e>>
    BY <1>1, <1>2, ConcatProperties, ConcatAssociative
  <1>5. Connected' => got' \o pending' \o filled' = emitted'
    BY <1>3, <1>4 DEF HandoffInv, Emit, Connected, consumerVars
  <1>6. Len(filled') = Len(filled) + 1 /\ Len(filled) \in Nat /\ filled' # <<>>
    BY <1>1, <1>2, <1>3, LenProperties, EmptySeq DEF Emit
  <1>7. HandoffTypeOK'
    BY <1>3 DEF HandoffInv, HandoffTypeOK, Emit, consumerVars, Items
  <1>8. /\ worker = "parsing" /\ Len(filled) < EVENT_BATCH
        /\ worker' = IF Len(filled) + 1 >= EVENT_BATCH THEN "flushing" ELSE "parsing"
        /\ consumer' = consumer /\ pending' = pending /\ finished' = finished
        /\ consumer = "receiving" => pending = <<>>
        /\ ~finished
    BY DEF HandoffInv, Emit, consumerVars
  <1>9. Len(filled') <= EVENT_BATCH /\ (worker' = "parsing" => Len(filled') < EVENT_BATCH)
    BY <1>6, <1>8, HandoffAssumption
  <1> QED
    BY <1>5, <1>6, <1>7, <1>8, <1>9 DEF HandoffInv

LEMMA DemandKeeps == HandoffInv /\ wait_for_demand => HandoffInv'
  BY DEF HandoffInv, HandoffTypeOK, wait_for_demand, consumerVars, Connected

LEMMA ReadKeeps == HandoffInv /\ ReadSource => HandoffInv'
  <1> SUFFICES ASSUME HandoffInv, ReadSource PROVE HandoffInv'
    OBVIOUS
  <1>1. filled = <<>> /\ Len(filled) = 0
    BY EmptySeq DEF HandoffInv, ReadSource
  <1>2. reads' \in Nat
    BY DEF HandoffInv, HandoffTypeOK, ReadSource
  <1> QED
    BY <1>1, <1>2, HandoffAssumption DEF HandoffInv, HandoffTypeOK, ReadSource, consumerVars, Connected

LEMMA EndKeeps == HandoffInv /\ EndDecode => HandoffInv'
  <1> SUFFICES ASSUME HandoffInv, EndDecode PROVE HandoffInv'
    OBVIOUS
  <1>1. PICK items \in {<<>>, <<Err>>} :
          /\ filled' = filled \o items
          /\ emitted' = emitted \o items
          /\ worker' = IF filled \o items = <<>> THEN "ended" ELSE "flushing"
    BY DEF EndDecode
  <1>2. items \in Seq(Items) /\ Len(items) <= 1 /\ Len(items) \in Nat
    <2>1. <<Err>> \in Seq(Items) /\ Len(<<Err>>) = 1 /\ <<>> \in Seq(Items) /\ Len(<<>>) = 0
      BY DEF Items
    <2>2. CASE items = <<>>
      BY <2>1, <2>2
    <2>3. CASE items = <<Err>>
      BY <2>1, <2>3
    <2> QED
      BY <2>2, <2>3
  <1>3. got \in Seq(Items) /\ pending \in Seq(Items) /\ filled \in Seq(Items) /\ emitted \in Seq(Items)
    BY DEF HandoffInv, HandoffTypeOK, Items
  <1>4. (got \o pending) \o (filled \o items) = (got \o pending \o filled) \o items
    <2>1. got \o pending \in Seq(Items)
      BY <1>3, ConcatProperties
    <2>2. items \in Seq(Items)
      BY <1>2
    <2>3. Associates(got \o pending, filled, items)
      BY <1>3, <2>1, <2>2, JoinsAssociate
    <2> QED
      BY <2>3 DEF Associates
  <1>5. Connected' => got' \o pending' \o filled' = emitted'
    BY <1>1, <1>4 DEF HandoffInv, EndDecode, Connected, consumerVars
  <1>6. Len(filled') = Len(filled) + Len(items) /\ Len(filled) \in Nat /\ filled' \in Seq(Items) /\ emitted' \in Seq(Items)
    BY <1>1, <1>2, <1>3, ConcatProperties, LenProperties
  <1>7. HandoffTypeOK'
    BY <1>1, <1>6 DEF HandoffInv, HandoffTypeOK, EndDecode, consumerVars, Items
  <1>8. /\ worker = "parsing" /\ Len(filled) < EVENT_BATCH
        /\ worker' = IF filled' = <<>> THEN "ended" ELSE "flushing"
        /\ consumer' = consumer /\ pending' = pending /\ finished' = finished
        /\ consumer = "receiving" => pending = <<>>
        /\ ~finished
    BY <1>1 DEF HandoffInv, EndDecode, consumerVars
  <1>9. Len(filled') <= EVENT_BATCH
    BY <1>2, <1>6, <1>8, HandoffAssumption
  <1> QED
    BY <1>5, <1>7, <1>8, <1>9 DEF HandoffInv

LEMMA SendFailsKeeps == HandoffInv /\ SendFails => HandoffInv'
  <1> SUFFICES ASSUME HandoffInv, SendFails PROVE HandoffInv'
    OBVIOUS
  <1>1. /\ <<Err>> \in Seq(Items) /\ <<>> \in Seq(Items)
        /\ Len(<<Err>>) = 1 /\ Len(<<>>) = 0 /\ <<Err>> # <<>>
    BY DEF Items
  <1>2. HandoffTypeOK'
    BY <1>1 DEF HandoffInv, HandoffTypeOK, SendFails, consumerVars, Items
  <1> QED
    BY <1>1, <1>2, HandoffAssumption DEF HandoffInv, SendFails, consumerVars, Connected

LEMMA NextKeeps == HandoffInv /\ next => HandoffInv'
  <1> SUFFICES ASSUME HandoffInv, next PROVE HandoffInv'
    OBVIOUS
  <1>1. CASE pending = <<>>
    BY <1>1 DEF HandoffInv, HandoffTypeOK, next, workerVars, Connected
  <1>2. CASE pending # <<>>
    <2>1. got \in Seq(Items) /\ pending \in Seq(Items)
      BY DEF HandoffInv, HandoffTypeOK, Items
    <2>2. Append(got, Head(pending)) \o Tail(pending) = got \o pending
      BY <1>2, <2>1, MoveHead
    <2>3. Head(pending) \in Items /\ Tail(pending) \in Seq(Items) /\ Append(got, Head(pending)) \in Seq(Items)
      BY <1>2, <2>1, HeadFirst, AppendLast
    <2> QED
      BY <1>2, <2>2, <2>3 DEF HandoffInv, HandoffTypeOK, next, workerVars, Connected, Items
  <1> QED
    BY <1>1, <1>2

LEMMA TakeKeeps == HandoffInv /\ TakeBatch => HandoffInv'
  <1> SUFFICES ASSUME HandoffInv, TakeBatch PROVE HandoffInv'
    OBVIOUS
  <1>1. got \in Seq(Items) /\ filled \in Seq(Items) /\ pending = <<>> /\ ~finished
    BY DEF HandoffInv, HandoffTypeOK, TakeBatch, Items
  <1>2. CASE worker = "asking"
    BY <1>1, <1>2 DEF HandoffInv, HandoffTypeOK, TakeBatch, Connected
  <1>3. CASE worker = "flushing"
    <2>1. filled # <<>> /\ filled' = <<>> /\ got' = Append(got, Head(filled)) /\ pending' = Tail(filled)
          /\ consumer' = "idle" /\ worker' = after /\ UNCHANGED <<after, reads, emitted, finished>>
      BY <1>3 DEF HandoffInv, TakeBatch
    <2>2. Append(got, Head(filled)) \o Tail(filled) = got \o filled
      BY <1>1, <2>1, MoveHead
    <2>3. Tail(filled) \in Seq(Items) /\ Append(got, Head(filled)) \in Seq(Items)
      BY <1>1, <2>1, HeadFirst, AppendLast
    <2>4. got \o pending \o filled = got \o filled /\ <<>> \in Seq(Items) /\ Len(<<>>) = 0
      BY <1>1, ConcatEmptySeq, EmptySeq
    <2>5. got \o filled \in Seq(Items) /\ (got \o filled) \o <<>> = got \o filled
      BY <1>1, ConcatProperties, ConcatEmptySeq
    <2>6. got' \o pending' \o filled' = emitted'
      BY <2>1, <2>2, <2>4, <2>5 DEF HandoffInv, TakeBatch, Connected
    <2>7. HandoffTypeOK'
      BY <2>1, <2>3, <2>4 DEF HandoffInv, HandoffTypeOK, Items
    <2> QED
      BY <1>1, <2>1, <2>4, <2>6, <2>7, HandoffAssumption DEF HandoffInv, HandoffTypeOK
  <1> QED
    BY <1>2, <1>3 DEF TakeBatch

LEMMA EndsKeep == HandoffInv /\ (ReceiveEnd \/ DropDecoder \/ DropReturns) => HandoffInv'
  <1>1. HandoffInv /\ ReceiveEnd => HandoffInv'
    BY DEF HandoffInv, HandoffTypeOK, ReceiveEnd, workerVars, Connected
  <1>2. HandoffInv /\ DropDecoder => HandoffInv'
    BY DEF HandoffInv, HandoffTypeOK, DropDecoder, workerVars, Connected
  <1>3. HandoffInv /\ DropReturns => HandoffInv'
    BY DEF HandoffInv, HandoffTypeOK, DropReturns, workerVars, Connected
  <1> QED
    BY <1>1, <1>2, <1>3

LEMMA HandoffStutters == HandoffInv /\ UNCHANGED handoffVars => HandoffInv'
  BY DEF HandoffInv, HandoffTypeOK, handoffVars, Connected

LEMMA HandoffInvStrong == HandoffInv => HandoffTypeOK /\ HandoffKeepsPace
  <1> SUFFICES ASSUME HandoffInv PROVE HandoffTypeOK /\ HandoffKeepsPace
    OBVIOUS
  <1>1. got \in Seq(Items) /\ got \o <<>> = got /\ got \o <<>> \o <<>> = got
    BY ConcatEmptySeq DEF HandoffInv, HandoffTypeOK, Items
  <1>2. SourceReadOnDemand
    BY <1>1 DEF HandoffInv, SourceReadOnDemand, Connected
  <1>3. ItemsInOrder
    BY <1>1 DEF HandoffInv, ItemsInOrder, Connected
  <1> QED
    BY <1>2, <1>3 DEF HandoffInv, HandoffKeepsPace

LEMMA HandoffInvariant == HandoffSpec => []HandoffInv
  <1>1. HandoffInv /\ [HandoffNext]_handoffVars => HandoffInv'
    BY EmitKeeps, DemandKeeps, ReadKeeps, EndKeeps, SendFailsKeeps, NextKeeps, TakeKeeps, EndsKeep, HandoffStutters
    DEF HandoffNext, Work
  <1> QED
    BY <1>1, HandoffInitEstablishes, PTL DEF HandoffSpec

\* The state of worker and consumer is of its type (EventDecoder, ChannelSink).
THEOREM HandoffTyped == HandoffSpec => []HandoffTypeOK
  BY HandoffInvariant, HandoffInvStrong, PTL

\* FlushingReader reads from the source only while next waits and has
\* returned everything; items come in order, at most one batch ahead.
THEOREM HandoffKeptPace == HandoffSpec => []HandoffKeepsPace
  BY HandoffInvariant, HandoffInvStrong, PTL

-------------------------------------------------------------------------------
(* Replacing a file. *)

\* What is renamed over the file was synced; what is moved aside was the file.
ReadyToRename == {"renaming", "clearing", "parking", "replacing"}
Synced == \A p \in Pids : pc[p] \in ReadyToRename => Temp(p) = "whole"
ParkedWhole == \A p \in Pids : /\ parked[p] \in {"none", "whole"}
                               /\ Swapping(p) => parked[p] = "whole"

OnlyOnWindows == {"clearing", "parking", "replacing", "restoring", "unparking"}
SwapsOnWindows == \A p \in Pids : pc[p] \in OnlyOnWindows => kind = "windows upgrade"

\* Whoever moved the file aside is in the middle of it or gone, and no one begins.
Aside(p) == parked[p] = "whole" /\ pc[p] \in {"replacing", "restoring", "idle"}
FileOrParked ==
  /\ file \in {"none", "whole"}
  /\ file = "none" => /\ kind = "windows upgrade"
                      /\ broken \/ \E p \in Pids : Swapping(p)
                      /\ \E p \in Pids : Aside(p)

InPlaceInv == InPlaceTypeOK /\ Synced /\ ParkedWhole /\ SwapsOnWindows /\ FileOrParked

-----------------------------------------------------------------------------
LEMMA FirstAttempt == 0 \in Attempts
BY InPlaceAssumption DEF Attempts

LEMMA InvInit == InPlaceInit => InPlaceInv
<1> SUFFICES ASSUME InPlaceInit PROVE InPlaceInv
  OBVIOUS
<1>1. InPlaceTypeOK
  BY FirstAttempt DEF InPlaceInit, InPlaceTypeOK, Files, Steps
<1>2. Synced /\ ParkedWhole /\ SwapsOnWindows /\ FileOrParked
  BY DEF InPlaceInit, Synced, ReadyToRename, ParkedWhole, Swapping, SwapsOnWindows, OnlyOnWindows, FileOrParked
<1> QED BY <1>1, <1>2 DEF InPlaceInv

-----------------------------------------------------------------------------
\* A process that writes its temporary file leaves the others' alone.
LEMMA TempSet ==
  ASSUME InPlaceTypeOK, NEW p \in Pids, NEW content \in Files, SetTemp(p, content), UNCHANGED attempt
  PROVE  /\ temp' \in [Pids -> [Attempts -> Files]]
         /\ Temp(p)' = content
         /\ \A q \in Pids \ {p} : Temp(q)' = Temp(q)
<1>1. temp' = [temp EXCEPT ![p] = [temp[p] EXCEPT ![attempt[p]] = content]]
  BY DEF SetTemp, InPlaceTypeOK
<1>2. temp[p] \in [Attempts -> Files] /\ attempt[p] \in Attempts
  BY DEF InPlaceTypeOK
<1>3. [temp[p] EXCEPT ![attempt[p]] = content] \in [Attempts -> Files]
  BY <1>2
<1> QED BY <1>1, <1>2, <1>3 DEF InPlaceTypeOK, Temp

LEMMA TempTyped == ASSUME InPlaceTypeOK, NEW p \in Pids PROVE Temp(p) \in Files
BY DEF InPlaceTypeOK, Temp

\* Steps that leave the file and what is parked alone, and take nobody into or
\* out of the moment without the file.
Quiet(p, step) ==
  /\ Advance(p, step)
  /\ ~Swapping(p) /\ step \notin {"replacing", "restoring"}
  /\ step \in OnlyOnWindows => kind = "windows upgrade"
  /\ pc[p] = "idle" => file # "none"
  /\ UNCHANGED <<kind, file, parked, broken>>

LEMMA QuietKeeps ==
  ASSUME InPlaceInv, NEW p \in Pids, NEW step \in Steps, Quiet(p, step)
  PROVE  /\ pc' \in [Pids -> Steps]
         /\ ParkedWhole' /\ SwapsOnWindows' /\ FileOrParked'
<1>1. /\ pc' = [pc EXCEPT ![p] = step]
      /\ pc \in [Pids -> Steps]
      /\ UNCHANGED <<kind, file, parked, broken>>
  BY DEF Quiet, Advance, InPlaceInv, InPlaceTypeOK
<1>2. ParkedWhole'
  BY <1>1 DEF Quiet, InPlaceInv, ParkedWhole, Swapping
<1>3. SwapsOnWindows'
  BY <1>1 DEF Quiet, InPlaceInv, SwapsOnWindows
<1>4. FileOrParked'
  <2>1. file = "none" => pc[p] \notin {"replacing", "restoring", "idle"}
    BY DEF Quiet, Swapping
  <2>2. \A q \in Pids : Aside(q) /\ file = "none" => Aside(q)'
    BY <1>1, <2>1 DEF Aside
  <2>3. \A q \in Pids : Swapping(q) /\ file = "none" => Swapping(q)'
    BY <1>1, <2>1 DEF Swapping
  <2> QED BY <1>1, <2>2, <2>3 DEF InPlaceInv, FileOrParked
<1> QED BY <1>1, <1>2, <1>3, <1>4

LEMMA BeginKeeps == ASSUME InPlaceInv, NEW p \in Pids, Begin(p) PROVE InPlaceInv'
<1>1. "creating" \in Steps /\ Quiet(p, "creating")
  BY DEF Begin, Quiet, Swapping, OnlyOnWindows, Steps
<1>2. attempt' \in [Pids -> Attempts]
  BY FirstAttempt DEF Begin, InPlaceInv, InPlaceTypeOK
<1>3. Synced'
  BY DEF Begin, Advance, InPlaceInv, InPlaceTypeOK, Synced, ReadyToRename, Temp
<1> QED BY <1>1, <1>2, <1>3, QuietKeeps DEF Begin, InPlaceInv, InPlaceTypeOK

LEMMA CreateKeeps == ASSUME InPlaceInv, NEW p \in Pids, Create(p) PROVE InPlaceInv'
<1>1. "writing" \in Steps /\ Quiet(p, "writing")
  BY DEF Create, Quiet, Swapping, OnlyOnWindows, Steps
<1>2. "partial" \in Files /\ InPlaceTypeOK
  BY DEF Files, InPlaceInv
<1>3. /\ temp' \in [Pids -> [Attempts -> Files]]
      /\ \A q \in Pids \ {p} : Temp(q)' = Temp(q)
  BY <1>2, TempSet DEF Create
<1>4. Synced'
  BY <1>2, <1>3 DEF Create, Advance, InPlaceInv, InPlaceTypeOK, Synced, ReadyToRename
<1> QED BY <1>1, <1>3, <1>4, QuietKeeps DEF Create, InPlaceInv, InPlaceTypeOK

LEMMA NameTakenKeeps == ASSUME InPlaceInv, NEW p \in Pids, NameTaken(p) PROVE InPlaceInv'
<1>1. PICK step \in {"creating", "idle"} :
        /\ Advance(p, step)
        /\ attempt' = attempt \/ (step = "creating" /\ attempt' = [attempt EXCEPT ![p] = @ + 1] /\ attempt[p] + 1 < MaxAttempts)
  BY DEF NameTaken, Advance, InPlaceInv, InPlaceTypeOK
<1>2. step \in Steps /\ Quiet(p, step)
  BY <1>1 DEF NameTaken, Quiet, Swapping, OnlyOnWindows, Steps
<1>3. attempt' \in [Pids -> Attempts]
  <2>1. attempt \in [Pids -> Attempts] /\ attempt[p] \in Attempts
    BY DEF InPlaceInv, InPlaceTypeOK
  <2>2. attempt[p] + 1 < MaxAttempts => attempt[p] + 1 \in Attempts
    BY <2>1, InPlaceAssumption DEF Attempts
  <2> QED BY <1>1, <2>1, <2>2
<1>4. Synced'
  BY <1>1 DEF NameTaken, Advance, InPlaceInv, InPlaceTypeOK, Synced, ReadyToRename, Temp
<1> QED BY <1>2, <1>3, <1>4, QuietKeeps DEF NameTaken, InPlaceInv, InPlaceTypeOK

LEMMA WriteTempKeeps == ASSUME InPlaceInv, NEW p \in Pids, WriteTemp(p) PROVE InPlaceInv'
<1>1. "syncing" \in Steps /\ Quiet(p, "syncing")
  BY DEF WriteTemp, Quiet, Swapping, OnlyOnWindows, Steps
<1>2. "written" \in Files /\ InPlaceTypeOK
  BY DEF Files, InPlaceInv
<1>3. /\ temp' \in [Pids -> [Attempts -> Files]]
      /\ \A q \in Pids \ {p} : Temp(q)' = Temp(q)
  BY <1>2, TempSet DEF WriteTemp
<1>4. Synced'
  BY <1>2, <1>3 DEF WriteTemp, Advance, InPlaceInv, InPlaceTypeOK, Synced, ReadyToRename
<1> QED BY <1>1, <1>3, <1>4, QuietKeeps DEF WriteTemp, InPlaceInv, InPlaceTypeOK

LEMMA SyncKeeps == ASSUME InPlaceInv, NEW p \in Pids, sync_all(p) PROVE InPlaceInv'
<1>1. PICK step \in {"clearing", "renaming"} :
        Advance(p, step) /\ (step = "clearing" => kind = "windows upgrade")
  BY DEF sync_all
<1>2. step \in Steps /\ Quiet(p, step)
  BY <1>1 DEF sync_all, Quiet, Swapping, OnlyOnWindows, Steps
<1>3. "whole" \in Files /\ InPlaceTypeOK
  BY DEF Files, InPlaceInv
<1>4. /\ temp' \in [Pids -> [Attempts -> Files]]
      /\ Temp(p)' = "whole"
      /\ \A q \in Pids \ {p} : Temp(q)' = Temp(q)
  BY <1>3, TempSet DEF sync_all
<1>5. Synced'
  BY <1>1, <1>3, <1>4 DEF Advance, InPlaceInv, InPlaceTypeOK, Synced, ReadyToRename
<1> QED BY <1>2, <1>4, <1>5, QuietKeeps DEF sync_all, InPlaceInv, InPlaceTypeOK

\* Giving up before the file was moved aside.
LEMMA AbandonKeeps ==
  ASSUME InPlaceInv, NEW p \in Pids, pc[p] # "idle", ~Swapping(p), Abandon(p),
         UNCHANGED <<kind, file, parked, attempt, broken>>
  PROVE  InPlaceInv'
<1>1. "idle" \in Steps /\ Quiet(p, "idle")
  BY DEF Abandon, Quiet, OnlyOnWindows, Steps
<1>2. PICK content \in Files : SetTemp(p, content)
  BY TempTyped DEF Abandon, Files, InPlaceInv
<1>3. /\ temp' \in [Pids -> [Attempts -> Files]]
      /\ \A q \in Pids \ {p} : Temp(q)' = Temp(q)
  BY <1>2, TempSet DEF InPlaceInv
<1>4. Synced'
  BY <1>3 DEF Abandon, Advance, InPlaceInv, InPlaceTypeOK, Synced, ReadyToRename
<1> QED BY <1>1, <1>3, <1>4, QuietKeeps DEF InPlaceInv, InPlaceTypeOK

LEMMA WriteFailsKeeps == ASSUME InPlaceInv, NEW p \in Pids, WriteFails(p) PROVE InPlaceInv'
<1>1. CASE Abandon(p)
  BY <1>1, AbandonKeeps DEF WriteFails, Swapping
<1>2. CASE Advance(p, "idle") /\ UNCHANGED temp
  <2>1. "idle" \in Steps /\ Quiet(p, "idle")
    BY <1>2 DEF WriteFails, Quiet, Swapping, OnlyOnWindows, Steps
  <2>2. Synced'
    BY <1>2 DEF WriteFails, Advance, InPlaceInv, InPlaceTypeOK, Synced, ReadyToRename, Temp
  <2> QED BY <1>2, <2>1, <2>2, QuietKeeps DEF WriteFails, InPlaceInv, InPlaceTypeOK
<1> QED BY <1>1, <1>2 DEF WriteFails

LEMMA RenameKeeps == ASSUME InPlaceInv, NEW p \in Pids, Rename(p) PROVE InPlaceInv'
<1>1. file' = "whole"
  BY DEF Rename, InPlaceInv, Synced, ReadyToRename
<1>2. pc' = [pc EXCEPT ![p] = "idle"] /\ pc \in [Pids -> Steps] /\ UNCHANGED <<kind, parked, attempt, broken>>
  BY DEF Rename, Advance, InPlaceInv, InPlaceTypeOK
<1>3. /\ temp' \in [Pids -> [Attempts -> Files]]
      /\ \A q \in Pids \ {p} : Temp(q)' = Temp(q)
  BY TempSet DEF Rename, Files, InPlaceInv
<1>4. InPlaceTypeOK'
  BY <1>1, <1>2, <1>3 DEF InPlaceInv, InPlaceTypeOK, Files, Steps
<1>5. Synced'
  BY <1>2, <1>3 DEF InPlaceInv, Synced, ReadyToRename
<1>6. ParkedWhole' /\ SwapsOnWindows' /\ FileOrParked'
  BY <1>1, <1>2 DEF InPlaceInv, ParkedWhole, Swapping, SwapsOnWindows, OnlyOnWindows, FileOrParked
<1> QED BY <1>4, <1>5, <1>6 DEF InPlaceInv

-----------------------------------------------------------------------------
\* Removing what a process parked, while it did not move the file aside.
LEMMA ClearedKeeps ==
  ASSUME InPlaceInv, NEW p \in Pids, NEW step \in {"parking", "idle"},
         pc[p] \in {"clearing", "unparking"},
         step = "parking" => pc[p] = "clearing",
         NEW content \in {"none", parked[p]}, parked' = [parked EXCEPT ![p] = content],
         Advance(p, step), UNCHANGED <<kind, file, temp, attempt, broken>>
  PROVE  InPlaceInv'
<1>1. pc' = [pc EXCEPT ![p] = step] /\ pc \in [Pids -> Steps] /\ parked \in [Pids -> Files]
  BY DEF Advance, InPlaceInv, InPlaceTypeOK
<1>2. InPlaceTypeOK'
  BY <1>1 DEF InPlaceInv, InPlaceTypeOK, Files, Steps
<1>3. Synced'
  BY <1>1 DEF InPlaceInv, Synced, ReadyToRename, Temp
<1>4. ParkedWhole'
  BY <1>1 DEF InPlaceInv, ParkedWhole, Swapping
<1>5. SwapsOnWindows'
  BY <1>1 DEF InPlaceInv, SwapsOnWindows, OnlyOnWindows
<1>6. FileOrParked'
  <2>1. \A q \in Pids : Aside(q) => Aside(q)'
    BY <1>1 DEF Aside
  <2>2. \A q \in Pids : Swapping(q) => Swapping(q)'
    BY <1>1 DEF Swapping
  <2> QED BY <2>1, <2>2 DEF InPlaceInv, FileOrParked
<1> QED BY <1>2, <1>3, <1>4, <1>5, <1>6 DEF InPlaceInv

LEMMA ParkKeeps == ASSUME InPlaceInv, NEW p \in Pids, Park(p) PROVE InPlaceInv'
<1>1. /\ file = "whole" /\ kind = "windows upgrade" /\ Temp(p) = "whole"
      /\ file' = "none" /\ parked' = [parked EXCEPT ![p] = "whole"]
      /\ pc' = [pc EXCEPT ![p] = "replacing"]
      /\ UNCHANGED <<kind, temp, attempt, broken>>
  BY DEF Park, Advance, InPlaceInv, FileOrParked, SwapsOnWindows, OnlyOnWindows, Synced, ReadyToRename
<1>2. pc \in [Pids -> Steps] /\ parked \in [Pids -> Files]
  BY DEF InPlaceInv, InPlaceTypeOK
<1>3. InPlaceTypeOK'
  BY <1>1, <1>2 DEF InPlaceInv, InPlaceTypeOK, Files, Steps
<1>4. Synced' /\ SwapsOnWindows'
  BY <1>1, <1>2 DEF InPlaceInv, Synced, ReadyToRename, Temp, SwapsOnWindows
<1>5. ParkedWhole'
  BY <1>1, <1>2 DEF InPlaceInv, ParkedWhole, Swapping
<1>6. Aside(p)' /\ Swapping(p)'
  BY <1>1, <1>2 DEF Aside, Swapping
<1>7. FileOrParked'
  BY <1>1, <1>6 DEF FileOrParked
<1> QED BY <1>3, <1>4, <1>5, <1>7 DEF InPlaceInv

LEMMA ReplaceKeeps == ASSUME InPlaceInv, NEW p \in Pids, Replace(p) PROVE InPlaceInv'
<1>1. file' = "whole" /\ kind = "windows upgrade"
  BY DEF Replace, InPlaceInv, Synced, ReadyToRename, SwapsOnWindows, OnlyOnWindows
<1>2. pc' = [pc EXCEPT ![p] = "unparking"] /\ pc \in [Pids -> Steps] /\ UNCHANGED <<kind, parked, attempt, broken>>
  BY DEF Replace, Advance, InPlaceInv, InPlaceTypeOK
<1>3. /\ temp' \in [Pids -> [Attempts -> Files]]
      /\ \A q \in Pids \ {p} : Temp(q)' = Temp(q)
  BY TempSet DEF Replace, Files, InPlaceInv
<1>4. InPlaceTypeOK'
  BY <1>1, <1>2, <1>3 DEF InPlaceInv, InPlaceTypeOK, Files, Steps
<1>5. Synced'
  BY <1>2, <1>3 DEF InPlaceInv, Synced, ReadyToRename
<1>6. ParkedWhole' /\ SwapsOnWindows' /\ FileOrParked'
  BY <1>1, <1>2 DEF InPlaceInv, ParkedWhole, Swapping, SwapsOnWindows, OnlyOnWindows, FileOrParked
<1> QED BY <1>4, <1>5, <1>6 DEF InPlaceInv

LEMMA ReplaceFailsKeeps == ASSUME InPlaceInv, NEW p \in Pids, ReplaceFails(p) PROVE InPlaceInv'
<1>1. /\ pc[p] = "replacing" /\ pc' = [pc EXCEPT ![p] = "restoring"] /\ pc \in [Pids -> Steps]
      /\ UNCHANGED <<kind, file, temp, parked, attempt, broken>>
  BY DEF ReplaceFails, Advance, InPlaceInv, InPlaceTypeOK
<1>2. InPlaceTypeOK'
  BY <1>1 DEF InPlaceInv, InPlaceTypeOK, Steps
<1>3. Synced' /\ ParkedWhole' /\ SwapsOnWindows'
  BY <1>1 DEF InPlaceInv, Synced, ReadyToRename, Temp, ParkedWhole, Swapping, SwapsOnWindows, OnlyOnWindows
<1>4. FileOrParked'
  <2>1. \A q \in Pids : (Aside(q) => Aside(q)') /\ (Swapping(q) => Swapping(q)')
    BY <1>1 DEF Aside, Swapping
  <2> QED BY <1>1, <2>1 DEF InPlaceInv, FileOrParked
<1> QED BY <1>2, <1>3, <1>4 DEF InPlaceInv

LEMMA RestoreKeeps == ASSUME InPlaceInv, NEW p \in Pids, Restore(p) PROVE InPlaceInv'
<1>1. file' = "whole" /\ parked' = [parked EXCEPT ![p] = "none"]
  BY DEF Restore, InPlaceInv, ParkedWhole, Swapping
<1>2. /\ pc' = [pc EXCEPT ![p] = "idle"] /\ pc \in [Pids -> Steps] /\ parked \in [Pids -> Files]
      /\ UNCHANGED <<kind, attempt, broken>>
  BY DEF Restore, Abandon, Advance, InPlaceInv, InPlaceTypeOK
<1>3. PICK content \in Files : SetTemp(p, content)
  BY TempTyped DEF Restore, Abandon, Files, InPlaceInv
<1>4. /\ temp' \in [Pids -> [Attempts -> Files]]
      /\ \A q \in Pids \ {p} : Temp(q)' = Temp(q)
  BY <1>2, <1>3, TempSet DEF InPlaceInv
<1>5. InPlaceTypeOK'
  BY <1>1, <1>2, <1>4 DEF InPlaceInv, InPlaceTypeOK, Files, Steps
<1>6. Synced'
  BY <1>2, <1>4 DEF InPlaceInv, Synced, ReadyToRename
<1>7. ParkedWhole' /\ SwapsOnWindows' /\ FileOrParked'
  BY <1>1, <1>2 DEF InPlaceInv, ParkedWhole, Swapping, SwapsOnWindows, OnlyOnWindows, FileOrParked
<1> QED BY <1>5, <1>6, <1>7 DEF InPlaceInv

\* A process that ends, with the old program still parked.
LEMMA EndsKeeps ==
  ASSUME InPlaceInv, NEW p \in Pids, Advance(p, "idle"), UNCHANGED <<kind, file, parked, attempt>>,
         temp' \in [Pids -> [Attempts -> Files]],
         \A q \in Pids \ {p} : Temp(q)' = Temp(q),
         pc[p] # "idle", broken' \in BOOLEAN, broken => broken', Swapping(p) => broken'
  PROVE  InPlaceInv'
<1>1. pc' = [pc EXCEPT ![p] = "idle"] /\ pc \in [Pids -> Steps]
  BY DEF Advance, InPlaceInv, InPlaceTypeOK
<1>2. InPlaceTypeOK'
  BY <1>1 DEF InPlaceInv, InPlaceTypeOK, Steps
<1>3. Synced'
  BY <1>1 DEF InPlaceInv, Synced, ReadyToRename
<1>4. ParkedWhole' /\ SwapsOnWindows'
  BY <1>1 DEF InPlaceInv, ParkedWhole, Swapping, SwapsOnWindows, OnlyOnWindows
<1>5. FileOrParked'
  <2>1. \A q \in Pids : Aside(q) => Aside(q)'
    BY <1>1 DEF Aside
  <2>2. \A q \in Pids : Swapping(q) => Swapping(q)' \/ broken'
    BY <1>1 DEF Swapping
  <2> QED BY <2>1, <2>2 DEF InPlaceInv, FileOrParked
<1> QED BY <1>2, <1>3, <1>4, <1>5 DEF InPlaceInv

LEMMA RestoreFailsKeeps == ASSUME InPlaceInv, NEW p \in Pids, RestoreFails(p) PROVE InPlaceInv'
<1>1. PICK content \in Files : SetTemp(p, content)
  BY TempTyped DEF RestoreFails, Abandon, Files, InPlaceInv
<1>2. /\ temp' \in [Pids -> [Attempts -> Files]]
      /\ \A q \in Pids \ {p} : Temp(q)' = Temp(q)
  BY <1>1, TempSet DEF RestoreFails, InPlaceInv
<1> QED BY <1>2, EndsKeeps DEF RestoreFails, Abandon, Swapping

LEMMA CrashKeeps == ASSUME InPlaceInv, NEW p \in Pids, Crash(p) PROVE InPlaceInv'
<1>1. temp' \in [Pids -> [Attempts -> Files]] /\ \A q \in Pids : Temp(q)' = Temp(q)
  BY DEF Crash, Temp, InPlaceInv, InPlaceTypeOK
<1>2. broken' \in BOOLEAN /\ (broken => broken') /\ (Swapping(p) => broken')
  BY DEF Crash, Swapping, InPlaceInv, InPlaceTypeOK
<1> QED BY <1>1, <1>2, EndsKeeps DEF Crash

LEMMA PowerLossKeeps == ASSUME InPlaceInv, PowerLoss PROVE InPlaceInv'
<1>1. /\ pc' = [q \in Pids |-> "idle"] /\ UNCHANGED <<kind, attempt>>
      /\ file' = file
  BY DEF PowerLoss, Ruined, InPlaceInv, FileOrParked
<1>2. \A content \in Files : Ruined(content) \in Files
  BY DEF Ruined, Files
<1>3. parked' \in [Pids -> Files] /\ \A q \in Pids : parked'[q] = parked[q]
  BY <1>2 DEF PowerLoss, Ruined, InPlaceInv, InPlaceTypeOK, ParkedWhole
<1>4. temp' \in [Pids -> [Attempts -> Files]]
  BY <1>2 DEF PowerLoss, InPlaceInv, InPlaceTypeOK
<1>5. broken' \in BOOLEAN /\ (broken => broken') /\ \A q \in Pids : Swapping(q) => broken'
  BY DEF PowerLoss, InPlaceInv, InPlaceTypeOK
<1>6. InPlaceTypeOK'
  BY <1>1, <1>3, <1>4, <1>5 DEF InPlaceInv, InPlaceTypeOK, Steps
<1>7. Synced' /\ SwapsOnWindows'
  BY <1>1 DEF Synced, ReadyToRename, SwapsOnWindows, OnlyOnWindows
<1>8. ParkedWhole'
  BY <1>1, <1>3 DEF InPlaceInv, ParkedWhole, Swapping
<1>9. FileOrParked'
  <2>1. \A q \in Pids : Aside(q) => Aside(q)'
    BY <1>1, <1>3 DEF Aside
  <2> QED BY <1>1, <1>5, <2>1 DEF InPlaceInv, FileOrParked
<1> QED BY <1>6, <1>7, <1>8, <1>9 DEF InPlaceInv

-----------------------------------------------------------------------------
LEMMA InvStep == ASSUME InPlaceInv, [InPlaceNext]_inPlaceVars PROVE InPlaceInv'
<1>1. ASSUME NEW p \in Pids, WriteStep(p) PROVE InPlaceInv'
  BY <1>1, BeginKeeps, CreateKeeps, NameTakenKeeps, WriteTempKeeps, SyncKeeps, WriteFailsKeeps DEF WriteStep
<1>2. ASSUME NEW p \in Pids, RenameStep(p) PROVE InPlaceInv'
  BY <1>2, RenameKeeps, AbandonKeeps DEF RenameStep, RenameFails, Swapping
<1>3. ASSUME NEW p \in Pids, SwapStep(p) PROVE InPlaceInv'
  <2>1. CASE ClearParked(p)
    BY <2>1, ClearedKeeps DEF ClearParked
  <2>2. CASE Unpark(p)
    BY <2>2, ClearedKeeps DEF Unpark
  <2>3. CASE ParkFails(p)
    BY <2>3, AbandonKeeps DEF ParkFails, Swapping
  <2> QED BY <1>3, <2>1, <2>2, <2>3, ParkKeeps, ReplaceKeeps, ReplaceFailsKeeps, RestoreKeeps, RestoreFailsKeeps
          DEF SwapStep
<1>4. CASE UNCHANGED inPlaceVars
  BY <1>4 DEF inPlaceVars, InPlaceInv, InPlaceTypeOK, Synced, Temp, ParkedWhole, Swapping, SwapsOnWindows,
              FileOrParked, Aside
<1> QED BY <1>1, <1>2, <1>3, <1>4, CrashKeeps, PowerLossKeeps DEF InPlaceNext

LEMMA InvAlways == InPlaceSpec => []InPlaceInv
BY InvInit, InvStep, PTL DEF InPlaceSpec

\* The variables keep their types, whatever fails or dies.
THEOREM InPlaceTyped == InPlaceSpec => []InPlaceTypeOK
<1>1. InPlaceInv => InPlaceTypeOK
  BY DEF InPlaceInv
<1> QED BY <1>1, InvAlways, PTL

\* toonl_trim.rs, upgrade.rs: whatever runs at the same time, fails, dies or loses
\* power, the file is complete or its old version is parked beside it.
THEOREM FileStaysWholeAlways == InPlaceSpec => []FileStaysWhole
<1>1. InPlaceInv => FileStaysWhole
  BY DEF InPlaceInv, FileOrParked, Aside, FileStaysWhole
<1> QED BY <1>1, InvAlways, PTL

-----------------------------------------------------------------------------
(* The bytes of server-sent events. *)

\* A line without the CR it ends with.
LEMMA StripCRIs ==
  ASSUME NEW line \in Texts
  PROVE  StripCR(line) \in Texts /\ Len(StripCR(line)) <= Len(line)
BY DEF StripCR, Front, Texts

LEMMA TakeByteIs ==
  ASSUME NEW p \in Parsers, NEW byte \in TextBytes
  PROVE  LET q == TakeByte(p, byte)
         IN  /\ q \in Parsers /\ q.failed = p.failed
             /\ HeldByRust(p) \in Nat /\ HeldByRust(q) \in Nat
             /\ HeldByRust(q) <= HeldByRust(p) + 1
             /\ q.events = p.events \/ (p.hasData /\ q.events = Append(p.events, p.data))
             /\ byte # LF => q.hasData = p.hasData /\ q.data = p.data
             /\ byte = LF => q.buffer = <<>>
<1> DEFINE q == TakeByte(p, byte)
           Good == /\ q \in Parsers /\ q.failed = p.failed
                   /\ HeldByRust(p) \in Nat /\ HeldByRust(q) \in Nat
                   /\ HeldByRust(q) <= HeldByRust(p) + 1
                   /\ q.events = p.events \/ (p.hasData /\ q.events = Append(p.events, p.data))
                   /\ byte # LF => q.hasData = p.hasData /\ q.data = p.data
                   /\ byte = LF => q.buffer = <<>>
<1>1. /\ p.buffer \in Texts /\ p.data \in Texts /\ p.events \in Seq(Texts)
      /\ p.hasData \in BOOLEAN /\ p.failed \in BOOLEAN
      /\ p = [buffer |-> p.buffer, hasData |-> p.hasData, data |-> p.data,
              events |-> p.events, failed |-> p.failed]
  BY DEF Parsers
<1>2. Len(p.buffer) \in Nat /\ Len(p.data) \in Nat /\ <<>> \in Texts /\ Len(<<>>) = 0
  BY <1>1 DEF Texts
<1> DEFINE m == Len(p.data)
           n == Len(p.buffer)
<1>a. m \in Nat /\ n \in Nat /\ HeldByRust(p) = m + n
  BY <1>2 DEF HeldByRust
<1>3. ASSUME byte # LF PROVE Good
  <2>1. Append(p.buffer, byte) \in Texts /\ Len(Append(p.buffer, byte)) = Len(p.buffer) + 1
    BY <1>1 DEF Texts
  <2>2. q = [p EXCEPT !.buffer = Append(@, byte)]
    BY <1>3 DEF TakeByte
  <2> HIDE DEF q
  <2>3. /\ q.buffer = Append(p.buffer, byte) /\ q.hasData = p.hasData /\ q.data = p.data
        /\ q.events = p.events /\ q.failed = p.failed /\ q \in Parsers
    BY <1>1, <2>1, <2>2 DEF Parsers
  <2>4. HeldByRust(q) = m + (n + 1)
    BY <2>1, <2>3 DEF HeldByRust
  <2> HIDE DEF m, n
  <2>5. HeldByRust(p) \in Nat /\ HeldByRust(q) \in Nat /\ HeldByRust(q) <= HeldByRust(p) + 1
    BY <1>a, <2>4
  <2> QED BY <1>3, <2>3, <2>5
<1>4. ASSUME byte = LF PROVE Good
  <2> DEFINE line == StripCR(p.buffer)
             s == [p EXCEPT !.buffer = <<>>]
  <2>1. line \in Texts /\ Len(line) <= Len(p.buffer) /\ Len(line) \in Nat
    BY <1>1, StripCRIs DEF Texts
  <2>2. /\ s \in Parsers /\ s.buffer = <<>> /\ s.hasData = p.hasData /\ s.data = p.data
        /\ s.events = p.events /\ s.failed = p.failed
    BY <1>1, <1>2 DEF Parsers
  <2>3. q = ProcessLine(s, line)
    BY <1>4 DEF TakeByte
  <2> HIDE DEF line, s, q
  <2>4. CASE line = <<>>
    <3>1. /\ q.buffer = <<>> /\ q.data = <<>> /\ q.failed = p.failed /\ q.hasData = FALSE
          /\ q.events = IF p.hasData THEN Append(p.events, p.data) ELSE p.events
          /\ q = [buffer |-> q.buffer, hasData |-> q.hasData, data |-> q.data,
                  events |-> q.events, failed |-> q.failed]
      BY <2>2, <2>3, <2>4 DEF ProcessLine, Parsers
    <3>2. q.events \in Seq(Texts)
      BY <1>1, <3>1
    <3>3. q \in Parsers
      BY <1>1, <1>2, <3>1, <3>2 DEF Parsers
    <3>4. HeldByRust(q) = 0
      BY <1>2, <3>1 DEF HeldByRust
    <3> HIDE DEF m, n
    <3>5. HeldByRust(p) \in Nat /\ HeldByRust(q) \in Nat /\ HeldByRust(q) <= HeldByRust(p) + 1
      BY <1>a, <3>4
    <3> QED BY <1>4, <3>1, <3>3, <3>5
  <2>5. CASE line # <<>> /\ Head(line) # DATA
    <3>1. q = s
      BY <2>3, <2>5 DEF ProcessLine
    <3>2. HeldByRust(q) = m
      <4>1. q.data = p.data /\ q.buffer = <<>>
        BY <2>2, <3>1
      <4> QED BY <1>a, <1>2, <4>1 DEF HeldByRust
    <3> HIDE DEF m, n
    <3>3. HeldByRust(p) \in Nat /\ HeldByRust(q) \in Nat /\ HeldByRust(q) <= HeldByRust(p) + 1
      BY <1>a, <3>2
    <3> QED BY <1>4, <2>2, <3>1, <3>3
  <2>6. CASE line # <<>> /\ Head(line) = DATA
    <3> DEFINE d == IF p.hasData THEN p.data \o <<LF>> \o Tail(line) ELSE Tail(line)
    <3>1. q = [s EXCEPT !.hasData = TRUE, !.data = d]
      BY <2>2, <2>3, <2>6 DEF ProcessLine
    <3>2. Tail(line) \in Texts /\ Len(Tail(line)) = Len(line) - 1
      BY <2>1, <2>6 DEF Texts
    <3>3. d \in Texts /\ Len(d) <= Len(p.data) + Len(line) /\ Len(d) \in Nat
      <4>1. <<LF>> \in Texts /\ Len(<<LF>>) = 1
        BY DEF Texts, TextBytes
      <4>2. /\ p.data \o <<LF>> \in Texts /\ Len(p.data \o <<LF>>) = Len(p.data) + 1
        BY <1>1, <4>1, ConcatShape DEF Texts
      <4>3. /\ p.data \o <<LF>> \o Tail(line) \in Texts
            /\ Len(p.data \o <<LF>> \o Tail(line)) = (Len(p.data) + 1) + (Len(line) - 1)
        BY <3>2, <4>2, ConcatShape DEF Texts
      <4>4. Len(Tail(line)) \in Nat /\ Len(line) \in Nat /\ m \in Nat
        BY <1>a, <2>1, <3>2 DEF Texts
      <4>5. CASE p.hasData
        <5> DEFINE joined == p.data \o <<LF>> \o Tail(line)
        <5>1. d = joined
          BY <4>5
        <5>2. joined \in Texts /\ Len(joined) = (m + 1) + (Len(line) - 1)
          BY <4>3
        <5> HIDE DEF d, joined, m
        <5>3. Len(joined) = m + Len(line)
          BY <4>4, <5>2
        <5> QED BY <4>4, <5>1, <5>2, <5>3 DEF m
      <4>6. CASE ~p.hasData
        <5>1. d = Tail(line)
          BY <4>6
        <5> HIDE DEF d
        <5> QED BY <3>2, <4>4, <5>1
      <4> QED BY <4>5, <4>6
    <3> HIDE DEF d
    <3>4. /\ q.buffer = <<>> /\ q.data = d /\ q.hasData = TRUE /\ q.events = p.events
          /\ q.failed = p.failed /\ q \in Parsers
      BY <1>1, <1>2, <2>2, <3>1, <3>3 DEF Parsers
    <3>5. HeldByRust(q) = Len(d)
      BY <1>2, <3>3, <3>4 DEF HeldByRust
    <3>6. Len(d) \in Nat /\ Len(d) <= m + Len(line) /\ Len(line) <= n /\ Len(line) \in Nat
      BY <2>1, <3>3
    <3> HIDE DEF m, n
    <3>7. HeldByRust(p) \in Nat /\ HeldByRust(q) \in Nat /\ HeldByRust(q) <= HeldByRust(p) + 1
      BY <1>a, <3>5, <3>6
    <3> QED BY <1>4, <3>4, <3>7
  <2> QED BY <2>4, <2>5, <2>6
<1> QED BY <1>3, <1>4

\* The loop of a parser: its states behind each byte.
LEMMA TakeBytesLoop ==
  ASSUME NEW p \in Parsers, NEW b \in Texts
  PROVE  \E f \in [0..Len(b) -> Parsers] :
           /\ f[0] = p
           /\ \A i \in 1..Len(b) : f[i] = TakeByte(f[i - 1], b[i])
           /\ TakeBytes(p, b) = f[Len(b)]
<1> DEFINE n == Len(b)
           body == [i \in 1..n |-> [v \in Parsers |-> TakeByte(v, b[i])]]
           f == CHOOSE f : f = [i \in 0..n |-> IF i = 0 THEN p ELSE TakeByte(f[i - 1], b[i])]
<1>0. n \in Nat /\ \A i \in 1..n : b[i] \in TextBytes
  BY DEF Texts
<1> HIDE DEF n
<1>1. body \in [1..n -> [Parsers -> Parsers]]
  <2>1. ASSUME NEW i \in 1..n, NEW v \in Parsers PROVE TakeByte(v, b[i]) \in Parsers
    BY <1>0, TakeByteIs
  <2> QED BY <2>1
<1>2. PICK g \in [0..n -> Parsers] : g[0] = p /\ \A i \in 1..n : g[i] = body[i][g[i - 1]]
  <2> HIDE DEF body
  <2>1. HasLoop(n, Parsers, p, body)
    BY <1>0, <1>1, LoopExists
  <2> QED BY <2>1 DEF HasLoop
<1>3. \A i \in 1..n : g[i] = TakeByte(g[i - 1], b[i])
  <2> SUFFICES ASSUME NEW i \in 1..n PROVE g[i] = TakeByte(g[i - 1], b[i])
    OBVIOUS
  <2>1. g[i - 1] \in Parsers
    <3>1. i - 1 \in 0..n
      BY <1>0
    <3> QED BY <1>2, <3>1
  <2>2. body[i][g[i - 1]] = TakeByte(g[i - 1], b[i])
    BY <2>1
  <2> HIDE DEF body
  <2> QED BY <1>2, <2>2
<1> HIDE DEF body
<1>4. g = [i \in 0..n |-> IF i = 0 THEN p ELSE TakeByte(g[i - 1], b[i])]
  <2>1. \A i \in 0..n : i # 0 => i \in 1..n
    BY <1>0
  <2>2. \A i \in 0..n : g[i] = IF i = 0 THEN p ELSE TakeByte(g[i - 1], b[i])
    BY <1>2, <1>3, <2>1
  <2> QED BY <1>2, <2>2
<1>5. f = [i \in 0..n |-> IF i = 0 THEN p ELSE TakeByte(f[i - 1], b[i])]
  BY <1>4
<1>6. TakeBytes(p, b) = f[n]
  BY DEF TakeBytes, n
<1> HIDE DEF f
<1>7. f[0] = p /\ \A i \in 1..n : f[i] = TakeByte(f[i - 1], b[i])
  <2>1. 0 \in 0..n /\ \A i \in 1..n : i \in 0..n /\ i # 0
    BY <1>0
  <2> QED BY <1>5, <2>1
<1>8. f[n] = g[n]
  <2>1. f[0] = g[0] /\ n \in Nat
    BY <1>0, <1>2, <1>7
  <2>2. \A i \in 1..n : f[i - 1] = g[i - 1] => f[i] = g[i]
    BY <1>3, <1>7
  <2> QED BY <2>1, <2>2, LoopsAgree, Zenon
<1> QED BY <1>2, <1>3, <1>6, <1>8 DEF n

\* No byte, and one byte more.
LEMMA TakeBytesStep ==
  ASSUME NEW p \in Parsers
  PROVE  /\ TakeBytes(p, <<>>) = p
         /\ \A b \in Texts : TakeBytes(p, b) \in Parsers
         /\ \A b \in Texts, x \in TextBytes :
              TakeBytes(p, Append(b, x)) = TakeByte(TakeBytes(p, b), x)
<1>1. TakeBytes(p, <<>>) = p
  <2>1. <<>> \in Texts /\ Len(<<>>) = 0
    BY DEF Texts
  <2> QED BY <2>1, TakeBytesLoop
<1>2. ASSUME NEW b \in Texts
      PROVE  TakeBytes(p, b) \in Parsers
  <2>1. Len(b) \in 0..Len(b)
    BY DEF Texts
  <2> QED BY <2>1, TakeBytesLoop
<1>3. ASSUME NEW b \in Texts, NEW x \in TextBytes
      PROVE  TakeBytes(p, Append(b, x)) = TakeByte(TakeBytes(p, b), x)
  <2> DEFINE t == Append(b, x)
             n == Len(b)
  <2>1. /\ t \in Texts /\ Len(t) = n + 1 /\ n \in Nat /\ t[n + 1] = x
        /\ \A i \in 1..n : t[i] = b[i]
    BY AppendProperties DEF Texts
  <2> HIDE DEF t, n
  <2>2. PICK f \in [0..n -> Parsers] :
          /\ f[0] = p
          /\ \A i \in 1..n : f[i] = TakeByte(f[i - 1], b[i])
          /\ TakeBytes(p, b) = f[n]
    BY TakeBytesLoop DEF n
  <2>3. PICK g \in [0..(n + 1) -> Parsers] :
          /\ g[0] = p
          /\ \A i \in 1..(n + 1) : g[i] = TakeByte(g[i - 1], t[i])
          /\ TakeBytes(p, t) = g[n + 1]
    BY <2>1, TakeBytesLoop
  <2>4. \A i \in 1..n : i \in 1..(n + 1)
    BY <2>1
  <2>5. \A i \in 1..n : f[i - 1] = g[i - 1] => f[i] = g[i]
    BY <2>1, <2>2, <2>3, <2>4
  <2>6. f[n] = g[n]
    <3>1. n \in Nat /\ f[0] = g[0]
      BY <2>1, <2>2, <2>3
    <3> QED BY <2>5, <3>1, LoopsAgree, Zenon
  <2>7. g[n + 1] = TakeByte(g[n], x)
    <3>1. (n + 1) - 1 = n /\ n + 1 \in 1..(n + 1)
      BY <2>1
    <3> QED BY <2>1, <2>3, <3>1
  <2> QED BY <2>2, <2>3, <2>6, <2>7 DEF t
<1> QED BY <1>1, <1>2, <1>3

\* A byte taken leaves the events that are there; the check of the TypeScript
\* parser makes another parser of it, or none.
LEMMA EventsStay ==
  ASSUME NEW e \in Seq(Texts), NEW p \in Parsers, NEW x \in TextBytes, IsPrefix(e, p.events)
  PROVE  IsPrefix(e, TakeByte(p, x).events)
<1> DEFINE q == TakeByte(p, x)
<1>1. q.events = p.events \/ q.events = Append(p.events, p.data)
  BY TakeByteIs
<1>2. p.events \in Seq(Texts) /\ p.data \in Texts
  BY DEF Parsers
<1> HIDE DEF q
<1>3. IsPrefix(e, Append(p.events, p.data))
  <2>1. Append(p.events, p.data) = p.events \o <<p.data>> /\ <<p.data>> \in Seq(Texts)
    BY <1>2, AppendIsConcat
  <2> QED BY <1>2, <2>1, PrefixExtends
<1> QED BY <1>1, <1>3 DEF q

LEMMA CheckByteIs ==
  ASSUME NEW p \in Parsers, NEW x \in TextBytes, MaxEventBytes \in Nat
  PROVE  /\ CheckByte(p, x) \in Parsers
         /\ p.failed => CheckByte(p, x) = p
         /\ ~p.failed => /\ CheckByte(p, x).failed = (x = LF /\ HeldByTs(TakeByte(p, x)) > MaxEventBytes)
                         /\ CheckByte(p, x).events = TakeByte(p, x).events
                         /\ ~CheckByte(p, x).failed => CheckByte(p, x) = TakeByte(p, x)
<1> DEFINE q == TakeByte(p, x)
           over == x = LF /\ HeldByTs(q) > MaxEventBytes
<1>1. q \in Parsers /\ q.failed = p.failed
  BY TakeByteIs
<1>2. CheckByte(p, x) = IF p.failed THEN p ELSE [q EXCEPT !.failed = over]
  BY DEF CheckByte
<1> HIDE DEF q
<1>3. over \in BOOLEAN
  OBVIOUS
<1> HIDE DEF over
<1>4. /\ [q EXCEPT !.failed = over] \in Parsers /\ [q EXCEPT !.failed = over].failed = over
      /\ [q EXCEPT !.failed = over].events = q.events
      /\ q.failed = over => [q EXCEPT !.failed = over] = q
  BY <1>1, <1>3 DEF Parsers
<1>5. p.failed \in BOOLEAN
  BY DEF Parsers
<1>6. CASE p.failed
  BY <1>2, <1>6
<1>7. CASE ~p.failed
  <2>1. CheckByte(p, x) = [q EXCEPT !.failed = over]
    BY <1>2, <1>7
  <2> QED BY <1>1, <1>3, <1>4, <1>5, <1>7, <2>1 DEF q, over
<1> QED BY <1>6, <1>7

\* The same of the parser that looks at its limit.
LEMMA CheckBytesLoop ==
  ASSUME NEW p \in Parsers, NEW b \in Texts, MaxEventBytes \in Nat
  PROVE  \E f \in [0..Len(b) -> Parsers] :
           /\ f[0] = p
           /\ \A i \in 1..Len(b) : f[i] = CheckByte(f[i - 1], b[i])
           /\ CheckBytes(p, b) = f[Len(b)]
<1> DEFINE n == Len(b)
           body == [i \in 1..n |-> [v \in Parsers |-> CheckByte(v, b[i])]]
           f == CHOOSE f : f = [i \in 0..n |-> IF i = 0 THEN p ELSE CheckByte(f[i - 1], b[i])]
<1>0. n \in Nat /\ \A i \in 1..n : b[i] \in TextBytes
  BY DEF Texts
<1> HIDE DEF n
<1>1. body \in [1..n -> [Parsers -> Parsers]]
  <2>1. ASSUME NEW i \in 1..n, NEW v \in Parsers PROVE CheckByte(v, b[i]) \in Parsers
    BY <1>0, CheckByteIs
  <2> QED BY <2>1
<1>2. PICK g \in [0..n -> Parsers] : g[0] = p /\ \A i \in 1..n : g[i] = body[i][g[i - 1]]
  <2> HIDE DEF body
  <2>1. HasLoop(n, Parsers, p, body)
    BY <1>0, <1>1, LoopExists
  <2> QED BY <2>1 DEF HasLoop
<1>3. \A i \in 1..n : g[i] = CheckByte(g[i - 1], b[i])
  <2> SUFFICES ASSUME NEW i \in 1..n PROVE g[i] = CheckByte(g[i - 1], b[i])
    OBVIOUS
  <2>1. g[i - 1] \in Parsers
    <3>1. i - 1 \in 0..n
      BY <1>0
    <3> QED BY <1>2, <3>1
  <2>2. body[i][g[i - 1]] = CheckByte(g[i - 1], b[i])
    BY <2>1
  <2> HIDE DEF body
  <2> QED BY <1>2, <2>2
<1> HIDE DEF body
<1>4. g = [i \in 0..n |-> IF i = 0 THEN p ELSE CheckByte(g[i - 1], b[i])]
  <2>1. \A i \in 0..n : i # 0 => i \in 1..n
    BY <1>0
  <2>2. \A i \in 0..n : g[i] = IF i = 0 THEN p ELSE CheckByte(g[i - 1], b[i])
    BY <1>2, <1>3, <2>1
  <2> QED BY <1>2, <2>2
<1>5. f = [i \in 0..n |-> IF i = 0 THEN p ELSE CheckByte(f[i - 1], b[i])]
  BY <1>4
<1>6. CheckBytes(p, b) = f[n]
  BY DEF CheckBytes, n
<1> HIDE DEF f
<1>7. f[0] = p /\ \A i \in 1..n : f[i] = CheckByte(f[i - 1], b[i])
  <2>1. 0 \in 0..n /\ \A i \in 1..n : i \in 0..n /\ i # 0
    BY <1>0
  <2> QED BY <1>5, <2>1
<1>8. f[n] = g[n]
  <2>1. f[0] = g[0] /\ n \in Nat
    BY <1>0, <1>2, <1>7
  <2>2. \A i \in 1..n : f[i - 1] = g[i - 1] => f[i] = g[i]
    BY <1>3, <1>7
  <2> QED BY <2>1, <2>2, LoopsAgree, Zenon
<1> QED BY <1>2, <1>3, <1>6, <1>8 DEF n

LEMMA CheckBytesStep ==
  ASSUME NEW p \in Parsers, MaxEventBytes \in Nat
  PROVE  /\ CheckBytes(p, <<>>) = p
         /\ \A b \in Texts : CheckBytes(p, b) \in Parsers
         /\ \A b \in Texts, x \in TextBytes :
              CheckBytes(p, Append(b, x)) = CheckByte(CheckBytes(p, b), x)
<1>1. CheckBytes(p, <<>>) = p
  <2>1. <<>> \in Texts /\ Len(<<>>) = 0
    BY DEF Texts
  <2> QED BY <2>1, CheckBytesLoop
<1>2. ASSUME NEW b \in Texts
      PROVE  CheckBytes(p, b) \in Parsers
  <2>1. Len(b) \in 0..Len(b)
    BY DEF Texts
  <2> QED BY <2>1, CheckBytesLoop
<1>3. ASSUME NEW b \in Texts, NEW x \in TextBytes
      PROVE  CheckBytes(p, Append(b, x)) = CheckByte(CheckBytes(p, b), x)
  <2> DEFINE t == Append(b, x)
             n == Len(b)
  <2>1. /\ t \in Texts /\ Len(t) = n + 1 /\ n \in Nat /\ t[n + 1] = x
        /\ \A i \in 1..n : t[i] = b[i]
    BY AppendProperties DEF Texts
  <2> HIDE DEF t, n
  <2>2. PICK f \in [0..n -> Parsers] :
          /\ f[0] = p
          /\ \A i \in 1..n : f[i] = CheckByte(f[i - 1], b[i])
          /\ CheckBytes(p, b) = f[n]
    BY CheckBytesLoop DEF n
  <2>3. PICK g \in [0..(n + 1) -> Parsers] :
          /\ g[0] = p
          /\ \A i \in 1..(n + 1) : g[i] = CheckByte(g[i - 1], t[i])
          /\ CheckBytes(p, t) = g[n + 1]
    BY <2>1, CheckBytesLoop
  <2>4. \A i \in 1..n : i \in 1..(n + 1)
    BY <2>1
  <2>5. \A i \in 1..n : f[i - 1] = g[i - 1] => f[i] = g[i]
    BY <2>1, <2>2, <2>3, <2>4
  <2>6. f[n] = g[n]
    <3>1. n \in Nat /\ f[0] = g[0]
      BY <2>1, <2>2, <2>3
    <3> QED BY <2>5, <3>1, LoopsAgree, Zenon
  <2>7. g[n + 1] = CheckByte(g[n], x)
    <3>1. (n + 1) - 1 = n /\ n + 1 \in 1..(n + 1)
      BY <2>1
    <3> QED BY <2>1, <2>3, <3>1
  <2> QED BY <2>2, <2>3, <2>6, <2>7 DEF t
<1> QED BY <1>1, <1>2, <1>3

-----------------------------------------------------------------------------
(* The whole of what was read, byte by byte. *)

Taken(s, n) == TakeBytes(NewParser, SubSeq(s, 1, n))

LEMMA PieceGrows ==
  ASSUME NEW s \in Texts, NEW m \in 0..Len(s), NEW k \in Nat, m + k + 1 <= Len(s)
  PROVE  /\ SubSeq(s, m + 1, m) = <<>>
         /\ SubSeq(s, m + 1, m + k) \in Texts
         /\ s[m + k + 1] \in TextBytes
         /\ SubSeq(s, m + 1, m + k + 1) = Append(SubSeq(s, m + 1, m + k), s[m + k + 1])
<1> DEFINE a == SubSeq(s, m + 1, m + k)
           b == SubSeq(s, m + 1, m + k + 1)
           x == s[m + k + 1]
           l == Len(s)
<1>1. l \in Nat /\ m \in Nat /\ m <= l /\ m + k + 1 <= l
  BY DEF Texts
<1>2. x \in TextBytes
  BY <1>1 DEF Texts
<1>3. a \in Texts /\ Len(a) = k /\ \A i \in 1..k : a[i] = s[m + i]
  <2>1. \A i \in (m + 1)..(m + k) : i \in 1..l
    BY <1>1
  <2> QED BY <1>1, <2>1 DEF Texts
<1>4. b \in Texts /\ Len(b) = k + 1 /\ \A i \in 1..(k + 1) : b[i] = s[m + i]
  <2>1. \A i \in (m + 1)..(m + k + 1) : i \in 1..l
    BY <1>1
  <2> QED BY <1>1, <2>1 DEF Texts
<1>5. SubSeq(s, m + 1, m) = <<>>
  BY <1>1 DEF Texts
<1>6. m + (k + 1) = m + k + 1
  BY <1>1
<1> HIDE DEF a, b, l
<1>7. /\ Append(a, x) \in Texts /\ Len(Append(a, x)) = k + 1
      /\ \A i \in 1..k : Append(a, x)[i] = a[i]
      /\ Append(a, x)[k + 1] = x
  <2>1. a \in Seq(TextBytes)
    BY <1>3 DEF Texts
  <2> QED BY <1>2, <1>3, <2>1, AppendProperties DEF Texts
<1> HIDE DEF x
<1>8. \A i \in 1..(k + 1) : Append(a, x)[i] = b[i]
  <2> SUFFICES ASSUME NEW i \in 1..(k + 1) PROVE Append(a, x)[i] = b[i]
    OBVIOUS
  <2>1. CASE i = k + 1
    BY <1>4, <1>6, <1>7, <2>1 DEF x
  <2>2. CASE i # k + 1
    <3>1. i \in 1..k
      BY <2>2
    <3> QED BY <1>3, <1>4, <1>7, <3>1
  <2> QED BY <2>1, <2>2
<1>9. b = Append(a, x)
  <2>1. b \in Seq(TextBytes) /\ Append(a, x) \in Seq(TextBytes)
    BY <1>4, <1>7 DEF Texts
  <2> QED BY <1>4, <1>7, <1>8, <2>1, SeqEqual
<1> QED BY <1>2, <1>3, <1>5, <1>9 DEF a, b, x

LEMMA NewParserIs == NewParser \in Parsers /\ HeldByRust(NewParser) = 0 /\ NewParser.events = <<>>
                     /\ NewParser.failed = FALSE /\ NewParser.hasData = FALSE
<1>1. <<>> \in Texts /\ <<>> \in Seq(Texts) /\ Len(<<>>) = 0
  BY DEF Texts
<1> QED BY <1>1 DEF NewParser, Parsers, HeldByRust

LEMMA TakenGrows ==
  ASSUME NEW s \in Texts
  PROVE  /\ Taken(s, 0) = NewParser
         /\ \A m \in 0..Len(s) : Taken(s, m) \in Parsers
         /\ \A m \in 0..(Len(s) - 1) : /\ s[m + 1] \in TextBytes
                                       /\ Taken(s, m + 1) = TakeByte(Taken(s, m), s[m + 1])
<1>1. Taken(s, 0) = NewParser
  <2>1. SubSeq(s, 1, 0) = <<>>
    BY DEF Texts
  <2> QED BY <2>1, NewParserIs, TakeBytesStep DEF Taken
<1>2. ASSUME NEW m \in 0..Len(s)
      PROVE  Taken(s, m) \in Parsers
  <2>1. SubSeq(s, 1, m) \in Texts
    BY DEF Texts
  <2> QED BY <2>1, NewParserIs, TakeBytesStep DEF Taken
<1>3. ASSUME NEW m \in 0..(Len(s) - 1)
      PROVE  s[m + 1] \in TextBytes /\ Taken(s, m + 1) = TakeByte(Taken(s, m), s[m + 1])
  <2>1. Len(s) \in Nat /\ m \in Nat /\ 0 \in 0..Len(s) /\ 0 + m + 1 <= Len(s) /\ 0 + 1 = 1
        /\ 0 + m = m
    BY DEF Texts
  <2>2. /\ SubSeq(s, 1, m) \in Texts /\ s[m + 1] \in TextBytes
        /\ SubSeq(s, 1, m + 1) = Append(SubSeq(s, 1, m), s[m + 1])
    <3>1. /\ SubSeq(s, 0 + 1, 0 + m) \in Texts /\ s[0 + m + 1] \in TextBytes
          /\ SubSeq(s, 0 + 1, 0 + m + 1) = Append(SubSeq(s, 0 + 1, 0 + m), s[0 + m + 1])
      BY <2>1, PieceGrows
    <3> QED BY <2>1, <3>1
  <2>3. TakeBytes(NewParser, Append(SubSeq(s, 1, m), s[m + 1])) = TakeByte(Taken(s, m), s[m + 1])
    BY <2>2, NewParserIs, TakeBytesStep DEF Taken
  <2> QED BY <2>2, <2>3 DEF Taken
<1> QED BY <1>1, <1>2, <1>3

\* More bytes only add to the events.
LEMMA TakenKeepsEvents ==
  ASSUME NEW s \in Texts, NEW m \in 0..Len(s), NEW k \in Nat, m + k <= Len(s),
         NEW e \in Seq(Texts), IsPrefix(e, Taken(s, m).events)
  PROVE  IsPrefix(e, Taken(s, m + k).events)
<1> DEFINE S == {i \in 0..k : IsPrefix(e, Taken(s, m + i).events)}
<1>0. Len(s) \in Nat /\ m \in Nat
  BY DEF Texts
<1>1. 0 \in S
  BY <1>0
<1>2. ASSUME NEW i \in 0..(k - 1), i \in S
      PROVE  i + 1 \in S
  <2>1. m + i \in 0..(Len(s) - 1) /\ m + i \in 0..Len(s) /\ m + (i + 1) = (m + i) + 1 /\ i + 1 \in 0..k
    BY <1>0
  <2>2. Taken(s, m + i) \in Parsers /\ s[(m + i) + 1] \in TextBytes
        /\ Taken(s, (m + i) + 1) = TakeByte(Taken(s, m + i), s[(m + i) + 1])
    BY <2>1, TakenGrows
  <2>3. IsPrefix(e, Taken(s, m + i).events)
    BY <1>2
  <2>4. IsPrefix(e, Taken(s, (m + i) + 1).events)
    BY <2>2, <2>3, EventsStay
  <2> QED BY <2>1, <2>4
<1> HIDE DEF S
<1>3. 0..k \subseteq S
  BY <1>1, <1>2, UpToInduction
<1>4. k \in S
  BY <1>3
<1> QED BY <1>4 DEF S

-----------------------------------------------------------------------------
(* What each parser holds when n bytes of s were read. *)

EventsWithin(p, most) == \A i \in DOMAIN p.events : Len(p.events[i]) <= most

RustAt(s, n, p) ==
  /\ p \in Parsers
  /\ EventsWithin(p, MaxEventBytes + MaxRead)
  /\ IF p.failed THEN /\ IsPrefix(p.events, Taken(s, n).events)
                      /\ \E m \in 0..n : HeldByRust(Taken(s, m)) > MaxEventBytes
     ELSE p = Taken(s, n) /\ HeldByRust(p) <= MaxEventBytes

TsAt(s, n, p) ==
  /\ p \in Parsers
  /\ \A i \in DOMAIN p.events : Len(p.events[i]) < MaxEventBytes
  /\ IF p.failed THEN /\ IsPrefix(p.events, Taken(s, n).events)
                      /\ \E m \in 0..n : HeldByTs(Taken(s, m)) > MaxEventBytes
     ELSE p = Taken(s, n) /\ (p.hasData => Len(p.data) < MaxEventBytes)

\* The Rust parser behind k bytes of a chunk: the limit is looked at behind the
\* last, so what is held may be over it by the bytes of the chunk.
LEMMA RustChunk ==
  ASSUME NEW s \in Texts, NEW n \in 0..Len(s), NEW size \in Nat, n + size <= Len(s), size <= MaxRead,
         NEW p, RustAt(s, n, p), ~p.failed, MaxEventBytes \in Nat, MaxRead \in Nat
  PROVE  /\ TakeBytes(p, SubSeq(s, n + 1, n + size)) = Taken(s, n + size)
         /\ Taken(s, n + size) \in Parsers /\ ~Taken(s, n + size).failed
         /\ EventsWithin(Taken(s, n + size), MaxEventBytes + MaxRead)
<1> DEFINE Good(k) == /\ TakeBytes(p, SubSeq(s, n + 1, n + k)) = Taken(s, n + k)
                      /\ Taken(s, n + k) \in Parsers /\ ~Taken(s, n + k).failed
                      /\ HeldByRust(Taken(s, n + k)) <= MaxEventBytes + k
                      /\ EventsWithin(Taken(s, n + k), MaxEventBytes + MaxRead)
           S == {k \in 0..size : Good(k)}
<1>0. /\ Len(s) \in Nat /\ n \in Nat /\ p \in Parsers /\ p = Taken(s, n)
      /\ HeldByRust(p) <= MaxEventBytes /\ EventsWithin(p, MaxEventBytes + MaxRead)
  BY DEF Texts, RustAt
<1>1. 0 \in S
  <2>1. SubSeq(s, n + 1, n) = <<>>
    BY <1>0 DEF Texts
  <2>2. n + 0 = n /\ MaxEventBytes + 0 = MaxEventBytes
    BY <1>0
  <2>3. TakeBytes(p, <<>>) = p
    BY <1>0, TakeBytesStep
  <2>4. TakeBytes(p, SubSeq(s, n + 1, n + 0)) = Taken(s, n + 0)
    BY <1>0, <2>1, <2>2, <2>3
  <2>5. Good(0)
    BY <1>0, <2>2, <2>4
  <2> QED BY <2>5
<1>2. ASSUME NEW k \in 0..(size - 1), k \in S
      PROVE  k + 1 \in S
  <2> DEFINE a == SubSeq(s, n + 1, n + k)
             r == Taken(s, n + k)
             x == s[n + k + 1]
             q == TakeByte(r, x)
  <2>1. /\ k \in Nat /\ n + k + 1 <= Len(s) /\ n + k \in 0..(Len(s) - 1)
        /\ n + (k + 1) = n + k + 1 /\ k + 1 \in 0..size /\ k < MaxRead
    BY <1>0
  <2>2. /\ a \in Texts /\ x \in TextBytes /\ SubSeq(s, n + 1, n + k + 1) = Append(a, x)
    BY <2>1, PieceGrows
  <2>3. Taken(s, n + k + 1) = q
    BY <2>1, TakenGrows
  <2>4. /\ TakeBytes(p, a) = r /\ r \in Parsers /\ ~r.failed
        /\ HeldByRust(r) <= MaxEventBytes + k /\ EventsWithin(r, MaxEventBytes + MaxRead)
    BY <1>2
  <2>5. TakeBytes(p, Append(a, x)) = TakeByte(TakeBytes(p, a), x)
    BY <1>0, <2>2, TakeBytesStep
  <2>6. TakeBytes(p, SubSeq(s, n + 1, n + (k + 1))) = Taken(s, n + (k + 1))
    BY <2>1, <2>2, <2>3, <2>4, <2>5
  <2> HIDE DEF a, x
  <2>7. /\ q \in Parsers /\ q.failed = r.failed /\ HeldByRust(r) \in Nat /\ HeldByRust(q) \in Nat
        /\ HeldByRust(q) <= HeldByRust(r) + 1
        /\ q.events = r.events \/ q.events = Append(r.events, r.data)
    BY <2>2, <2>4, TakeByteIs
  <2> HIDE DEF r, q
  <2>8. HeldByRust(q) <= MaxEventBytes + (k + 1)
    BY <2>1, <2>4, <2>7
  <2>9. Len(r.data) <= MaxEventBytes + MaxRead
    <3> DEFINE d == Len(r.data)
               b == Len(r.buffer)
    <3>1. d \in Nat /\ b \in Nat
      BY <2>4 DEF Parsers, Texts
    <3>2. d + b <= MaxEventBytes + k
      BY <2>4 DEF HeldByRust
    <3> HIDE DEF d, b
    <3>3. d <= MaxEventBytes + MaxRead
      BY <2>1, <3>1, <3>2
    <3> QED BY <3>3 DEF d
  <2>10. EventsWithin(q, MaxEventBytes + MaxRead)
    <3> SUFFICES ASSUME NEW i \in DOMAIN q.events
                 PROVE  Len(q.events[i]) <= MaxEventBytes + MaxRead
      BY DEF EventsWithin
    <3>1. CASE q.events = r.events
      BY <2>4, <3>1 DEF EventsWithin
    <3>2. CASE q.events = Append(r.events, r.data)
      <4>1. r.events \in Seq(Texts) /\ r.data \in Texts
        BY <2>4 DEF Parsers
      <4>2. i \in 1..(Len(r.events) + 1)
        BY <3>2, <4>1
      <4>3. q.events[i] = IF i <= Len(r.events) THEN r.events[i] ELSE r.data
        BY <3>2, <4>1, <4>2
      <4>4. i <= Len(r.events) => i \in DOMAIN r.events
        BY <4>1, <4>2
      <4> QED BY <2>4, <2>9, <4>3, <4>4 DEF EventsWithin
    <3> QED BY <2>7, <3>1, <3>2
  <2>11. Good(k + 1)
    BY <2>1, <2>3, <2>4, <2>6, <2>7, <2>8, <2>10
  <2> QED BY <2>1, <2>11
<1> HIDE DEF S
<1>3. 0..size \subseteq S
  BY <1>1, <1>2, UpToInduction
<1>4. size \in S
  BY <1>3
<1> QED BY <1>4 DEF S

\* The TypeScript parser behind k bytes of a chunk: as much as behind a chunk.
LEMMA TsChunk ==
  ASSUME NEW s \in Texts, NEW n \in 0..Len(s), NEW size \in Nat, n + size <= Len(s),
         NEW p, TsAt(s, n, p), MaxEventBytes \in Nat
  PROVE  TsAt(s, n + size, CheckBytes(p, SubSeq(s, n + 1, n + size)))
<1> DEFINE S == {k \in 0..size : TsAt(s, n + k, CheckBytes(p, SubSeq(s, n + 1, n + k)))}
<1>0. Len(s) \in Nat /\ n \in Nat /\ p \in Parsers
  BY DEF Texts, TsAt
<1>1. 0 \in S
  <2>1. SubSeq(s, n + 1, n) = <<>> /\ n + 0 = n
    BY <1>0 DEF Texts
  <2>2. CheckBytes(p, <<>>) = p
    BY <1>0, CheckBytesStep
  <2>3. TsAt(s, n + 0, CheckBytes(p, SubSeq(s, n + 1, n + 0)))
    <3>1. SubSeq(s, n + 1, n + 0) = <<>>
      BY <2>1
    <3> QED BY <2>1, <2>2, <3>1
  <2> QED BY <2>3
<1>2. ASSUME NEW k \in 0..(size - 1), k \in S
      PROVE  k + 1 \in S
  <2> DEFINE a == SubSeq(s, n + 1, n + k)
             r == CheckBytes(p, a)
             x == s[n + k + 1]
             j == n + k
  <2>1. /\ k \in Nat /\ n + k + 1 <= Len(s) /\ j \in 0..(Len(s) - 1) /\ j \in Nat
        /\ n + (k + 1) = n + k + 1 /\ j + 1 = n + k + 1 /\ k + 1 \in 0..size
    BY <1>0
  <2>2. /\ a \in Texts /\ x \in TextBytes /\ SubSeq(s, n + 1, n + k + 1) = Append(a, x)
    BY <2>1, PieceGrows
  <2>3. CheckBytes(p, SubSeq(s, n + 1, n + (k + 1))) = CheckByte(r, x)
    <3>1. CheckBytes(p, Append(a, x)) = CheckByte(r, x)
      BY <1>0, <2>2, CheckBytesStep
    <3>2. SubSeq(s, n + 1, n + (k + 1)) = Append(a, x)
      BY <2>1, <2>2
    <3> QED BY <3>1, <3>2
  <2>4. TsAt(s, j, r)
    BY <1>2
  <2>5. Taken(s, j + 1) = TakeByte(Taken(s, j), x) /\ Taken(s, j) \in Parsers /\ Taken(s, j + 1) \in Parsers
    <3>1. j \in 0..Len(s) /\ j + 1 \in 0..Len(s)
      BY <1>0, <2>1
    <3> QED BY <2>1, <3>1, TakenGrows
  <2> HIDE DEF a, r, x, j
  <2>6. TsAt(s, j + 1, CheckByte(r, x))
    <3>0. r \in Parsers
      BY <2>4 DEF TsAt
    <3>1. /\ CheckByte(r, x) \in Parsers
          /\ r.failed => CheckByte(r, x) = r
          /\ ~r.failed => /\ CheckByte(r, x).failed = (x = LF /\ HeldByTs(TakeByte(r, x)) > MaxEventBytes)
                          /\ CheckByte(r, x).events = TakeByte(r, x).events
                          /\ ~CheckByte(r, x).failed => CheckByte(r, x) = TakeByte(r, x)
      BY <2>2, <3>0, CheckByteIs
    <3>2. CASE r.failed
      <4>1. r.events \in Seq(Texts) /\ IsPrefix(r.events, Taken(s, j).events)
        BY <2>4, <3>0, <3>2 DEF TsAt, Parsers
      <4>2. IsPrefix(r.events, Taken(s, j + 1).events)
        BY <2>2, <2>5, <4>1, EventsStay
      <4>3. \E m \in 0..(j + 1) : HeldByTs(Taken(s, m)) > MaxEventBytes
        <5>1. 0..j \subseteq 0..(j + 1)
          BY <2>1
        <5> QED BY <2>4, <3>2, <5>1 DEF TsAt
      <4> QED BY <2>4, <3>1, <3>2, <4>2, <4>3 DEF TsAt
    <3>3. CASE ~r.failed
      <4> DEFINE q == TakeByte(r, x)
                 c == CheckByte(r, x)
      <4>1. r = Taken(s, j) /\ (r.hasData => Len(r.data) < MaxEventBytes)
            /\ \A i \in DOMAIN r.events : Len(r.events[i]) < MaxEventBytes
        BY <2>4, <3>3 DEF TsAt
      <4>2. q = Taken(s, j + 1) /\ q \in Parsers
        BY <2>5, <4>1
      <4>3. /\ q.events = r.events \/ (r.hasData /\ q.events = Append(r.events, r.data))
            /\ x # LF => q.hasData = r.hasData /\ q.data = r.data
            /\ x = LF => q.buffer = <<>>
        BY <2>2, <3>0, TakeByteIs
      <4>4. c \in Parsers /\ c.events = q.events /\ c.failed = (x = LF /\ HeldByTs(q) > MaxEventBytes)
            /\ (~c.failed => c = q)
        BY <3>1, <3>3
      <4> HIDE DEF q, c
      <4>5. ASSUME NEW i \in DOMAIN c.events
            PROVE  Len(c.events[i]) < MaxEventBytes
        <5>1. CASE q.events = r.events
          BY <4>1, <4>4, <5>1
        <5>2. CASE r.hasData /\ q.events = Append(r.events, r.data)
          <6>1. r.events \in Seq(Texts) /\ r.data \in Texts
            BY <3>0 DEF Parsers
          <6>2. i \in 1..(Len(r.events) + 1)
            BY <4>4, <5>2, <6>1
          <6>3. c.events[i] = IF i <= Len(r.events) THEN r.events[i] ELSE r.data
            BY <4>4, <5>2, <6>1, <6>2
          <6>4. i <= Len(r.events) => i \in DOMAIN r.events
            BY <6>1, <6>2
          <6> QED BY <4>1, <5>2, <6>3, <6>4
        <5> QED BY <4>3, <5>1, <5>2
      <4>6. CASE c.failed
        <5>1. IsPrefix(c.events, Taken(s, j + 1).events)
          <6>1. c.events \in Seq(Texts)
            BY <4>4 DEF Parsers
          <6>2. IsPrefix(c.events, c.events)
            <7>1. c.events \o <<>> = c.events /\ <<>> \in Seq(Texts)
              BY <6>1
            <7> QED BY <6>1, <7>1, ConcatPrefix
          <6> QED BY <4>2, <4>4, <6>2
        <5>2. HeldByTs(Taken(s, j + 1)) > MaxEventBytes /\ j + 1 \in 0..(j + 1)
          <6>1. HeldByTs(q) > MaxEventBytes
            BY <4>4, <4>6
          <6> QED BY <2>1, <4>2, <6>1
        <5> QED BY <4>4, <4>5, <4>6, <5>1, <5>2 DEF TsAt, c
      <4>7. CASE ~c.failed
        <5>1. c = Taken(s, j + 1)
          BY <4>2, <4>4, <4>7
        <5>2. c.hasData => Len(c.data) < MaxEventBytes
          <6>1. CASE x # LF
            BY <4>1, <4>3, <4>4, <4>7, <6>1
          <6>2. CASE x = LF /\ c.hasData
            <7> DEFINE d == Len(q.data)
            <7>1. d \in Nat /\ Len(<<>>) = 0 /\ q.buffer = <<>> /\ q.hasData
              BY <4>2, <4>3, <4>4, <4>7, <6>2 DEF Parsers, Texts
            <7>2. HeldByTs(q) = (d + 1) + 0
              BY <7>1 DEF HeldByTs
            <7> HIDE DEF d
            <7>3. ~(d + 1 + 0 > MaxEventBytes)
              BY <4>4, <4>7, <6>2, <7>2
            <7>4. d < MaxEventBytes
              BY <7>1, <7>3
            <7> QED BY <4>4, <4>7, <7>4 DEF d
          <6> QED BY <6>1, <6>2
        <5> QED BY <4>4, <4>5, <4>7, <5>1, <5>2 DEF TsAt, c
      <4> QED BY <4>6, <4>7
    <3> QED BY <3>2, <3>3
  <2> QED BY <2>1, <2>3, <2>6 DEF j
<1> HIDE DEF S
<1>3. 0..size \subseteq S
  BY <1>1, <1>2, UpToInduction
<1>4. size \in S
  BY <1>3
<1> QED BY <1>4 DEF S

-----------------------------------------------------------------------------

\* What a state must hold for the next one to agree with the whole.
ReadInv ==
  /\ source \in Texts
  /\ seen \in 0..Len(source)
  /\ RustAt(source, seen, rust)
  /\ TsAt(source, seen, ts)

LEMMA ReadInvInit ==
  ASSUME MaxEventBytes \in Nat, MaxText \in Nat, MaxRead \in Nat, ReadInit
  PROVE  ReadInv
<1>1. source \in Texts /\ Len(source) \in Nat /\ seen = 0 /\ seen \in 0..Len(source)
  <2>1. PICK m \in 0..MaxText : source \in [1..m -> TextBytes]
    BY DEF ReadInit, BoundedSeq, SeqOf
  <2>2. source \in Texts /\ Len(source) \in Nat
    BY <2>1 DEF Texts
  <2> QED BY <2>2 DEF ReadInit
<1>2. /\ NewParser \in Parsers /\ HeldByRust(NewParser) = 0 /\ NewParser.events = <<>>
      /\ NewParser.failed = FALSE /\ NewParser.hasData = FALSE
  BY NewParserIs
<1>3. Taken(source, 0) = NewParser
  BY <1>1, TakenGrows
<1>4. rust = NewParser /\ ts = NewParser
  BY DEF ReadInit
<1>5. DOMAIN (<<>>) = {}
  OBVIOUS
<1>6. RustAt(source, 0, NewParser)
  BY <1>2, <1>3, <1>5 DEF RustAt, EventsWithin
<1>7. TsAt(source, 0, NewParser)
  BY <1>2, <1>3, <1>5 DEF TsAt
<1> QED BY <1>1, <1>4, <1>6, <1>7 DEF ReadInv

\* A failed parser stays, the whole goes on.
LEMMA RustMoves ==
  ASSUME NEW s \in Texts, NEW n \in 0..Len(s), NEW size \in Nat, n + size <= Len(s), size <= MaxRead,
         NEW p, RustAt(s, n, p), MaxEventBytes \in Nat, MaxRead \in Nat
  PROVE  RustAt(s, n + size, IF p.failed THEN p ELSE RustPush(p, SubSeq(s, n + 1, n + size)))
<1> DEFINE c == SubSeq(s, n + 1, n + size)
           t == n + size
<1>0. n \in Nat /\ t \in Nat /\ n <= t /\ p \in Parsers /\ p.events \in Seq(Texts)
  BY DEF RustAt, Parsers, Texts
<1>1. CASE p.failed
  <2>1. IsPrefix(p.events, Taken(s, t).events)
    BY <1>0, <1>1, TakenKeepsEvents DEF RustAt
  <2>2. \E m \in 0..t : HeldByRust(Taken(s, m)) > MaxEventBytes
    <3>1. 0..n \subseteq 0..t
      BY <1>0
    <3> QED BY <1>1, <3>1 DEF RustAt
  <2> QED BY <1>1, <2>1, <2>2 DEF RustAt
<1>2. CASE ~p.failed
  <2> DEFINE q == TakeBytes(p, c)
  <2>1. /\ q = Taken(s, t) /\ Taken(s, t) \in Parsers /\ ~Taken(s, t).failed
        /\ EventsWithin(Taken(s, t), MaxEventBytes + MaxRead)
    BY <1>2, RustChunk
  <2>2. p = Taken(s, n) /\ EventsWithin(p, MaxEventBytes + MaxRead)
    BY <1>2 DEF RustAt
  <2>3. RustPush(p, c) = IF HeldByRust(q) > MaxEventBytes THEN [p EXCEPT !.failed = TRUE] ELSE q
    BY DEF RustPush
  <2>4. HeldByRust(q) \in Nat
    <3>1. q \in Parsers
      BY <2>1
    <3> HIDE DEF q
    <3>2. Len(q.data) \in Nat /\ Len(q.buffer) \in Nat
      BY <3>1 DEF Parsers, Texts
    <3>3. HeldByRust(q) = Len(q.data) + Len(q.buffer)
      BY DEF HeldByRust
    <3> DEFINE d == Len(q.data)
               b == Len(q.buffer)
    <3>4. d \in Nat /\ b \in Nat /\ HeldByRust(q) = d + b
      BY <3>2, <3>3
    <3> HIDE DEF d, b
    <3> QED BY <3>4
  <2>5. IsPrefix(p.events, Taken(s, t).events)
    <3>1. p.events \o <<>> = p.events /\ <<>> \in Seq(Texts)
      BY <1>0
    <3>2. IsPrefix(p.events, p.events)
      BY <1>0, <3>1, ConcatPrefix
    <3> QED BY <1>0, <2>2, <3>2, TakenKeepsEvents
  <2> HIDE DEF q, c, t
  <2>6. CASE HeldByRust(q) > MaxEventBytes
    <3> DEFINE f == [p EXCEPT !.failed = TRUE]
    <3>1. f \in Parsers /\ f.failed /\ f.events = p.events
      BY <1>0 DEF Parsers
    <3>2. RustPush(p, c) = f
      BY <2>3, <2>6
    <3>3. t \in 0..t /\ HeldByRust(Taken(s, t)) > MaxEventBytes
      BY <1>0, <2>1, <2>6
    <3> HIDE DEF f
    <3>4. EventsWithin(f, MaxEventBytes + MaxRead)
      BY <2>2, <3>1 DEF EventsWithin
    <3>5. RustAt(s, t, f)
      BY <2>5, <3>1, <3>3, <3>4 DEF RustAt
    <3> QED BY <1>2, <3>2, <3>5 DEF c, t
  <2>7. CASE ~(HeldByRust(q) > MaxEventBytes)
    <3>1. RustPush(p, c) = q /\ HeldByRust(q) <= MaxEventBytes
      BY <2>3, <2>4, <2>7
    <3>2. RustAt(s, t, q)
      BY <2>1, <3>1 DEF RustAt
    <3> QED BY <1>2, <3>1, <3>2 DEF c, t
  <2> QED BY <2>6, <2>7
<1> QED BY <1>1, <1>2

LEMMA TsMoves ==
  ASSUME NEW s \in Texts, NEW n \in 0..Len(s), NEW size \in Nat, n + size <= Len(s),
         NEW p, TsAt(s, n, p), MaxEventBytes \in Nat
  PROVE  TsAt(s, n + size, IF p.failed THEN p ELSE TsPush(p, SubSeq(s, n + 1, n + size)))
<1> DEFINE c == SubSeq(s, n + 1, n + size)
           t == n + size
           q == CheckBytes(p, c)
           over == HeldByTs(q) > MaxEventBytes
           f == [q EXCEPT !.failed = @ \/ over]
<1>0. n \in Nat /\ t \in Nat /\ n <= t /\ p \in Parsers /\ p.events \in Seq(Texts)
  BY DEF TsAt, Parsers, Texts
<1>1. CASE p.failed
  <2>1. IsPrefix(p.events, Taken(s, t).events)
    BY <1>0, <1>1, TakenKeepsEvents DEF TsAt
  <2>2. \E m \in 0..t : HeldByTs(Taken(s, m)) > MaxEventBytes
    <3>1. 0..n \subseteq 0..t
      BY <1>0
    <3> QED BY <1>1, <3>1 DEF TsAt
  <2> QED BY <1>1, <2>1, <2>2 DEF TsAt
<1>2. CASE ~p.failed
  <2>1. TsAt(s, t, q)
    BY TsChunk
  <2>2. TsPush(p, c) = f
    BY DEF TsPush
  <2>3. q \in Parsers /\ q.events \in Seq(Texts) /\ q.failed \in BOOLEAN
    BY <2>1 DEF TsAt, Parsers
  <2>4. over \in BOOLEAN
    OBVIOUS
  <2> HIDE DEF q, c, t, over
  <2>5. f \in Parsers /\ f.events = q.events /\ f.failed = (q.failed \/ over)
    BY <2>3, <2>4 DEF Parsers
  <2>6. CASE q.failed
    <3>1. f.failed /\ IsPrefix(f.events, Taken(s, t).events)
      BY <2>1, <2>5, <2>6 DEF TsAt
    <3> HIDE DEF f
    <3>2. TsAt(s, t, f)
      BY <2>1, <2>5, <2>6, <3>1 DEF TsAt
    <3> QED BY <1>2, <2>2, <3>2 DEF c, t
  <2>7. CASE ~q.failed /\ over
    <3> HIDE DEF f
    <3>1. q = Taken(s, t)
      BY <2>1, <2>7 DEF TsAt
    <3>2. t \in 0..t /\ HeldByTs(Taken(s, t)) > MaxEventBytes
      BY <1>0, <2>7, <3>1 DEF over
    <3>3. IsPrefix(f.events, Taken(s, t).events)
      <4>1. q.events \o <<>> = q.events /\ <<>> \in Seq(Texts)
        BY <2>3
      <4> QED BY <2>3, <2>5, <3>1, <4>1, ConcatPrefix
    <3>4. TsAt(s, t, f)
      BY <2>1, <2>5, <2>7, <3>2, <3>3 DEF TsAt
    <3> QED BY <1>2, <2>2, <3>4 DEF c, t
  <2>8. CASE ~q.failed /\ ~over
    <3>1. f = q
      BY <2>3, <2>8 DEF Parsers
    <3> HIDE DEF f
    <3> QED BY <1>2, <2>1, <2>2, <3>1 DEF c, t
  <2> QED BY <2>6, <2>7, <2>8
<1> QED BY <1>1, <1>2

LEMMA ReadInvNext ==
  ASSUME MaxEventBytes \in Nat, MaxText \in Nat, MaxRead \in Nat, ReadInv, [ReadNext]_readVars
  PROVE  ReadInv'
<1>1. ASSUME NEW size \in 1..MaxRead, ReadBytes(size)
      PROVE  ReadInv'
  <2>1. /\ source' = source /\ seen' = seen + size /\ seen + size <= Len(source)
        /\ rust' = IF rust.failed THEN rust ELSE RustPush(rust, SubSeq(source, seen + 1, seen + size))
        /\ ts' = IF ts.failed THEN ts ELSE TsPush(ts, SubSeq(source, seen + 1, seen + size))
    BY <1>1 DEF ReadBytes
  <2>2. /\ source \in Texts /\ seen \in 0..Len(source) /\ Len(source) \in Nat
        /\ RustAt(source, seen, rust) /\ TsAt(source, seen, ts)
    BY DEF ReadInv, Texts
  <2>3. size \in Nat /\ size <= MaxRead
    OBVIOUS
  <2>4. RustAt(source, seen + size, rust')
    BY <2>1, <2>2, <2>3, RustMoves
  <2>5. TsAt(source, seen + size, ts')
    BY <2>1, <2>2, <2>3, TsMoves
  <2>6. seen' \in 0..Len(source)
    BY <2>1, <2>2, <2>3
  <2>7. RustAt(source', seen', rust') /\ TsAt(source', seen', ts')
    BY <2>1, <2>4, <2>5
  <2> QED BY <2>1, <2>2, <2>6, <2>7 DEF ReadInv
<1>2. CASE UNCHANGED <<source, seen, rust, ts>>
  BY <1>2 DEF ReadInv
<1> QED BY <1>1, <1>2 DEF ReadNext, ReadsEnd, readVars

LEMMA ReadInvIgnoresCuts ==
  ASSUME MaxEventBytes \in Nat, ReadInv
  PROVE  EventsIgnoreCuts
<1>1. \A n : Uncut(n) = Taken(source, n)
  BY DEF Uncut, Taken
<1> QED BY <1>1 DEF ReadInv, RustAt, TsAt, EventsWithin, EventsIgnoreCuts

\* However the bytes of a stream are cut into chunks, each event parser gives the
\* events it would give of the whole, or refuses the stream where the whole holds
\* more of an unfinished event than the limit; EventParser::push and
\* SseEventParser.push keep what a chunk ends within.
THEOREM EventsReadUncut ==
  ASSUME MaxEventBytes \in Nat, MaxText \in Nat, MaxRead \in Nat
  PROVE  ReadSpec => []EventsIgnoreCuts
<1>1. ReadInit => ReadInv
  BY ReadInvInit
<1>2. ReadInv /\ [ReadNext]_readVars => ReadInv'
  BY ReadInvNext
<1>3. ReadInv => EventsIgnoreCuts
  BY ReadInvIgnoresCuts
<1> QED BY <1>1, <1>2, <1>3, PTL DEF ReadSpec

-----------------------------------------------------------------------------
(* What encode_event and encodeEvent write is read as it was. *)

\* A document without a CR, and what a parser knows of it: its lines so far, as
\* data, and the one at hand.
Plain == TextBytes \ {CR}
Knows(p, w) ==
  /\ p \in Parsers /\ p.events = <<>>
  /\ \E line \in Seq(Plain) : /\ p.buffer = <<DATA>> \o line
                              /\ w = IF p.hasData THEN p.data \o <<LF>> \o line ELSE line

LEMMA KnowsMore ==
  ASSUME NEW p, NEW w, Knows(p, w), NEW x \in Plain, x # LF
  PROVE  Knows(TakeByte(p, x), Append(w, x))
<1> DEFINE q == TakeByte(p, x)
<1>1. PICK line \in Seq(Plain) : /\ p.buffer = <<DATA>> \o line
                                 /\ w = IF p.hasData THEN p.data \o <<LF>> \o line ELSE line
  BY DEF Knows
<1>2. p \in Parsers /\ p.events = <<>> /\ x \in TextBytes
  BY DEF Knows, Plain
<1>3. /\ q \in Parsers /\ q.buffer = Append(p.buffer, x) /\ q.events = <<>>
      /\ q.hasData = p.hasData /\ q.data = p.data
  <2>1. q \in Parsers
    BY <1>2, TakeByteIs
  <2>2. q = [p EXCEPT !.buffer = Append(@, x)]
    BY DEF TakeByte
  <2> HIDE DEF q
  <2> QED BY <1>2, <2>1, <2>2 DEF Parsers
<1> HIDE DEF q
<1> DEFINE more == Append(line, x)
<1>4. more \in Seq(Plain) /\ line \in Texts /\ <<x>> \in Texts /\ <<DATA>> \in Texts /\ <<LF>> \in Texts
      /\ more = line \o <<x>>
  BY <1>2, AppendIsConcat DEF Plain, Texts, TextBytes
<1>5. q.buffer = <<DATA>> \o more
  <2>1. Associates(<<DATA>>, line, <<x>>)
    BY <1>4, JoinsAssociate DEF Texts
  <2>2. Append(p.buffer, x) = p.buffer \o <<x>>
    BY <1>2, AppendIsConcat DEF Parsers, Texts
  <2> HIDE DEF more
  <2> QED BY <1>1, <1>3, <1>4, <2>1, <2>2 DEF Associates
<1>6. Append(w, x) = IF q.hasData THEN q.data \o <<LF>> \o more ELSE more
  <2>1. CASE ~p.hasData
    BY <1>1, <1>3, <2>1
  <2>2. CASE p.hasData
    <3> DEFINE d == p.data \o <<LF>>
    <3>1. d \in Texts
      BY <1>2, <1>4, ConcatShape DEF Parsers, Texts
    <3>2. w = d \o line
      BY <1>1, <2>2
    <3> HIDE DEF d
    <3>3. Associates(d, line, <<x>>) /\ d \o line \in Texts
      BY <1>4, <3>1, JoinsAssociate, ConcatShape DEF Texts
    <3>4. Append(w, x) = w \o <<x>>
      BY <1>2, <3>2, <3>3, AppendIsConcat DEF Texts
    <3> HIDE DEF more
    <3>5. Append(w, x) = d \o more
      BY <1>4, <3>2, <3>3, <3>4 DEF Associates
    <3> QED BY <1>3, <2>2, <3>5 DEF d
  <2> QED BY <2>1, <2>2
<1> HIDE DEF more
<1>7. more \in Seq(Plain)
  BY <1>4
<1>8. \E l \in Seq(Plain) : /\ q.buffer = <<DATA>> \o l
                            /\ Append(w, x) = IF q.hasData THEN q.data \o <<LF>> \o l ELSE l
  BY <1>5, <1>6, <1>7, Zenon
<1> QED BY <1>3, <1>8 DEF Knows, q

\* The end of a line makes it data.
LEMMA KnowsLine ==
  ASSUME NEW p, NEW w, Knows(p, w), LF # CR, DATA # CR
  PROVE  LET q == TakeByte(p, LF)
         IN  /\ q \in Parsers /\ q.buffer = <<>> /\ q.hasData /\ q.data = w /\ q.events = <<>>
             /\ q.failed = p.failed
<1> DEFINE q == TakeByte(p, LF)
<1>1. PICK line \in Seq(Plain) : /\ p.buffer = <<DATA>> \o line
                                 /\ w = IF p.hasData THEN p.data \o <<LF>> \o line ELSE line
  BY DEF Knows
<1>2. p \in Parsers /\ p.events = <<>> /\ LF \in TextBytes
  BY DEF Knows, TextBytes
<1> DEFINE b == <<DATA>> \o line
<1>3. /\ b \in Texts /\ Len(b) = Len(line) + 1 /\ Len(line) \in Nat
      /\ b[1] = DATA /\ \A i \in 1..Len(line) : b[1 + i] = line[i] /\ line[i] # CR
  <2>1. line \in Seq(TextBytes) /\ <<DATA>> \in Seq(TextBytes) /\ Len(<<DATA>>) = 1 /\ <<DATA>>[1] = DATA
    BY DEF Plain, TextBytes
  <2>2. /\ b \in Texts /\ Len(b) = Len(<<DATA>>) + Len(line)
        /\ \A i \in 1..Len(<<DATA>>) : b[i] = <<DATA>>[i]
        /\ \A i \in 1..Len(line) : b[Len(<<DATA>>) + i] = line[i]
    BY <2>1, ConcatShape DEF Texts
  <2>3. \A i \in 1..Len(line) : line[i] # CR
    BY DEF Plain
  <2> QED BY <2>1, <2>2, <2>3
<1>4. Head(b) = DATA /\ b # <<>> /\ Last(b) # CR
  <2> HIDE DEF b
  <2>1. b # <<>> /\ Head(b) = b[1] /\ Last(b) = b[Len(b)]
    BY <1>3 DEF Last, Texts
  <2>2. b[Len(b)] # CR
    <3>1. CASE Len(line) = 0
      BY <1>3, <3>1
    <3>2. CASE Len(line) # 0
      <4>1. Len(line) \in 1..Len(line) /\ Len(b) = 1 + Len(line)
        BY <1>3, <3>2
      <4> QED BY <1>3, <4>1
    <3> QED BY <3>1, <3>2
  <2> QED BY <1>3, <2>1, <2>2
<1>5. StripCR(p.buffer) = b
  BY <1>1, <1>4 DEF StripCR
<1>6. Tail(b) = line
  <2> HIDE DEF b
  <2>1. Tail(b) \in Seq(TextBytes) /\ Len(Tail(b)) = Len(line) /\ \A i \in 1..Len(line) : Tail(b)[i] = b[1 + i]
    BY <1>3, <1>4, HeadTailProperties DEF Texts
  <2>2. line \in Seq(TextBytes)
    BY DEF Plain
  <2>3. \A i \in 1..Len(Tail(b)) : Tail(b)[i] = line[i]
    BY <1>3, <2>1
  <2> QED BY <2>1, <2>2, <2>3, SeqEqual
<1> DEFINE s == [p EXCEPT !.buffer = <<>>]
<1>7. q = ProcessLine(s, b)
  BY <1>5 DEF TakeByte
<1>8. q \in Parsers /\ q.failed = p.failed
  BY <1>2, TakeByteIs
<1>9. s.hasData = p.hasData /\ s.data = p.data /\ s.buffer = <<>> /\ s.events = p.events
  BY <1>2 DEF Parsers
<1> HIDE DEF q, b
<1> DEFINE d == IF p.hasData THEN p.data \o <<LF>> \o line ELSE line
<1>10. q = [s EXCEPT !.hasData = TRUE, !.data = d]
  BY <1>4, <1>6, <1>7, <1>9 DEF ProcessLine
<1> HIDE DEF d
<1>11. q.buffer = <<>> /\ q.hasData /\ q.data = d /\ q.events = p.events
  BY <1>2, <1>9, <1>10 DEF Parsers
<1>12. d = w
  BY <1>1 DEF d
<1> QED BY <1>2, <1>8, <1>11, <1>12 DEF q

\* A line feed of a document, as two bytes of the event.
LEMMA KnowsNextLine ==
  ASSUME NEW p, NEW w \in Texts, Knows(p, w), LF # CR, DATA # CR, DATA # LF
  PROVE  Knows(TakeByte(TakeByte(p, LF), DATA), Append(w, LF))
<1> DEFINE q == TakeByte(p, LF)
           r == TakeByte(q, DATA)
<1>1. q \in Parsers /\ q.buffer = <<>> /\ q.hasData /\ q.data = w /\ q.events = <<>>
  BY KnowsLine
<1> HIDE DEF q
<1>2. DATA \in TextBytes /\ <<>> \in Seq(Plain) /\ <<LF>> \in Texts /\ <<DATA>> \in Texts
  BY DEF TextBytes, Texts
<1>3. /\ r \in Parsers /\ r.buffer = Append(q.buffer, DATA) /\ r.events = <<>>
      /\ r.hasData = q.hasData /\ r.data = q.data
  <2>1. r \in Parsers
    BY <1>1, <1>2, TakeByteIs
  <2>2. r = [q EXCEPT !.buffer = Append(@, DATA)]
    BY DEF TakeByte
  <2> HIDE DEF r
  <2> QED BY <1>1, <2>1, <2>2 DEF Parsers
<1> HIDE DEF r
<1>4. r.buffer = <<DATA>> \o <<>>
  BY <1>1, <1>2, <1>3 DEF Texts
<1>5. Append(w, LF) = r.data \o <<LF>> \o <<>>
  <2> DEFINE d == w \o <<LF>>
  <2>1. d \in Texts /\ Append(w, LF) = d
    BY <1>2, ConcatShape, AppendIsConcat DEF Texts, TextBytes
  <2>2. d \o <<>> = d
    <3> HIDE DEF d
    <3> QED BY <2>1 DEF Texts
  <2> QED BY <1>1, <1>3, <2>1, <2>2
<1>6. Knows(r, Append(w, LF))
  BY <1>1, <1>2, <1>3, <1>4, <1>5 DEF Knows
<1> QED BY <1>6 DEF q, r

LEMMA EncodeLoop ==
  ASSUME NEW d \in Texts
  PROVE  \E f \in [0..Len(d) -> Texts] :
           /\ f[0] = <<DATA>>
           /\ \A i \in 1..Len(d) : f[i] = f[i - 1] \o Escaped(d[i])
           /\ EncodeEvent(d) = f[Len(d)] \o <<LF, LF>>
<1> DEFINE n == Len(d)
           body == [i \in 1..n |-> [v \in Texts |-> v \o Escaped(d[i])]]
           f == CHOOSE f : f = [i \in 0..n |-> IF i = 0 THEN <<DATA>> ELSE f[i - 1] \o Escaped(d[i])]
<1>0. n \in Nat /\ <<DATA>> \in Texts /\ \A i \in 1..n : Escaped(d[i]) \in Texts
  <2>1. <<DATA>> \in Texts /\ <<LF, DATA>> \in Texts /\ n \in Nat /\ \A i \in 1..n : <<d[i]>> \in Texts
    BY DEF Texts, TextBytes
  <2> QED BY <2>1 DEF Escaped
<1> HIDE DEF n
<1>1. body \in [1..n -> [Texts -> Texts]]
  <2>1. ASSUME NEW i \in 1..n, NEW v \in Texts PROVE v \o Escaped(d[i]) \in Texts
    BY <1>0, ConcatShape DEF Texts
  <2> QED BY <2>1
<1>2. PICK g \in [0..n -> Texts] : g[0] = <<DATA>> /\ \A i \in 1..n : g[i] = body[i][g[i - 1]]
  <2> HIDE DEF body
  <2>1. HasLoop(n, Texts, <<DATA>>, body)
    BY <1>0, <1>1, LoopExists
  <2> QED BY <2>1 DEF HasLoop
<1>3. \A i \in 1..n : g[i] = g[i - 1] \o Escaped(d[i])
  <2> SUFFICES ASSUME NEW i \in 1..n PROVE g[i] = g[i - 1] \o Escaped(d[i])
    OBVIOUS
  <2>1. g[i - 1] \in Texts
    <3>1. i - 1 \in 0..n
      BY <1>0
    <3> QED BY <1>2, <3>1
  <2>2. body[i][g[i - 1]] = g[i - 1] \o Escaped(d[i])
    BY <2>1
  <2> HIDE DEF body
  <2> QED BY <1>2, <2>2
<1> HIDE DEF body
<1>4. g = [i \in 0..n |-> IF i = 0 THEN <<DATA>> ELSE g[i - 1] \o Escaped(d[i])]
  <2>1. \A i \in 0..n : i # 0 => i \in 1..n
    BY <1>0
  <2>2. \A i \in 0..n : g[i] = IF i = 0 THEN <<DATA>> ELSE g[i - 1] \o Escaped(d[i])
    BY <1>2, <1>3, <2>1
  <2> QED BY <1>2, <2>2
<1>5. f = [i \in 0..n |-> IF i = 0 THEN <<DATA>> ELSE f[i - 1] \o Escaped(d[i])]
  BY <1>4
<1>6. EncodeEvent(d) = f[n] \o <<LF, LF>>
  BY DEF EncodeEvent, n
<1> HIDE DEF f
<1>7. f[0] = <<DATA>> /\ \A i \in 1..n : f[i] = f[i - 1] \o Escaped(d[i])
  <2>1. 0 \in 0..n /\ \A i \in 1..n : i \in 0..n /\ i # 0
    BY <1>0
  <2> QED BY <1>5, <2>1
<1>8. f[n] = g[n]
  <2>1. f[0] = g[0] /\ n \in Nat
    BY <1>0, <1>2, <1>7
  <2>2. \A i \in 1..n : f[i - 1] = g[i - 1] => f[i] = g[i]
    BY <1>3, <1>7
  <2> QED BY <2>1, <2>2, LoopsAgree, Zenon
<1> QED BY <1>2, <1>3, <1>6, <1>8 DEF n

\* Any document without a CR, which TOON escapes, is one event of the bytes that
\* encode_event and encodeEvent make of it, line by line, for either parser.
THEOREM EncodedEventsRead ==
  ASSUME NEW d \in Seq(Plain), LF # CR, DATA # CR, DATA # LF
  PROVE  /\ EncodeEvent(d) \in Texts
         /\ TakeBytes(NewParser, EncodeEvent(d)).events = <<d>>
<1>0. d \in Texts /\ Len(d) \in Nat /\ <<LF>> \in Texts /\ <<LF, LF>> \in Texts
      /\ LF \in TextBytes /\ DATA \in TextBytes /\ <<>> \in Texts
  BY DEF Plain, Texts, TextBytes
<1>1. PICK f \in [0..Len(d) -> Texts] :
        /\ f[0] = <<DATA>>
        /\ \A i \in 1..Len(d) : f[i] = f[i - 1] \o Escaped(d[i])
        /\ EncodeEvent(d) = f[Len(d)] \o <<LF, LF>>
  BY <1>0, EncodeLoop
<1> DEFINE Fed(i) == TakeBytes(NewParser, f[i])
           S == {i \in 0..Len(d) : Knows(Fed(i), SubSeq(d, 1, i))}
<1>2. NewParser \in Parsers /\ NewParser.events = <<>> /\ ~NewParser.hasData /\ NewParser.buffer = <<>>
  BY NewParserIs DEF NewParser
<1>3. 0 \in S
  <2> DEFINE q == TakeByte(NewParser, DATA)
  <2>1. <<DATA>> = Append(<<>>, DATA)
    OBVIOUS
  <2>2. Fed(0) = q
    <3>1. TakeBytes(NewParser, Append(<<>>, DATA)) = TakeByte(TakeBytes(NewParser, <<>>), DATA)
      BY <1>0, <1>2, TakeBytesStep
    <3>2. TakeBytes(NewParser, <<>>) = NewParser
      BY <1>2, TakeBytesStep
    <3>3. f[0] = Append(<<>>, DATA)
      BY <1>1, <2>1
    <3> QED BY <3>1, <3>2, <3>3
  <2>3. q \in Parsers
    BY <1>0, <1>2, TakeByteIs
  <2>4. q = [NewParser EXCEPT !.buffer = Append(@, DATA)]
    BY DEF TakeByte
  <2> HIDE DEF q
  <2>5. q.buffer = <<DATA>> \o <<>> /\ q.events = <<>> /\ ~q.hasData
    BY <1>2, <2>1, <2>4 DEF Parsers
  <2>6. SubSeq(d, 1, 0) = <<>> /\ <<>> \in Seq(Plain)
    BY <1>0 DEF Texts
  <2>7. Knows(q, <<>>)
    BY <2>3, <2>5, <2>6 DEF Knows
  <2>8. Knows(Fed(0), SubSeq(d, 1, 0))
    <3> HIDE DEF Fed
    <3> QED BY <2>2, <2>6, <2>7
  <2> QED BY <1>0, <2>8
<1>4. ASSUME NEW i \in 0..(Len(d) - 1), i \in S
      PROVE  i + 1 \in S
  <2> DEFINE p == Fed(i)
             w == SubSeq(d, 1, i)
             x == d[i + 1]
  <2>1. i + 1 \in 1..Len(d) /\ (i + 1) - 1 = i /\ i \in 0..Len(d) /\ i + 1 \in 0..Len(d)
    BY <1>0
  <2>2. Knows(p, w) /\ p \in Parsers
    BY <1>4 DEF Knows
  <2>3. w \in Texts /\ x \in Plain /\ x \in TextBytes /\ SubSeq(d, 1, i + 1) = Append(w, x)
    <3>1. x \in Plain
      BY <2>1
    <3>2. 0 \in 0..Len(d) /\ 0 + i + 1 <= Len(d) /\ 0 + 1 = 1 /\ 0 + i = i /\ i \in Nat
      BY <1>0
    <3>3. /\ SubSeq(d, 0 + 1, 0 + i) \in Texts
          /\ SubSeq(d, 0 + 1, 0 + i + 1) = Append(SubSeq(d, 0 + 1, 0 + i), d[0 + i + 1])
      BY <1>0, <3>2, PieceGrows
    <3> QED BY <3>1, <3>2, <3>3 DEF Plain
  <2>4. f[i] \in Texts /\ f[i + 1] = f[i] \o Escaped(x)
    <3>1. f[i + 1] = f[(i + 1) - 1] \o Escaped(d[i + 1])
      BY <1>1, <2>1
    <3> QED BY <1>1, <2>1, <3>1
  <2>5. CASE x # LF
    <3>1. f[i + 1] = Append(f[i], x)
      BY <2>3, <2>4, <2>5, AppendIsConcat DEF Escaped, Texts
    <3>2. Fed(i + 1) = TakeByte(p, x)
      BY <1>2, <2>3, <2>4, <3>1, TakeBytesStep
    <3> HIDE DEF p, w, x, Fed
    <3>3. Knows(TakeByte(p, x), Append(w, x))
      BY <2>2, <2>3, <2>5, KnowsMore
    <3> QED BY <2>1, <2>3, <3>2, <3>3
  <2>6. CASE x = LF
    <3> DEFINE a == f[i]
               b == Append(a, LF)
    <3>1. b \in Texts /\ Append(b, DATA) = a \o <<LF, DATA>>
      <4> HIDE DEF a
      <4>0. a \in Texts
        BY <2>4 DEF a
      <4>1. b \in Texts
        BY <1>0, <4>0 DEF Texts
      <4>2. b = a \o <<LF>> /\ Append(b, DATA) = b \o <<DATA>>
        <5>1. b = a \o <<LF>>
          BY <1>0, <4>0, AppendIsConcat DEF Texts
        <5> HIDE DEF b
        <5> QED BY <1>0, <4>1, <5>1, AppendIsConcat DEF Texts
      <4>3. Associates(a, <<LF>>, <<DATA>>)
        <5>1. <<DATA>> \in Seq(TextBytes) /\ <<LF>> \in Seq(TextBytes)
          BY <1>0
        <5> QED BY <4>0, <5>1, JoinsAssociate DEF Texts
      <4>4. <<LF>> \o <<DATA>> = <<LF, DATA>>
        OBVIOUS
      <4> HIDE DEF b
      <4> QED BY <4>1, <4>2, <4>3, <4>4 DEF Associates
    <3>2. f[i + 1] = Append(b, DATA)
      BY <2>4, <2>6, <3>1 DEF Escaped
    <3>3. TakeBytes(NewParser, b) = TakeByte(p, LF)
      BY <1>0, <1>2, <2>4, TakeBytesStep
    <3> HIDE DEF b
    <3>4. Fed(i + 1) = TakeByte(TakeByte(p, LF), DATA)
      <4>1. TakeBytes(NewParser, Append(b, DATA)) = TakeByte(TakeBytes(NewParser, b), DATA)
        BY <1>0, <1>2, <3>1, TakeBytesStep
      <4>2. Fed(i + 1) = TakeBytes(NewParser, Append(b, DATA))
        BY <3>2
      <4> HIDE DEF Fed, p
      <4> QED BY <3>3, <4>1, <4>2
    <3> HIDE DEF p, w, x, Fed
    <3>5. Knows(TakeByte(TakeByte(p, LF), DATA), Append(w, LF))
      BY <2>2, <2>3, KnowsNextLine
    <3> QED BY <2>1, <2>3, <2>6, <3>4, <3>5
  <2> QED BY <2>5, <2>6
<1>5. Len(d) \in S
  <2> HIDE DEF S
  <2>1. 0..Len(d) \subseteq S
    BY <1>0, <1>3, <1>4, UpToInduction
  <2> QED BY <1>0, <2>1
<1> DEFINE a == f[Len(d)]
           p == TakeBytes(NewParser, a)
           b == Append(a, LF)
           q == TakeByte(p, LF)
           r == TakeByte(q, LF)
<1>6. a \in Texts
  <2>1. Len(d) \in 0..Len(d)
    BY <1>0
  <2> QED BY <1>1, <2>1
<1>7. Knows(p, d) /\ p \in Parsers
  <2>1. SubSeq(d, 1, Len(d)) = d
    BY SubSeqFull
  <2> QED BY <1>5, <2>1 DEF Knows
<1> HIDE DEF a
<1>8. b \in Texts /\ Append(b, LF) = a \o <<LF, LF>> /\ Append(b, LF) \in Texts
  <2>1. b \in Texts
    BY <1>0, <1>6 DEF Texts
  <2>2. b = a \o <<LF>>
    BY <1>0, <1>6, AppendIsConcat DEF Texts
  <2> HIDE DEF b
  <2>3. Append(b, LF) = b \o <<LF>> /\ Append(b, LF) \in Texts
    BY <1>0, <2>1, AppendIsConcat DEF Texts
  <2>4. Associates(a, <<LF>>, <<LF>>)
    BY <1>0, <1>6, JoinsAssociate DEF Texts
  <2>5. <<LF>> \o <<LF>> = <<LF, LF>>
    <3>1. Append(<<LF>>, LF) = <<LF>> \o <<LF>>
      BY <1>0, AppendIsConcat DEF Texts
    <3>2. Append(<<LF>>, LF) = <<LF, LF>>
      OBVIOUS
    <3> QED BY <3>1, <3>2
  <2> QED BY <2>1, <2>2, <2>3, <2>4, <2>5 DEF Associates
<1>9. TakeBytes(NewParser, b) = q
  BY <1>0, <1>2, <1>6, TakeBytesStep
<1> HIDE DEF b, p
<1>10. EncodeEvent(d) = Append(b, LF)
  BY <1>1, <1>8 DEF a
<1>11. TakeBytes(NewParser, EncodeEvent(d)) = r
  <2>1. TakeBytes(NewParser, Append(b, LF)) = TakeByte(TakeBytes(NewParser, b), LF)
    BY <1>0, <1>2, <1>8, TakeBytesStep
  <2> HIDE DEF q
  <2>2. TakeBytes(NewParser, EncodeEvent(d)) = TakeByte(q, LF)
    BY <1>9, <1>10, <2>1
  <2> QED BY <2>2
<1>12. q \in Parsers /\ q.buffer = <<>> /\ q.hasData /\ q.data = d /\ q.events = <<>>
  BY <1>7, KnowsLine
<1> HIDE DEF q
<1>13. StripCR(<<>>) = <<>>
  BY DEF StripCR
<1> DEFINE s == [q EXCEPT !.buffer = <<>>]
<1>14. s.hasData /\ s.data = d /\ s.events = <<>> /\ s \in Parsers
  BY <1>0, <1>12 DEF Parsers
<1>15. r = ProcessLine(s, <<>>)
  BY <1>12, <1>13 DEF TakeByte
<1> HIDE DEF s, r
<1>16. r.events = Append(s.events, s.data)
  BY <1>14, <1>15 DEF ProcessLine, Parsers
<1>17. Append(<<>>, d) = <<d>>
  OBVIOUS
<1>18. r.events = <<d>>
  BY <1>14, <1>16, <1>17
<1>19. EncodeEvent(d) \in Texts
  BY <1>8, <1>10
<1> QED BY <1>11, <1>18, <1>19

-----------------------------------------------------------------------------
(* The frames of a dual dialect stream. *)

\* The k bytes in front of a text that are line ends, and no more.
PaddedBy(b, k) ==
  /\ k \in 0..Len(b)
  /\ \A i \in 1..k : b[i] \in {CR, LF}
  /\ k < Len(b) => b[k + 1] \notin {CR, LF}

LEMMA UnpaddedIs ==
  ASSUME NEW b \in Texts
  PROVE  \E k \in 0..Len(b) : PaddedBy(b, k) /\ Unpadded(b) = SubSeq(b, k + 1, Len(b))
<1> DEFINE I == {i \in 1..Len(b) : b[i] \notin {CR, LF}}
           n == Len(b)
<1>0. n \in Nat
  BY DEF Texts
<1>1. Padding(b) = (IF I # {} THEN Min(I) ELSE 0) - 1
  BY DEF Padding, SelectInSeq
<1>2. I \in SUBSET Nat
  OBVIOUS
<1>3. CASE I = {}
  <2>1. Padding(b) = 0 - 1
    BY <1>1, <1>3
  <2>2. Unpadded(b) = <<>>
    BY <2>1 DEF Unpadded
  <2>3. \A i \in 1..n : b[i] \in {CR, LF}
    BY <1>3
  <2>4. SubSeq(b, n + 1, n) = <<>>
    BY <1>0, SubSeqEmpty
  <2>5. PaddedBy(b, n)
    BY <1>0, <2>3 DEF PaddedBy
  <2> QED BY <1>0, <2>2, <2>4, <2>5
<1>4. CASE I # {}
  <2> DEFINE t == Min(I)
  <2>1. t \in I /\ \A j \in I : t <= j
    <3> HIDE DEF I
    <3> QED BY <1>2, <1>4, LeastPosition
  <2>2. t \in 1..n /\ b[t] \notin {CR, LF}
    BY <2>1
  <2>3. ASSUME NEW i \in 1..(t - 1)
        PROVE  b[i] \in {CR, LF}
    <3>1. i \in 1..n /\ ~(t <= i)
      BY <1>0, <2>2
    <3> QED BY <2>1, <3>1
  <2> HIDE DEF I
  <2>4. Padding(b) = t - 1
    BY <1>1, <1>4
  <2> HIDE DEF t
  <2>5. Unpadded(b) = SubSeq(b, (t - 1) + 1, n)
    BY <1>0, <2>2, <2>4 DEF Unpadded
  <2>6. t - 1 \in 0..n /\ (t - 1) + 1 = t
    BY <1>0, <2>2
  <2>7. PaddedBy(b, t - 1)
    BY <2>2, <2>3, <2>6 DEF PaddedBy
  <2> QED BY <2>5, <2>6, <2>7
<1> QED BY <1>3, <1>4

\* One number of them it is.
LEMMA UnpaddedOf ==
  ASSUME NEW b \in Texts, NEW k, PaddedBy(b, k)
  PROVE  Unpadded(b) = SubSeq(b, k + 1, Len(b)) /\ Unpadded(b) \in Texts
<1> DEFINE n == Len(b)
<1>0. n \in Nat
  BY DEF Texts
<1>1. PICK m \in 0..n : PaddedBy(b, m) /\ Unpadded(b) = SubSeq(b, m + 1, n)
  BY UnpaddedIs
<1>2. /\ m \in 0..n /\ k \in 0..n
      /\ \A i \in 1..k : b[i] \in {CR, LF}
      /\ \A i \in 1..m : b[i] \in {CR, LF}
      /\ k < n => b[k + 1] \notin {CR, LF}
      /\ m < n => b[m + 1] \notin {CR, LF}
  BY <1>1 DEF PaddedBy
<1>3. m = k
  <2>1. ~(m < k)
    <3> SUFFICES ASSUME m < k PROVE FALSE
      OBVIOUS
    <3>1. m + 1 \in 1..k /\ m < n
      BY <1>0, <1>2
    <3> QED BY <1>2, <3>1
  <2>2. ~(k < m)
    <3> SUFFICES ASSUME k < m PROVE FALSE
      OBVIOUS
    <3>1. k + 1 \in 1..m /\ k < n
      BY <1>0, <1>2
    <3> QED BY <1>2, <3>1
  <2> QED BY <1>2, <2>1, <2>2
<1>4. SubSeq(b, m + 1, n) \in Texts
  BY <1>0, <1>1 DEF Texts
<1> QED BY <1>1, <1>3, <1>4

\* A text behind the line ends in front of it.
LEMMA PaddingAside ==
  ASSUME NEW b \in Texts
  PROVE  \E a \in Texts : /\ PaddedBy(b, Len(a))
                          /\ \A i \in 1..Len(a) : a[i] \in {CR, LF}
                          /\ b = a \o Unpadded(b) /\ Unpadded(b) \in Texts
                          /\ Unpadded(b) # <<>> => Head(Unpadded(b)) \notin {CR, LF}
<1> DEFINE n == Len(b)
<1>0. n \in Nat
  BY DEF Texts
<1>1. PICK k \in 0..n : PaddedBy(b, k) /\ Unpadded(b) = SubSeq(b, k + 1, n)
  BY UnpaddedIs
<1> DEFINE a == SubSeq(b, 1, k)
           u == SubSeq(b, k + 1, n)
<1>2. a \in Texts /\ Len(a) = k /\ \A i \in 1..k : a[i] = b[i]
  BY <1>0 DEF Texts
<1>3. u \in Texts
  BY <1>0 DEF Texts
<1>4. a \o u = SubSeq(b, 1, n)
  <2>1. 1 \in 1..(Len(b) + 1) /\ k \in (1 - 1)..Len(b) /\ n \in k..Len(b)
    BY <1>0
  <2> QED BY <2>1, ConcatAdjacentSubSeq DEF Texts
<1>5. SubSeq(b, 1, n) = b
  BY SubSeqFull DEF Texts
<1>6. ASSUME u # <<>>
      PROVE  Head(u) \notin {CR, LF}
  <2>1. k < n
    <3>1. SubSeq(b, n + 1, n) = <<>>
      BY <1>0, SubSeqEmpty
    <3> QED BY <1>0, <1>6, <3>1
  <2>2. Head(u) = b[k + 1]
    <3>1. k + 1 \in 1..Len(b) /\ n \in (k + 1)..Len(b)
      BY <1>0, <2>1
    <3> QED BY <3>1, HeadTailOfSubSeq DEF Texts
  <2> QED BY <1>1, <2>1, <2>2 DEF PaddedBy
<1>7. \A i \in 1..Len(a) : a[i] \in {CR, LF}
  BY <1>1, <1>2 DEF PaddedBy
<1> HIDE DEF a, u
<1>8. Unpadded(b) = u
  BY <1>1 DEF u
<1>9. PaddedBy(b, Len(a)) /\ b = a \o u
  BY <1>1, <1>2, <1>4, <1>5
<1> QED BY <1>2, <1>3, <1>6, <1>7, <1>8, <1>9

\* Line ends in front of a text are no part of it.
LEMMA PaddedIs ==
  ASSUME NEW a \in Texts, NEW v \in Texts, \A i \in 1..Len(a) : a[i] \in {CR, LF}
  PROVE  Unpadded(a \o v) = Unpadded(v) /\ a \o v \in Texts
<1> DEFINE w == a \o v
           k == Len(a)
           n == Len(v)
<1>1. /\ w \in Texts /\ Len(w) = k + n /\ k \in Nat /\ n \in Nat
      /\ \A i \in 1..k : w[i] = a[i]
      /\ \A i \in 1..n : w[k + i] = v[i]
  BY ConcatShape DEF Texts
<1>2. PICK m \in 0..n : PaddedBy(v, m) /\ Unpadded(v) = SubSeq(v, m + 1, n)
  BY UnpaddedIs
<1> HIDE DEF w
<1>3. PaddedBy(w, k + m)
  <2>1. ASSUME NEW i \in 1..(k + m)
        PROVE  w[i] \in {CR, LF}
    <3>1. CASE i \in 1..k
      BY <1>1, <3>1
    <3>2. CASE i \notin 1..k
      <4>1. i - k \in 1..m /\ i - k \in 1..n /\ k + (i - k) = i
        BY <1>1, <3>2
      <4>2. w[i] = v[i - k]
        BY <1>1, <4>1
      <4> QED BY <1>2, <4>1, <4>2 DEF PaddedBy
    <3> QED BY <3>1, <3>2
  <2>2. ASSUME k + m < Len(w)
        PROVE  w[(k + m) + 1] \notin {CR, LF}
    <3>1. m < n /\ m + 1 \in 1..n /\ k + (m + 1) = (k + m) + 1
      BY <1>1, <2>2
    <3>2. w[(k + m) + 1] = v[m + 1]
      BY <1>1, <3>1
    <3> QED BY <1>2, <3>1, <3>2 DEF PaddedBy
  <2>3. k + m \in 0..Len(w)
    BY <1>1
  <2> QED BY <2>1, <2>2, <2>3 DEF PaddedBy
<1>4. Unpadded(w) = SubSeq(w, (k + m) + 1, Len(w))
  BY <1>1, <1>3, UnpaddedOf
<1>5. SubSeq(w, (k + m) + 1, Len(w)) = SubSeq(v, m + 1, n)
  <2> DEFINE x == SubSeq(w, (k + m) + 1, Len(w))
             y == SubSeq(v, m + 1, n)
  <2>1. x \in Seq(TextBytes) /\ Len(x) = n - m /\ \A i \in 1..(n - m) : x[i] = w[k + m + i]
    <3>1. \A i \in ((k + m) + 1)..Len(w) : w[i] \in TextBytes
      BY <1>1 DEF Texts
    <3> QED BY <1>1, <3>1, SubSeqProperties
  <2>2. y \in Seq(TextBytes) /\ Len(y) = n - m /\ \A i \in 1..(n - m) : y[i] = v[m + i]
    <3>1. \A i \in (m + 1)..n : v[i] \in TextBytes
      BY <1>1 DEF Texts
    <3> QED BY <1>1, <3>1, SubSeqProperties
  <2> HIDE DEF x, y
  <2>3. \A i \in 1..(n - m) : w[k + m + i] = v[m + i]
    <3> SUFFICES ASSUME NEW i \in 1..(n - m) PROVE w[k + m + i] = v[m + i]
      OBVIOUS
    <3>1. m + i \in 1..n /\ k + (m + i) = k + m + i
      BY <1>1
    <3> QED BY <1>1, <3>1
  <2>4. x = y
    <3>1. \A i \in 1..Len(x) : x[i] = y[i]
      BY <2>1, <2>2, <2>3
    <3> QED BY <2>1, <2>2, <3>1, SeqEqual
  <2> QED BY <2>4 DEF x, y
<1> QED BY <1>1, <1>2, <1>4, <1>5 DEF w

\* Line ends may be left out before more comes, or behind it.
LEMMA UnpaddedJoin ==
  ASSUME NEW b \in Texts, NEW c \in Texts
  PROVE  /\ b \o c \in Texts /\ Unpadded(b) \in Texts /\ Unpadded(b) \o c \in Texts
         /\ Unpadded(Unpadded(b) \o c) = Unpadded(b \o c)
         /\ Unpadded(b) # <<>> => Unpadded(b \o c) = Unpadded(b) \o c
<1>1. PICK a \in Texts : /\ \A i \in 1..Len(a) : a[i] \in {CR, LF}
                         /\ b = a \o Unpadded(b) /\ Unpadded(b) \in Texts
                         /\ Unpadded(b) # <<>> => Head(Unpadded(b)) \notin {CR, LF}
  BY PaddingAside
<1> DEFINE u == Unpadded(b)
           v == u \o c
<1>2. v \in Texts /\ b \o c \in Texts
  BY <1>1, ConcatShape DEF Texts
<1>3. b \o c = a \o v
  <2>1. Associates(a, u, c)
    BY <1>1, JoinsAssociate DEF Texts
  <2>2. b = a \o u
    BY <1>1
  <2> HIDE DEF u
  <2> QED BY <2>1, <2>2 DEF Associates
<1>4. Unpadded(a \o v) = Unpadded(v)
  <2> HIDE DEF v
  <2> QED BY <1>1, <1>2, PaddedIs
<1>5. ASSUME u # <<>>
      PROVE  Unpadded(v) = v
  <2>1. /\ u \in Texts /\ Len(u) \in Nat /\ Len(u) > 0 /\ Head(u) = u[1]
    <3> HIDE DEF u
    <3> QED BY <1>1, <1>5, EmptySeq DEF Texts, u
  <2>2. Len(v) = Len(u) + Len(c) /\ v[1] = u[1] /\ Len(c) \in Nat
    <3>1. 1 \in 1..Len(u)
      BY <2>1
    <3> HIDE DEF u
    <3> QED BY <2>1, <3>1, ConcatShape DEF Texts
  <2>3. v[1] \notin {CR, LF}
    BY <1>1, <1>5, <2>1, <2>2
  <2> HIDE DEF u, v
  <2>4. PaddedBy(v, 0)
    BY <2>1, <2>2, <2>3 DEF PaddedBy
  <2>5. Unpadded(v) = SubSeq(v, 0 + 1, Len(v))
    BY <1>2, <2>4, UnpaddedOf
  <2>6. SubSeq(v, 1, Len(v)) = v
    BY <1>2, SubSeqFull DEF Texts
  <2> QED BY <2>5, <2>6
<1> QED BY <1>1, <1>2, <1>3, <1>4, <1>5

LEMMA UnpaddedAgain ==
  ASSUME NEW b \in Texts
  PROVE  /\ Unpadded(Unpadded(b)) = Unpadded(b) /\ Unpadded(b) \in Texts
         /\ Len(Unpadded(b)) <= Len(b)
         /\ b = <<>> => Unpadded(b) = <<>>
<1>1. <<>> \in Texts /\ b \o <<>> = b
  BY DEF Texts
<1>2. Unpadded(b) \in Texts
  BY UnpaddedJoin
<1>3. Unpadded(b) \o <<>> = Unpadded(b)
  BY <1>2 DEF Texts
<1>4. Unpadded(Unpadded(b)) = Unpadded(b)
  BY <1>1, <1>3, UnpaddedJoin
<1>5. PICK a \in Texts : b = a \o Unpadded(b)
  BY PaddingAside
<1>6. Len(b) = Len(a) + Len(Unpadded(b)) /\ Len(a) \in Nat /\ Len(b) \in Nat /\ Len(Unpadded(b)) \in Nat
  <2> DEFINE u == Unpadded(b)
  <2>1. Len(a \o u) = Len(a) + Len(u) /\ Len(a) \in Nat /\ Len(u) \in Nat
    BY <1>2, ConcatShape DEF Texts
  <2> HIDE DEF u
  <2>2. b = a \o u
    BY <1>5 DEF u
  <2> QED BY <2>1, <2>2 DEF u
<1>7. Len(Unpadded(b)) <= Len(b)
  <2> DEFINE u == Len(Unpadded(b))
  <2> HIDE DEF u
  <2> QED BY <1>6 DEF u
<1>8. ASSUME b = <<>>
      PROVE  Unpadded(b) = <<>>
  <2>1. Len(Unpadded(b)) = 0
    BY <1>6, <1>7, <1>8
  <2> QED BY <1>2, <2>1, EmptySeq DEF Texts
<1> QED BY <1>2, <1>4, <1>7, <1>8

-----------------------------------------------------------------------------
(* Where the frame in front of a text ends, and the next begins. *)

LineStop(t, l) == l \in 1..Len(t) /\ t[l] = LF /\ \A i \in 1..(l - 1) : t[i] # LF
BlankStop(t, l) == l \in 1..Len(t) /\ BlankLine(t, l) > 0 /\ \A i \in 1..(l - 1) : ~(BlankLine(t, i) > 0)

FrameStop(t, l, from) ==
  /\ t # <<>>
  /\ IF sniffDialect(t) = "jsonrpc" THEN LineStop(t, l) /\ from = l + 1
     ELSE BlankStop(t, l) /\ from = l + BlankLine(t, l)

FrameOf(t, l) ==
  [frame |-> IF sniffDialect(t) = "jsonrpc" THEN StripCR(SubSeq(t, 1, l - 1)) ELSE SubSeq(t, 1, l - 1),
   dialect |-> sniffDialect(t)]

\* What ends a line, place by place.
LEMMA LineEndIs ==
  ASSUME NEW t \in Texts, NEW i \in Nat \ {0}, CR # LF
  PROVE  /\ LineEnd(t, i) \in {0, 1, 2}
         /\ LineEnd(t, i) = 1 <=> i <= Len(t) /\ t[i] = LF
         /\ LineEnd(t, i) = 2 <=> i < Len(t) /\ t[i] = CR /\ t[i + 1] = LF
BY DEF LineEnd, Texts

LEMMA BlankLineIs ==
  ASSUME NEW t \in Texts, NEW i \in Nat \ {0}, CR # LF
  PROVE  /\ BlankLine(t, i) \in 0..4
         /\ BlankLine(t, i) > 0 => /\ LineEnd(t, i) \in {1, 2} /\ LineEnd(t, i + LineEnd(t, i)) \in {1, 2}
                                   /\ BlankLine(t, i) = LineEnd(t, i) + LineEnd(t, i + LineEnd(t, i))
                                   /\ i + BlankLine(t, i) <= Len(t) + 1
         /\ LineEnd(t, i) \in {1, 2} /\ LineEnd(t, i + LineEnd(t, i)) \in {1, 2} => BlankLine(t, i) > 0
<1> DEFINE p == LineEnd(t, i)
           q == LineEnd(t, i + p)
           n == Len(t)
<1>1. n \in Nat
  BY DEF Texts
<1>2. p \in {0, 1, 2}
  BY LineEndIs
<1>3. BlankLine(t, i) = IF (IF p = 0 THEN 0 ELSE q) = 0 THEN 0 ELSE p + (IF p = 0 THEN 0 ELSE q)
  BY DEF BlankLine
<1>4. i + p \in Nat \ {0}
  BY <1>2
<1>5. q \in {0, 1, 2} /\ (q = 1 => i + p <= n) /\ (q = 2 => i + p < n)
  <2> HIDE DEF p
  <2> QED BY <1>4, LineEndIs
<1> HIDE DEF p, q, n
<1>6. CASE p = 0 \/ q = 0
  BY <1>1, <1>3, <1>6 DEF p, q, n
<1>7. CASE p \in {1, 2} /\ q \in {1, 2}
  <2>1. BlankLine(t, i) = p + q
    BY <1>3, <1>7
  <2>2. i + (p + q) <= n + 1
    BY <1>1, <1>5, <1>7
  <2> QED BY <1>7, <2>1, <2>2 DEF p, q, n
<1> QED BY <1>2, <1>5, <1>6, <1>7

\* More bytes leave a line's end where it is, and make none in front of the last byte.
LEMMA LineEndStays ==
  ASSUME NEW t \in Texts, NEW c \in Texts, NEW i \in Nat \ {0}, CR # LF
  PROVE  /\ LineEnd(t, i) # 0 => LineEnd(t \o c, i) = LineEnd(t, i)
         /\ i < Len(t) => LineEnd(t \o c, i) = LineEnd(t, i)
         /\ i = Len(t) /\ t[i] = LF => LineEnd(t, i) = 1
<1> DEFINE w == t \o c
           n == Len(t)
           m == Len(w)
<1>1. w \in Texts /\ n \in Nat /\ m \in Nat /\ n <= m /\ \A j \in 1..n : w[j] = t[j]
  BY ConcatShape DEF Texts
<1> HIDE DEF w
<1>2. /\ LineEnd(t, i) \in {0, 1, 2} /\ LineEnd(w, i) \in {0, 1, 2}
      /\ LineEnd(t, i) = 1 <=> i <= n /\ t[i] = LF
      /\ LineEnd(t, i) = 2 <=> i < n /\ t[i] = CR /\ t[i + 1] = LF
      /\ LineEnd(w, i) = 1 <=> i <= m /\ w[i] = LF
      /\ LineEnd(w, i) = 2 <=> i < m /\ w[i] = CR /\ w[i + 1] = LF
  BY <1>1, LineEndIs
<1> HIDE DEF n, m
<1>3. i <= n => w[i] = t[i]
  BY <1>1
<1>4. i < n => w[i + 1] = t[i + 1]
  BY <1>1
<1> QED BY <1>1, <1>2, <1>3, <1>4 DEF w, n

LEMMA BlankLineStays ==
  ASSUME NEW t \in Texts, NEW c \in Texts, NEW l, BlankStop(t, l), CR # LF
  PROVE  BlankStop(t \o c, l) /\ BlankLine(t \o c, l) = BlankLine(t, l)
<1> DEFINE w == t \o c
           n == Len(t)
<1>1. w \in Texts /\ n \in Nat /\ Len(w) \in Nat /\ n <= Len(w)
  BY ConcatShape DEF Texts
<1>2. l \in 1..n /\ l \in Nat \ {0} /\ BlankLine(t, l) > 0 /\ \A i \in 1..(l - 1) : ~(BlankLine(t, i) > 0)
  BY <1>1 DEF BlankStop
<1>3. /\ LineEnd(t, l) \in {1, 2} /\ LineEnd(t, l + LineEnd(t, l)) \in {1, 2}
      /\ BlankLine(t, l) = LineEnd(t, l) + LineEnd(t, l + LineEnd(t, l))
      /\ l + BlankLine(t, l) <= n + 1
  BY <1>2, BlankLineIs
<1> DEFINE p == LineEnd(t, l)
           q == LineEnd(t, l + p)
<1>4. l + p \in Nat \ {0}
  BY <1>2, <1>3
<1>5. LineEnd(w, l) = p
  BY <1>2, <1>3, LineEndStays
<1>6. LineEnd(w, l + p) = q
  <2> HIDE DEF p
  <2> QED BY <1>3, <1>4, LineEndStays DEF p
<1>7. BlankLine(w, l) = p + q
  BY <1>3, <1>5, <1>6 DEF BlankLine
<1> DEFINE r == BlankLine(t, l)
<1>a. r = p + q /\ p \in {1, 2} /\ q \in {1, 2} /\ l + r <= n + 1
  BY <1>3
<1>b. /\ (p = 1 => t[l] = LF) /\ (p = 2 => t[l] = CR /\ t[l + 1] = LF)
      /\ (q = 1 => t[l + p] = LF) /\ (q = 2 => t[l + p] = CR /\ t[l + p + 1] = LF)
  <2>1. (p = 1 => t[l] = LF) /\ (p = 2 => t[l] = CR /\ t[l + 1] = LF)
    BY <1>2, LineEndIs
  <2>2. (q = 1 => t[l + p] = LF) /\ (q = 2 => t[l + p] = CR /\ t[(l + p) + 1] = LF)
    <3> HIDE DEF p
    <3> QED BY <1>4, LineEndIs
  <2> QED BY <2>1, <2>2
<1>8. ASSUME NEW i \in 1..(l - 1)
      PROVE  ~(BlankLine(w, i) > 0)
  <2> SUFFICES ASSUME BlankLine(w, i) > 0 PROVE FALSE
    OBVIOUS
  <2> DEFINE a == LineEnd(w, i)
             b == LineEnd(w, i + a)
  <2>1. i \in Nat \ {0} /\ i < l /\ i < n
    BY <1>1, <1>2
  <2>2. a \in {1, 2} /\ b \in {1, 2}
    <3> HIDE DEF w
    <3> QED BY <1>1, <2>1, BlankLineIs
  <2>3. LineEnd(t, i) = a
    <3>1. LineEnd(w, i) = LineEnd(t, i)
      BY <2>1, LineEndStays
    <3> QED BY <3>1
  <2>4. i + a \in Nat \ {0}
    BY <2>1, <2>2
  <2>5. /\ (a = 1 => t[i] = LF) /\ (a = 2 => t[i + 1] = LF /\ i < n)
    <3> HIDE DEF a
    <3> QED BY <2>1, <2>3, LineEndIs
  <2>6. i + a <= l + 1
    <3> HIDE DEF a
    <3> QED BY <1>2, <2>1, <2>2
  <2>7. LineEnd(t, i + a) = b
    <3>1. CASE i + a < n
      <4>1. LineEnd(w, i + a) = LineEnd(t, i + a)
        <5> HIDE DEF a, w
        <5> QED BY <2>4, <3>1, LineEndStays DEF w
      <4> QED BY <4>1
    <3>2. CASE ~(i + a < n)
      <4> HIDE DEF w, a, p, q, r, n
      <4>1. p = 1 /\ q = 1 /\ i + a = n /\ i + a = l + 1
        BY <1>1, <1>2, <1>a, <2>1, <2>2, <2>6, <3>2
      <4>2. t[i + a] = LF
        BY <1>b, <4>1
      <4>3. LineEnd(t, i + a) = 1
        BY <1>1, <2>4, <4>1, <4>2, LineEndIs DEF n
      <4>4. LineEnd(w, i + a) = LineEnd(t, i + a)
        BY <2>4, <4>3, LineEndStays DEF w
      <4> QED BY <4>4
    <3> QED BY <3>1, <3>2
  <2>8. BlankLine(t, i) > 0
    <3> HIDE DEF w, a, b
    <3> QED BY <2>1, <2>2, <2>3, <2>7, BlankLineIs
  <2> QED BY <1>2, <2>8
<1>9. BlankLine(w, l) = BlankLine(t, l)
  BY <1>a, <1>7
<1>10. l \in 1..Len(w)
  BY <1>1, <1>2
<1>11. BlankStop(w, l)
  BY <1>2, <1>8, <1>9, <1>10 DEF BlankStop
<1> QED BY <1>9, <1>11

\* A frame that is there stays, whatever comes behind it.
LEMMA FrameStopStays ==
  ASSUME NEW t \in Texts, NEW c \in Texts, NEW l, NEW from, FrameStop(t, l, from), CR # LF
  PROVE  /\ l \in 1..Len(t) /\ from \in 2..(Len(t) + 1) /\ l < from
         /\ FrameStop(t \o c, l, from)
         /\ FrameOf(t \o c, l) = FrameOf(t, l)
<1> DEFINE w == t \o c
           n == Len(t)
<1>1. w \in Texts /\ n \in Nat /\ Len(w) \in Nat /\ n <= Len(w) /\ \A i \in 1..n : w[i] = t[i]
  BY ConcatShape DEF Texts
<1>2. t # <<>> /\ n > 0
  <2>1. n # 0
    BY EmptySeq DEF FrameStop, Texts
  <2> QED BY <1>1, <2>1 DEF FrameStop
<1>3. w # <<>> /\ sniffDialect(w) = sniffDialect(t)
  <2>1. Head(t) = t[1] /\ Head(w) = w[1] /\ w[1] = t[1]
    <3> HIDE DEF w
    <3> QED BY <1>1, <1>2 DEF Texts
  <2>2. w # <<>>
    <3> HIDE DEF w
    <3>1. Len(w) # 0
      BY <1>1, <1>2
    <3> QED BY <3>1
  <2> QED BY <2>1, <2>2 DEF sniffDialect
<1>4. l \in 1..n
  BY DEF FrameStop, LineStop, BlankStop
<1>5. SubSeq(w, 1, l - 1) = SubSeq(t, 1, l - 1)
  <2> DEFINE x == SubSeq(w, 1, l - 1)
             y == SubSeq(t, 1, l - 1)
  <2>1. x \in Seq(TextBytes) /\ Len(x) = l - 1 /\ \A i \in 1..(l - 1) : x[i] = w[i]
    <3> HIDE DEF w
    <3>1. \A i \in 1..(l - 1) : w[i] \in TextBytes
      BY <1>1, <1>4 DEF Texts
    <3> QED BY <1>1, <1>4, <3>1, SubSeqProperties
  <2>2. y \in Seq(TextBytes) /\ Len(y) = l - 1 /\ \A i \in 1..(l - 1) : y[i] = t[i]
    <3>1. \A i \in 1..(l - 1) : t[i] \in TextBytes
      BY <1>1, <1>4 DEF Texts
    <3> QED BY <1>1, <1>4, <3>1, SubSeqProperties
  <2> HIDE DEF x, y, w
  <2>3. \A i \in 1..Len(x) : x[i] = y[i]
    BY <1>1, <1>4, <2>1, <2>2
  <2>4. x = y
    BY <2>1, <2>2, <2>3, SeqEqual
  <2> QED BY <2>4 DEF x, y
<1>6. CASE sniffDialect(t) = "jsonrpc"
  <2>1. LineStop(t, l) /\ from = l + 1
    BY <1>6 DEF FrameStop
  <2> HIDE DEF w
  <2>2. LineStop(w, l)
    <3>1. l \in 1..Len(w) /\ \A i \in 1..l : w[i] = t[i]
      BY <1>1, <1>4
    <3> QED BY <2>1, <3>1 DEF LineStop
  <2>3. FrameStop(w, l, from)
    BY <1>3, <1>6, <2>1, <2>2 DEF FrameStop
  <2>4. FrameOf(w, l) = FrameOf(t, l)
    BY <1>3, <1>5 DEF FrameOf
  <2>5. from \in 2..(n + 1) /\ l < from
    BY <1>1, <1>4, <2>1
  <2> QED BY <1>4, <2>3, <2>4, <2>5 DEF w
<1>7. CASE sniffDialect(t) # "jsonrpc"
  <2>1. BlankStop(t, l) /\ from = l + BlankLine(t, l)
    BY <1>7 DEF FrameStop
  <2>2. BlankStop(w, l) /\ BlankLine(w, l) = BlankLine(t, l)
    BY <2>1, BlankLineStays
  <2> HIDE DEF w
  <2>3. FrameStop(w, l, from)
    BY <1>3, <1>7, <2>1, <2>2 DEF FrameStop
  <2>4. FrameOf(w, l) = FrameOf(t, l)
    BY <1>3, <1>5 DEF FrameOf
  <2>5. BlankLine(t, l) \in 0..4 /\ BlankLine(t, l) > 0 /\ l + BlankLine(t, l) <= n + 1
    <3>1. l \in Nat \ {0} /\ BlankLine(t, l) > 0
      BY <1>4, <2>1 DEF BlankStop
    <3> QED BY <3>1, BlankLineIs
  <2>6. from \in 2..(n + 1) /\ l < from
    BY <1>1, <1>4, <2>1, <2>5
  <2> QED BY <1>4, <2>3, <2>4, <2>6 DEF w
<1> QED BY <1>6, <1>7

-----------------------------------------------------------------------------
(* One turn of the loop. *)

More(s, c) == [s EXCEPT !.buffer = @ \o c]

\* A stop is the first there is.
LEMMA FirstStop ==
  ASSUME NEW t \in Texts, NEW l
  PROVE  /\ LineStop(t, l) => SelectInSeq(t, LAMBDA byte : byte = LF) = l
         /\ (\A i : ~LineStop(t, i)) => SelectInSeq(t, LAMBDA byte : byte = LF) = 0
         /\ BlankStop(t, l) => {i \in 1..Len(t) : BlankLine(t, i) > 0} # {}
                               /\ Min({i \in 1..Len(t) : BlankLine(t, i) > 0}) = l
         /\ (\A i : ~BlankStop(t, i)) => {i \in 1..Len(t) : BlankLine(t, i) > 0} = {}
<1> DEFINE n == Len(t)
           I == {i \in 1..n : t[i] = LF}
           J == {i \in 1..n : BlankLine(t, i) > 0}
           line == SelectInSeq(t, LAMBDA byte : byte = LF)
<1>0. n \in Nat /\ I \in SUBSET Nat /\ J \in SUBSET Nat
  BY DEF Texts
<1>1. line = IF I # {} THEN Min(I) ELSE 0
  BY DEF SelectInSeq
<1>2. I # {} => Min(I) \in I /\ \A j \in I : Min(I) <= j
  <2> HIDE DEF I
  <2> QED BY <1>0, LeastPosition
<1>3. J # {} => Min(J) \in J /\ \A j \in J : Min(J) <= j
  <2> HIDE DEF J
  <2> QED BY <1>0, LeastPosition
<1>4. I # {} => LineStop(t, Min(I))
  <2> DEFINE m == Min(I)
  <2> SUFFICES ASSUME I # {} PROVE LineStop(t, m)
    OBVIOUS
  <2>1. m \in 1..n /\ t[m] = LF /\ \A j \in I : m <= j
    BY <1>2
  <2> HIDE DEF m
  <2>2. ASSUME NEW i \in 1..(m - 1)
        PROVE  t[i] # LF
    <3>1. i \in 1..n /\ ~(m <= i)
      BY <1>0, <2>1
    <3> QED BY <2>1, <3>1
  <2> QED BY <2>1, <2>2 DEF LineStop
<1>5. J # {} => BlankStop(t, Min(J))
  <2> DEFINE m == Min(J)
  <2> SUFFICES ASSUME J # {} PROVE BlankStop(t, m)
    OBVIOUS
  <2>1. m \in 1..n /\ BlankLine(t, m) > 0 /\ \A j \in J : m <= j
    BY <1>3
  <2> HIDE DEF m
  <2>2. ASSUME NEW i \in 1..(m - 1)
        PROVE  ~(BlankLine(t, i) > 0)
    <3>1. i \in 1..n /\ ~(m <= i)
      BY <1>0, <2>1
    <3> QED BY <2>1, <3>1
  <2> QED BY <2>1, <2>2 DEF BlankStop
<1>6. ASSUME LineStop(t, l)
      PROVE  I # {} /\ Min(I) = l
  <2>1. l \in I /\ \A i \in 1..(l - 1) : i \notin I
    BY <1>6 DEF LineStop
  <2>2. Min(I) \in I /\ Min(I) <= l
    BY <1>2, <2>1
  <2> DEFINE m == Min(I)
  <2>3. m \in 1..n /\ m <= l /\ l \in 1..n /\ m \notin 1..(l - 1)
    BY <2>1, <2>2
  <2> HIDE DEF m
  <2>4. m = l
    BY <1>0, <2>3
  <2> QED BY <2>1, <2>4 DEF m
<1>7. ASSUME BlankStop(t, l)
      PROVE  J # {} /\ Min(J) = l
  <2>1. l \in J /\ \A i \in 1..(l - 1) : i \notin J
    BY <1>7 DEF BlankStop
  <2>2. Min(J) \in J /\ Min(J) <= l
    BY <1>3, <2>1
  <2> DEFINE m == Min(J)
  <2>3. m \in 1..n /\ m <= l /\ l \in 1..n /\ m \notin 1..(l - 1)
    BY <2>1, <2>2
  <2> HIDE DEF m
  <2>4. m = l
    BY <1>0, <2>3
  <2> QED BY <2>1, <2>4 DEF m
<1> HIDE DEF I, J
<1> QED BY <1>1, <1>4, <1>5, <1>6, <1>7 DEF J

\* A turn takes the frame in front, or leaves the text without the line ends.
LEMMA NextFrameIs ==
  ASSUME NEW s \in DualStreams
  PROVE  LET t == Unpadded(s.buffer)
         IN  /\ \A l, from : FrameStop(t, l, from) =>
                  NextFrame(s) = [s EXCEPT !.frames = Append(@, FrameOf(t, l)),
                                           !.buffer = SubSeq(t, from, Len(t))]
             /\ (\A l, from : ~FrameStop(t, l, from)) => NextFrame(s) = [s EXCEPT !.buffer = t]
<1> DEFINE t == Unpadded(s.buffer)
           line == SelectInSeq(t, LAMBDA byte : byte = LF)
           blanks == {i \in 1..Len(t) : BlankLine(t, i) > 0}
           blank == Min(blanks)
           yields(frame, dialect, from) ==
             [s EXCEPT !.frames = Append(@, [frame |-> frame, dialect |-> dialect]),
                       !.buffer = SubSeq(t, from, Len(t))]
<1>1. NextFrame(s) =
        IF t # <<>> /\ sniffDialect(t) = "jsonrpc" /\ line > 0
        THEN yields(StripCR(SubSeq(t, 1, line - 1)), "jsonrpc", line + 1)
        ELSE IF t # <<>> /\ sniffDialect(t) = "toonrpc" /\ blanks # {}
        THEN yields(SubSeq(t, 1, blank - 1), "toonrpc", blank + BlankLine(t, blank))
        ELSE [s EXCEPT !.buffer = t]
  BY DEF NextFrame
<1>2. t \in Texts
  BY UnpaddedAgain DEF DualStreams
<1>3. sniffDialect(t) \in {"jsonrpc", "toonrpc"}
  BY DEF sniffDialect
<1>a. /\ \A l : LineStop(t, l) => line = l
      /\ (\A l : ~LineStop(t, l)) => line = 0
      /\ \A l : BlankStop(t, l) => blanks # {} /\ blank = l
      /\ (\A l : ~BlankStop(t, l)) => blanks = {}
  <2> HIDE DEF t
  <2> QED BY <1>2, FirstStop
<1> HIDE DEF t, line, blanks, blank
<1>4. ASSUME NEW l, NEW from, FrameStop(t, l, from)
      PROVE  NextFrame(s) = [s EXCEPT !.frames = Append(@, FrameOf(t, l)), !.buffer = SubSeq(t, from, Len(t))]
  <2>1. CASE sniffDialect(t) = "jsonrpc"
    <3>1. t # <<>> /\ LineStop(t, l) /\ from = l + 1 /\ line = l
      BY <1>4, <1>a, <2>1 DEF FrameStop
    <3>2. line > 0
      BY <1>2, <3>1 DEF LineStop, Texts
    <3>3. NextFrame(s) = yields(StripCR(SubSeq(t, 1, l - 1)), "jsonrpc", l + 1)
      BY <1>1, <2>1, <3>1, <3>2
    <3>4. FrameOf(t, l) = [frame |-> StripCR(SubSeq(t, 1, l - 1)), dialect |-> "jsonrpc"]
      BY <2>1 DEF FrameOf
    <3> QED BY <3>1, <3>3, <3>4
  <2>2. CASE sniffDialect(t) = "toonrpc"
    <3>1. t # <<>> /\ BlankStop(t, l) /\ from = l + BlankLine(t, l) /\ blanks # {} /\ blank = l
      BY <1>4, <1>a, <2>2 DEF FrameStop
    <3>2. NextFrame(s) = yields(SubSeq(t, 1, l - 1), "toonrpc", l + BlankLine(t, l))
      BY <1>1, <2>2, <3>1
    <3>3. FrameOf(t, l) = [frame |-> SubSeq(t, 1, l - 1), dialect |-> "toonrpc"]
      BY <2>2 DEF FrameOf
    <3> QED BY <3>1, <3>2, <3>3
  <2> QED BY <1>3, <2>1, <2>2
<1>5. ASSUME \A l, from : ~FrameStop(t, l, from)
      PROVE  NextFrame(s) = [s EXCEPT !.buffer = t]
  <2>1. CASE t = <<>>
    BY <1>1, <2>1
  <2>2. CASE t # <<>> /\ sniffDialect(t) = "jsonrpc"
    <3>1. \A l : ~LineStop(t, l)
      BY <1>5, <2>2 DEF FrameStop
    <3>2. line = 0
      BY <1>a, <3>1
    <3> QED BY <1>1, <2>2, <3>2
  <2>3. CASE t # <<>> /\ sniffDialect(t) = "toonrpc"
    <3>1. \A l : ~BlankStop(t, l)
      BY <1>5, <2>3 DEF FrameStop
    <3>2. blanks = {}
      BY <1>a, <3>1
    <3> QED BY <1>1, <2>3, <3>2
  <2> QED BY <1>3, <2>1, <2>2, <2>3
<1> QED BY <1>4, <1>5 DEF t

\* Whether there is a frame in front of what is buffered.
Stops(s) == \E l, from : FrameStop(Unpadded(s.buffer), l, from)

LEMMA NextFrameShape ==
  ASSUME NEW s \in DualStreams, CR # LF
  PROVE  /\ NextFrame(s) \in DualStreams /\ NextFrame(s).ended = s.ended
         /\ Stops(s) => Len(NextFrame(s).buffer) < Len(s.buffer)
         /\ ~Stops(s) => /\ NextFrame(s) = [s EXCEPT !.buffer = Unpadded(s.buffer)]
                         /\ NextFrame(NextFrame(s)) = NextFrame(s)
         /\ s.buffer = <<>> => NextFrame(s) = s
<1> DEFINE t == Unpadded(s.buffer)
           n == Len(t)
<1>0. /\ s.buffer \in Texts /\ s.frames \in Seq([frame : Texts, dialect : {"jsonrpc", "toonrpc"}])
      /\ s.ended \in BOOLEAN
      /\ s = [buffer |-> s.buffer, frames |-> s.frames, ended |-> s.ended]
  BY DEF DualStreams
<1>1. t \in Texts /\ n <= Len(s.buffer) /\ n \in Nat /\ Len(s.buffer) \in Nat /\ Unpadded(t) = t
      /\ (s.buffer = <<>> => t = <<>>)
  BY <1>0, UnpaddedAgain DEF Texts
<1>2. ASSUME Stops(s)
      PROVE  NextFrame(s) \in DualStreams /\ NextFrame(s).ended = s.ended /\ Len(NextFrame(s).buffer) < Len(s.buffer)
  <2>1. PICK l, from : FrameStop(t, l, from)
    BY <1>2 DEF Stops
  <2> DEFINE f == FrameOf(t, l)
             rest == SubSeq(t, from, n)
             q == [s EXCEPT !.frames = Append(@, f), !.buffer = rest]
  <2>2. NextFrame(s) = q
    BY <2>1, NextFrameIs
  <2>3. l \in 1..n /\ from \in 2..(n + 1)
    <3>1. <<>> \in Texts
      BY DEF Texts
    <3> HIDE DEF t, n
    <3> QED BY <1>1, <2>1, <3>1, FrameStopStays DEF n
  <2>4. rest \in Texts /\ Len(rest) < n
    <3>1. \A i \in from..n : t[i] \in TextBytes
      BY <1>1, <2>3 DEF Texts
    <3>2. rest \in Seq(TextBytes) /\ Len(rest) = IF from <= n THEN n - from + 1 ELSE 0
      <4> HIDE DEF t, n
      <4> QED BY <1>1, <2>3, <3>1, SubSeqProperties
    <3>3. n >= 1
      BY <2>3
    <3> HIDE DEF rest, n
    <3> QED BY <1>1, <2>3, <3>2, <3>3 DEF Texts
  <2>5. f \in [frame : Texts, dialect : {"jsonrpc", "toonrpc"}]
    <3>1. SubSeq(t, 1, l - 1) \in Texts
      <4>1. \A i \in 1..(l - 1) : t[i] \in TextBytes
        BY <1>1, <2>3 DEF Texts
      <4> HIDE DEF t, n
      <4> QED BY <2>3, <4>1, SubSeqProperties DEF Texts
    <3>2. StripCR(SubSeq(t, 1, l - 1)) \in Texts
      BY <3>1 DEF StripCR, Front, Texts
    <3> QED BY <3>1, <3>2 DEF FrameOf, sniffDialect
  <2> HIDE DEF f, rest, t, n
  <2>6. q \in DualStreams /\ q.ended = s.ended /\ q.buffer = rest
    <3> DEFINE F == [frame : Texts, dialect : {"jsonrpc", "toonrpc"}]
               more == Append(s.frames, f)
    <3>1. more \in Seq(F)
      <4> HIDE DEF F
      <4> QED BY <1>0, <2>5 DEF F
    <3>2. s \in [buffer : Texts, frames : Seq(F), ended : BOOLEAN]
      BY DEF DualStreams
    <3>3. q = [s EXCEPT !.frames = more, !.buffer = rest]
      OBVIOUS
    <3> HIDE DEF F, more, q
    <3>4. q \in [buffer : Texts, frames : Seq(F), ended : BOOLEAN] /\ q.ended = s.ended /\ q.buffer = rest
      BY <2>4, <3>1, <3>2, <3>3
    <3> QED BY <3>4 DEF DualStreams, F
  <2>7. Len(rest) \in Nat
    BY <2>4 DEF Texts
  <2> HIDE DEF q
  <2>8. Len(q.buffer) < Len(s.buffer)
    BY <1>1, <2>4, <2>6, <2>7
  <2> QED BY <2>2, <2>6, <2>8
<1>3. ASSUME ~Stops(s)
      PROVE  /\ NextFrame(s) = [s EXCEPT !.buffer = t] /\ NextFrame(s) \in DualStreams /\ NextFrame(s).ended = s.ended
             /\ NextFrame(NextFrame(s)) = NextFrame(s)
             /\ s.buffer = <<>> => NextFrame(s) = s
  <2> DEFINE q == [s EXCEPT !.buffer = t]
  <2>1. \A l, from : ~FrameStop(t, l, from)
    BY <1>3 DEF Stops
  <2>2. NextFrame(s) = q
    BY <2>1, NextFrameIs
  <2> HIDE DEF t
  <2>3. q \in DualStreams /\ q.buffer = t /\ q.ended = s.ended
    BY <1>0, <1>1 DEF DualStreams
  <2>4. [q EXCEPT !.buffer = t] = q /\ (s.buffer = <<>> => q = s)
    BY <1>0, <1>1
  <2> HIDE DEF q
  <2>5. NextFrame(q) = [q EXCEPT !.buffer = t]
    <3>1. Unpadded(q.buffer) = t
      BY <1>1, <2>3
    <3>2. (\A l, from : ~FrameStop(Unpadded(q.buffer), l, from))
            => NextFrame(q) = [q EXCEPT !.buffer = Unpadded(q.buffer)]
      BY <2>3, NextFrameIs
    <3> QED BY <2>1, <3>1, <3>2
  <2> QED BY <2>2, <2>3, <2>4, <2>5 DEF q
<1>4. ASSUME s.buffer = <<>>
      PROVE  ~Stops(s)
  BY <1>1, <1>4 DEF Stops, FrameStop
<1> QED BY <1>2, <1>3, <1>4

\* A stream is what its fields are.
LEMMA SameStream ==
  ASSUME NEW s \in DualStreams, NEW r \in DualStreams, s.buffer = r.buffer, s.frames = r.frames, s.ended = r.ended
  PROVE  s = r
<1>1. s = [buffer |-> s.buffer, frames |-> s.frames, ended |-> s.ended]
  BY DEF DualStreams
<1>2. r = [buffer |-> r.buffer, frames |-> r.frames, ended |-> r.ended]
  BY DEF DualStreams
<1> QED BY <1>1, <1>2, Zenon

LEMMA MoreIs ==
  ASSUME NEW s \in DualStreams, NEW c \in Texts
  PROVE  /\ More(s, c) \in DualStreams /\ More(s, c).buffer = s.buffer \o c
         /\ More(s, c).frames = s.frames /\ More(s, c).ended = s.ended
<1>1. s.buffer \o c \in Texts
  BY ConcatShape DEF DualStreams, Texts
<1> QED BY <1>1 DEF More, DualStreams

\* The fields of a stream behind a turn.
LEMMA NextFrameFields ==
  ASSUME NEW s \in DualStreams, CR # LF
  PROVE  LET t == Unpadded(s.buffer)
             q == NextFrame(s)
         IN  /\ \A l, from : FrameStop(t, l, from) =>
                  /\ q.frames = Append(s.frames, FrameOf(t, l))
                  /\ q.buffer = SubSeq(t, from, Len(t))
             /\ ~Stops(s) => q.frames = s.frames /\ q.buffer = t
<1> DEFINE t == Unpadded(s.buffer)
           q == NextFrame(s)
<1>1. ASSUME NEW l, NEW from, FrameStop(t, l, from)
      PROVE  q.frames = Append(s.frames, FrameOf(t, l)) /\ q.buffer = SubSeq(t, from, Len(t))
  <2>1. q = [s EXCEPT !.frames = Append(@, FrameOf(t, l)), !.buffer = SubSeq(t, from, Len(t))]
    BY <1>1, NextFrameIs
  <2> DEFINE x == Append(s.frames, FrameOf(t, l))
             y == SubSeq(t, from, Len(t))
  <2>2. q = [s EXCEPT !.frames = x, !.buffer = y]
    BY <2>1
  <2> HIDE DEF q, x, y
  <2>3. q.frames = x /\ q.buffer = y
    BY <2>2 DEF DualStreams
  <2> QED BY <2>3 DEF x, y
<1>2. ASSUME ~Stops(s)
      PROVE  q.frames = s.frames /\ q.buffer = t
  <2>1. q = [s EXCEPT !.buffer = t]
    BY <1>2, NextFrameShape
  <2> HIDE DEF q, t
  <2> QED BY <2>1 DEF DualStreams
<1> QED BY <1>1, <1>2

\* What a turn does to a stream with a frame in front, it does whatever is behind.
LEMMA NextFrameJoins ==
  ASSUME NEW s \in DualStreams, NEW c \in Texts, Stops(s), CR # LF
  PROVE  NextFrame(More(s, c)) = More(NextFrame(s), c)
<1> DEFINE t == Unpadded(s.buffer)
           m == More(s, c)
           w == Unpadded(m.buffer)
<1>1. PICK l, from : FrameStop(t, l, from)
  BY DEF Stops
<1>2. t \in Texts /\ t # <<>> /\ s.buffer \in Texts
  BY <1>1, UnpaddedAgain DEF FrameStop, DualStreams
<1>3. m \in DualStreams /\ m.buffer = s.buffer \o c /\ m.frames = s.frames /\ m.ended = s.ended
  BY MoreIs
<1>4. w = t \o c
  <2>1. Unpadded(s.buffer \o c) = Unpadded(s.buffer) \o c
    BY <1>2, UnpaddedJoin, Zenon
  <2> QED BY <1>3, <2>1
<1> HIDE DEF t, m
<1>5. /\ l \in 1..Len(t) /\ from \in 2..(Len(t) + 1)
      /\ FrameStop(t \o c, l, from) /\ FrameOf(t \o c, l) = FrameOf(t, l)
  BY <1>1, <1>2, FrameStopStays
<1>6. /\ NextFrame(s) \in DualStreams /\ NextFrame(s).frames = Append(s.frames, FrameOf(t, l))
      /\ NextFrame(s).buffer = SubSeq(t, from, Len(t)) /\ NextFrame(s).ended = s.ended
  BY <1>1, NextFrameFields, NextFrameShape DEF t
<1>7. /\ NextFrame(m) \in DualStreams /\ NextFrame(m).frames = Append(m.frames, FrameOf(w, l))
      /\ NextFrame(m).buffer = SubSeq(w, from, Len(w)) /\ NextFrame(m).ended = m.ended
  <2>1. FrameStop(w, l, from)
    BY <1>4, <1>5
  <2> QED BY <1>3, <2>1, NextFrameFields, NextFrameShape
<1> HIDE DEF w
<1>8. SubSeq(w, from, Len(w)) = SubSeq(t, from, Len(t)) \o c
  <2> DEFINE n == Len(t)
             k == Len(c)
             x == SubSeq(w, from, Len(w))
             y == SubSeq(t, from, n)
             z == y \o c
  <2>1. /\ w \in Texts /\ Len(w) = n + k /\ n \in Nat /\ k \in Nat /\ from \in 2..(n + 1)
        /\ \A i \in 1..n : w[i] = t[i]
        /\ \A i \in 1..k : w[n + i] = c[i]
    BY <1>2, <1>4, <1>5, ConcatShape DEF Texts
  <2> HIDE DEF n
  <2>2. x \in Seq(TextBytes) /\ Len(x) = (n + k + 1) - from /\ \A i \in 1..((n + k + 1) - from) : x[i] = w[from + i - 1]
    <3>1. \A i \in from..Len(w) : w[i] \in TextBytes
      BY <2>1 DEF Texts
    <3> QED BY <2>1, <3>1, SubSeqProperties
  <2>3. y \in Seq(TextBytes) /\ Len(y) = (n + 1) - from /\ \A i \in 1..((n + 1) - from) : y[i] = t[from + i - 1]
    <3>1. \A i \in from..n : t[i] \in TextBytes
      BY <1>2, <2>1 DEF Texts, n
    <3> QED BY <2>1, <3>1, SubSeqProperties
  <2> HIDE DEF x, y
  <2>4. /\ z \in Seq(TextBytes) /\ Len(z) = Len(y) + k
        /\ \A i \in 1..Len(y) : z[i] = y[i]
        /\ \A i \in 1..k : z[Len(y) + i] = c[i]
    <3>1. c \in Seq(TextBytes)
      BY DEF Texts
    <3>2. y \in Seq(TextBytes)
      BY <2>3
    <3> QED BY <3>1, <3>2, ConcatShape
  <2> HIDE DEF z, k
  <2>5. ASSUME NEW i \in 1..Len(x)
        PROVE  x[i] = z[i]
    <3>1. CASE i <= (n + 1) - from
      <4>1. from + i - 1 \in 1..n /\ i \in 1..((n + 1) - from) /\ i \in 1..((n + k + 1) - from)
        BY <2>1, <2>2, <3>1
      <4> QED BY <2>1, <2>2, <2>3, <2>4, <4>1
    <3>2. CASE ~(i <= (n + 1) - from)
      <4> DEFINE j == i - ((n + 1) - from)
      <4>1. j \in 1..k /\ from + i - 1 = n + j /\ i = Len(y) + j /\ i \in 1..((n + k + 1) - from)
        BY <2>1, <2>2, <2>3, <3>2
      <4> HIDE DEF j
      <4> QED BY <2>1, <2>2, <2>4, <4>1
    <3> QED BY <3>1, <3>2
  <2>6. Len(x) = Len(z)
    BY <2>1, <2>2, <2>3, <2>4
  <2>7. x = z
    BY <2>2, <2>4, <2>5, <2>6, SeqEqual
  <2> QED BY <2>7 DEF x, y, z, n
<1>9. More(NextFrame(s), c) \in DualStreams /\ More(NextFrame(s), c).buffer = NextFrame(s).buffer \o c
      /\ More(NextFrame(s), c).frames = NextFrame(s).frames /\ More(NextFrame(s), c).ended = NextFrame(s).ended
  BY <1>6, MoreIs
<1>10. NextFrame(m).frames = Append(s.frames, FrameOf(t, l))
  BY <1>3, <1>4, <1>5, <1>7
<1>11. NextFrame(m).buffer = NextFrame(s).buffer \o c
  BY <1>6, <1>7, <1>8
<1>12. NextFrame(m) = More(NextFrame(s), c)
  BY <1>3, <1>6, <1>7, <1>9, <1>10, <1>11, SameStream
<1> QED BY <1>12 DEF m

\* The line ends in front make no difference to a turn.
LEMMA NextFrameSame ==
  ASSUME NEW s \in DualStreams, NEW r \in DualStreams, CR # LF,
         Unpadded(s.buffer) = Unpadded(r.buffer), s.frames = r.frames, s.ended = r.ended
  PROVE  NextFrame(s) = NextFrame(r)
<1>1. Stops(s) = Stops(r)
  BY DEF Stops
<1>2. NextFrame(s) \in DualStreams /\ NextFrame(r) \in DualStreams /\ NextFrame(s).ended = NextFrame(r).ended
  BY NextFrameShape
<1>3. CASE Stops(s)
  <2>1. PICK l, from : FrameStop(Unpadded(s.buffer), l, from)
    BY <1>3 DEF Stops
  <2>2. NextFrame(s).frames = NextFrame(r).frames /\ NextFrame(s).buffer = NextFrame(r).buffer
    <3> DEFINE t == Unpadded(s.buffer)
    <3>1. FrameStop(t, l, from) /\ Unpadded(r.buffer) = t
      BY <2>1
    <3>2. NextFrame(s).frames = Append(s.frames, FrameOf(t, l)) /\ NextFrame(s).buffer = SubSeq(t, from, Len(t))
      BY <2>1, NextFrameFields
    <3>3. NextFrame(r).frames = Append(r.frames, FrameOf(t, l)) /\ NextFrame(r).buffer = SubSeq(t, from, Len(t))
      <4> HIDE DEF t
      <4>1. FrameStop(Unpadded(r.buffer), l, from)
        BY <3>1
      <4>2. /\ NextFrame(r).frames = Append(r.frames, FrameOf(Unpadded(r.buffer), l))
            /\ NextFrame(r).buffer = SubSeq(Unpadded(r.buffer), from, Len(Unpadded(r.buffer)))
        BY <4>1, NextFrameFields
      <4> QED BY <3>1, <4>2
    <3> QED BY <3>2, <3>3
  <2> QED BY <1>2, <2>2, SameStream
<1>4. CASE ~Stops(s)
  <2>1. NextFrame(s).frames = NextFrame(r).frames /\ NextFrame(s).buffer = NextFrame(r).buffer
    BY <1>1, <1>4, NextFrameFields
  <2> QED BY <1>2, <2>1, SameStream
<1> QED BY <1>3, <1>4

-----------------------------------------------------------------------------
(* The loop: as many turns as there are bytes are enough. *)

AfterTurns(n, s) ==
  LET drain[rounds \in 0..n] ==
        [x \in DualStreams |-> IF rounds = 0 THEN x ELSE drain[rounds - 1][NextFrame(x)]]
  IN  drain[n][s]

LEMMA AfterLoop ==
  ASSUME NEW n \in Nat, CR # LF
  PROVE  \E g \in [0..n -> [DualStreams -> DualStreams]] :
           /\ \A x \in DualStreams : g[0][x] = x
           /\ \A i \in 1..n, x \in DualStreams : g[i][x] = g[i - 1][NextFrame(x)]
           /\ \A s : AfterTurns(n, s) = g[n][s]
<1> DEFINE T == [DualStreams -> DualStreams]
           base == [x \in DualStreams |-> x]
           turn == [h \in T |-> [x \in DualStreams |-> h[NextFrame(x)]]]
           body == [i \in 1..n |-> turn]
           f == CHOOSE f : f = [i \in 0..n |-> [x \in DualStreams |-> IF i = 0 THEN x ELSE f[i - 1][NextFrame(x)]]]
<1>0. \A x \in DualStreams : NextFrame(x) \in DualStreams
  BY NextFrameShape
<1>1. base \in T
  OBVIOUS
<1>2. turn \in [T -> T]
  BY <1>0
<1>3. body \in [1..n -> [T -> T]]
  <2> HIDE DEF T, turn
  <2> QED BY <1>2
<1>4. PICK g \in [0..n -> T] : g[0] = base /\ \A i \in 1..n : g[i] = body[i][g[i - 1]]
  <2> HIDE DEF T, base, body
  <2>1. HasLoop(n, T, base, body)
    BY <1>1, <1>3, LoopExists
  <2> QED BY <2>1 DEF HasLoop
<1>5. \A i \in 1..n : g[i - 1] \in T /\ g[i] = turn[g[i - 1]]
  <2> SUFFICES ASSUME NEW i \in 1..n PROVE g[i - 1] \in T /\ g[i] = turn[g[i - 1]]
    OBVIOUS
  <2>1. i - 1 \in 0..n
    OBVIOUS
  <2> HIDE DEF T, turn
  <2> QED BY <1>4, <2>1
<1>6. \A i \in 1..n, x \in DualStreams : g[i][x] = g[i - 1][NextFrame(x)]
  <2> SUFFICES ASSUME NEW i \in 1..n, NEW x \in DualStreams PROVE g[i][x] = g[i - 1][NextFrame(x)]
    OBVIOUS
  <2> DEFINE h == g[i - 1]
  <2>1. h \in T /\ g[i] = turn[h]
    BY <1>5
  <2> HIDE DEF h
  <2>2. turn[h] = [y \in DualStreams |-> h[NextFrame(y)]]
    BY <2>1
  <2> HIDE DEF turn, T
  <2>3. turn[h][x] = h[NextFrame(x)]
    BY <2>2
  <2> QED BY <2>1, <2>3 DEF h
<1>7. \A x \in DualStreams : g[0][x] = x
  BY <1>4
<1>8. g = [i \in 0..n |-> [x \in DualStreams |-> IF i = 0 THEN x ELSE g[i - 1][NextFrame(x)]]]
  <2>1. \A i \in 0..n : i # 0 => i \in 1..n
    OBVIOUS
  <2>2. ASSUME NEW i \in 0..n
        PROVE  g[i] = [x \in DualStreams |-> IF i = 0 THEN x ELSE g[i - 1][NextFrame(x)]]
    <3>1. g[i] \in T
      <4> HIDE DEF T
      <4> QED BY <1>4
    <3>2. \A x \in DualStreams : g[i][x] = IF i = 0 THEN x ELSE g[i - 1][NextFrame(x)]
      BY <1>6, <1>7, <2>1
    <3> QED BY <3>1, <3>2
  <2> HIDE DEF T
  <2> QED BY <1>4, <2>2
<1>9. f = [i \in 0..n |-> [x \in DualStreams |-> IF i = 0 THEN x ELSE f[i - 1][NextFrame(x)]]]
  BY <1>8
<1>10. \A s : AfterTurns(n, s) = f[n][s]
  BY DEF AfterTurns
<1> HIDE DEF f
<1>11. f[n] = g[n]
  <2>1. f[0] = g[0]
    <3>1. 0 \in 0..n
      OBVIOUS
    <3>2. f[0] = [x \in DualStreams |-> x]
      BY <1>9, <3>1
    <3> QED BY <1>4, <3>2
  <2>2. ASSUME NEW i \in 1..n, f[i - 1] = g[i - 1]
        PROVE  f[i] = g[i]
    <3>1. i \in 0..n /\ i # 0
      OBVIOUS
    <3>2. f[i] = [x \in DualStreams |-> f[i - 1][NextFrame(x)]]
      BY <1>9, <3>1
    <3>3. g[i] = [x \in DualStreams |-> g[i - 1][NextFrame(x)]]
      BY <1>5
    <3> QED BY <2>2, <3>2, <3>3
  <2> QED BY <2>1, <2>2, LoopsAgree, Zenon
<1> QED BY <1>4, <1>6, <1>7, <1>10, <1>11

\* No turn, and one turn more.
LEMMA AfterStep ==
  ASSUME CR # LF
  PROVE  /\ \A s \in DualStreams : AfterTurns(0, s) = s
         /\ \A n \in Nat, s \in DualStreams : /\ AfterTurns(n, s) \in DualStreams
                                          /\ AfterTurns(n + 1, s) = AfterTurns(n, NextFrame(s))
<1>1. ASSUME NEW s \in DualStreams
      PROVE  AfterTurns(0, s) = s
  <2>1. 0 \in Nat /\ 0 \in 0..0
    OBVIOUS
  <2> QED BY <2>1, AfterLoop
<1>2. ASSUME NEW n \in Nat, NEW s \in DualStreams
      PROVE  AfterTurns(n, s) \in DualStreams /\ AfterTurns(n + 1, s) = AfterTurns(n, NextFrame(s))
  <2>1. PICK g \in [0..n -> [DualStreams -> DualStreams]] :
          /\ \A x \in DualStreams : g[0][x] = x
          /\ \A i \in 1..n, x \in DualStreams : g[i][x] = g[i - 1][NextFrame(x)]
          /\ \A x : AfterTurns(n, x) = g[n][x]
    BY AfterLoop
  <2>2. PICK f \in [0..(n + 1) -> [DualStreams -> DualStreams]] :
          /\ \A x \in DualStreams : f[0][x] = x
          /\ \A i \in 1..(n + 1), x \in DualStreams : f[i][x] = f[i - 1][NextFrame(x)]
          /\ \A x : AfterTurns(n + 1, x) = f[n + 1][x]
    <3>1. n + 1 \in Nat
      OBVIOUS
    <3> QED BY <3>1, AfterLoop
  <2>3. f[n] = g[n]
    <3>1. f[0] = g[0]
      <4>1. f[0] \in [DualStreams -> DualStreams] /\ g[0] \in [DualStreams -> DualStreams]
        <5>1. 0 \in 0..n /\ 0 \in 0..(n + 1)
          OBVIOUS
        <5> QED BY <2>1, <2>2, <5>1
      <4> QED BY <2>1, <2>2, <4>1
    <3>2. ASSUME NEW i \in 1..n, f[i - 1] = g[i - 1]
          PROVE  f[i] = g[i]
      <4>1. i \in 0..n /\ i \in 0..(n + 1) /\ i \in 1..(n + 1)
        OBVIOUS
      <4>2. f[i] \in [DualStreams -> DualStreams] /\ g[i] \in [DualStreams -> DualStreams]
        BY <2>1, <2>2, <4>1
      <4>3. \A x \in DualStreams : f[i][x] = g[i][x]
        <5> SUFFICES ASSUME NEW x \in DualStreams PROVE f[i][x] = g[i][x]
          OBVIOUS
        <5>1. f[i][x] = f[i - 1][NextFrame(x)]
          BY <2>2, <4>1
        <5>2. g[i][x] = g[i - 1][NextFrame(x)]
          BY <2>1
        <5> QED BY <3>2, <5>1, <5>2, Zenon
      <4> QED BY <4>2, <4>3
    <3> QED BY <3>1, <3>2, LoopsAgree, Zenon
  <2>4. AfterTurns(n, s) \in DualStreams
    <3>1. n \in 0..n
      OBVIOUS
    <3> QED BY <2>1, <3>1
  <2>5. f[n + 1][s] = f[n][NextFrame(s)]
    <3>1. n + 1 \in 1..(n + 1) /\ (n + 1) - 1 = n
      OBVIOUS
    <3> QED BY <2>2, <3>1
  <2> QED BY <2>1, <2>2, <2>3, <2>4, <2>5
<1> QED BY <1>1, <1>2

\* A stream that a turn leaves alone stays; the end is no matter of the loop.
LEMMA AfterStays ==
  ASSUME CR # LF, NEW n \in Nat
  PROVE  /\ \A s \in DualStreams : NextFrame(s) = s => AfterTurns(n, s) = s
         /\ \A s \in DualStreams : AfterTurns(n, s).ended = s.ended
<1> DEFINE S == {i \in Nat : \A s \in DualStreams : /\ NextFrame(s) = s => AfterTurns(i, s) = s
                                                /\ AfterTurns(i, s).ended = s.ended}
<1>1. 0 \in S
  BY AfterStep
<1>2. ASSUME NEW i \in Nat, i \in S
      PROVE  i + 1 \in S
  <2> SUFFICES ASSUME NEW s \in DualStreams
               PROVE  /\ NextFrame(s) = s => AfterTurns(i + 1, s) = s
                      /\ AfterTurns(i + 1, s).ended = s.ended
    OBVIOUS
  <2>1. AfterTurns(i + 1, s) = AfterTurns(i, NextFrame(s))
    BY AfterStep
  <2>2. NextFrame(s) \in DualStreams /\ NextFrame(s).ended = s.ended
    BY NextFrameShape
  <2> QED BY <1>2, <2>1, <2>2
<1> HIDE DEF S
<1>3. Nat \subseteq S
  BY <1>1, <1>2, SetInduction
<1> QED BY <1>3 DEF S

\* More turns than bytes change nothing.
LEMMA EnoughTurns ==
  ASSUME CR # LF, NEW n \in Nat
  PROVE  \A s \in DualStreams, m \in Nat : Len(s.buffer) <= n /\ n <= m => AfterTurns(m, s) = AfterTurns(n, s)
<1> DEFINE Enough(i) == \A s \in DualStreams, m \in Nat : Len(s.buffer) <= i /\ i <= m => AfterTurns(m, s) = AfterTurns(i, s)
           S == {i \in Nat : Enough(i)}
<1>1. 0 \in S
  <2> SUFFICES ASSUME NEW s \in DualStreams, NEW m \in Nat, Len(s.buffer) <= 0
               PROVE  AfterTurns(m, s) = AfterTurns(0, s)
    OBVIOUS
  <2>1. s.buffer = <<>>
    <3>1. s.buffer \in Texts /\ Len(s.buffer) \in Nat
      BY DEF DualStreams, Texts
    <3>2. Len(s.buffer) = 0
      BY <3>1
    <3> QED BY <3>1, <3>2, EmptySeq DEF Texts
  <2>2. NextFrame(s) = s
    BY <2>1, NextFrameShape
  <2> QED BY <2>2, AfterStays
<1>2. ASSUME NEW i \in Nat, i \in S
      PROVE  i + 1 \in S
  <2>1. Enough(i)
    BY <1>2
  <2> SUFFICES ASSUME NEW s \in DualStreams, NEW m \in Nat, Len(s.buffer) <= i + 1, i + 1 <= m
               PROVE  AfterTurns(m, s) = AfterTurns(i + 1, s)
    OBVIOUS
  <2> DEFINE q == NextFrame(s)
  <2>2. m - 1 \in Nat /\ i <= m - 1 /\ (m - 1) + 1 = m
    OBVIOUS
  <2>3. AfterTurns(m, s) = AfterTurns(m - 1, q) /\ AfterTurns(i + 1, s) = AfterTurns(i, q)
    <3>1. AfterTurns((m - 1) + 1, s) = AfterTurns(m - 1, q)
      BY <2>2, AfterStep
    <3> QED BY <2>2, <3>1, AfterStep
  <2>4. q \in DualStreams
    BY NextFrameShape
  <2>5. CASE Stops(s)
    <3>1. Len(q.buffer) < Len(s.buffer)
      BY <2>5, NextFrameShape
    <3> HIDE DEF q
    <3>2. Len(q.buffer) <= i
      <4>1. Len(q.buffer) \in Nat /\ Len(s.buffer) \in Nat
        BY <2>4 DEF DualStreams, Texts
      <4> QED BY <3>1, <4>1
    <3>3. AfterTurns(m - 1, q) = AfterTurns(i, q)
      BY <2>1, <2>2, <2>4, <3>2
    <3> QED BY <2>3, <3>3
  <2>6. CASE ~Stops(s)
    <3>1. NextFrame(q) = q
      BY <2>6, NextFrameShape
    <3> HIDE DEF q
    <3>2. AfterTurns(m - 1, q) = q /\ AfterTurns(i, q) = q
      BY <2>2, <2>4, <3>1, AfterStays
    <3> QED BY <2>3, <3>2
  <2> QED BY <2>5, <2>6
<1> HIDE DEF S
<1>3. Nat \subseteq S
  BY <1>1, <1>2, SetInduction
<1> QED BY <1>3 DEF S

\* drainFrames takes all the turns there are to take.
LEMMA DrainIs ==
  ASSUME NEW s \in DualStreams, CR # LF
  PROVE  /\ drainFrames(s) = AfterTurns(Len(s.buffer), s)
         /\ drainFrames(s) \in DualStreams /\ drainFrames(s).ended = s.ended
         /\ drainFrames(s) = drainFrames(NextFrame(s))
         /\ ~Stops(s) => drainFrames(s) = NextFrame(s)
<1> DEFINE n == Len(s.buffer)
           q == NextFrame(s)
           k == Len(q.buffer)
<1>1. \A x : drainFrames(x) = AfterTurns(Len(x.buffer), x)
  BY DEF drainFrames, AfterTurns
<1>2. n \in Nat
  BY DEF DualStreams, Texts
<1>3. drainFrames(s) \in DualStreams /\ drainFrames(s).ended = s.ended
  BY <1>1, <1>2, AfterStep, AfterStays
<1>4. q \in DualStreams /\ (Stops(s) => k < n) /\ (~Stops(s) => NextFrame(q) = q)
  BY NextFrameShape
<1>5. k \in Nat
  BY <1>4 DEF DualStreams, Texts
<1>6. AfterTurns(n + 1, s) = AfterTurns(n, q)
  BY <1>2, AfterStep
<1>7. AfterTurns(n + 1, s) = AfterTurns(n, s)
  BY <1>2, EnoughTurns
<1>8. drainFrames(q) = AfterTurns(k, q) /\ drainFrames(s) = AfterTurns(n, s)
  BY <1>1
<1> HIDE DEF q, n, k
<1>9. CASE Stops(s)
  <2>1. k <= n /\ k <= k
    BY <1>2, <1>4, <1>5, <1>9
  <2>2. AfterTurns(n, q) = AfterTurns(k, q)
    BY <1>2, <1>4, <1>5, <2>1, EnoughTurns DEF k
  <2> QED BY <1>3, <1>6, <1>7, <1>8, <1>9, <2>2 DEF n, q
<1>10. CASE ~Stops(s)
  <2>1. AfterTurns(n, q) = q /\ AfterTurns(k, q) = q
    BY <1>2, <1>4, <1>5, <1>10, AfterStays
  <2> QED BY <1>3, <1>6, <1>7, <1>8, <2>1 DEF n, q
<1> QED BY <1>9, <1>10

\* To drain before more comes makes no difference.
LEMMA DrainJoins ==
  ASSUME CR # LF, NEW s \in DualStreams, NEW c \in Texts
  PROVE  drainFrames(More(drainFrames(s), c)) = drainFrames(More(s, c))
<1> DEFINE Joins(x) == drainFrames(More(drainFrames(x), c)) = drainFrames(More(x, c))
           S == {i \in Nat : \A x \in DualStreams : Len(x.buffer) <= i => Joins(x)}
<1>1. ASSUME NEW x \in DualStreams, ~Stops(x)
      PROVE  Joins(x)
  <2> DEFINE q == NextFrame(x)
  <2>1. drainFrames(x) = q /\ q \in DualStreams /\ q.buffer = Unpadded(x.buffer) /\ q.frames = x.frames
        /\ q.ended = x.ended
    BY <1>1, DrainIs, NextFrameShape, NextFrameFields
  <2> HIDE DEF q
  <2>2. /\ More(q, c) \in DualStreams /\ More(q, c).buffer = Unpadded(x.buffer) \o c
        /\ More(q, c).frames = x.frames /\ More(q, c).ended = x.ended
    BY <2>1, MoreIs
  <2>3. /\ More(x, c) \in DualStreams /\ More(x, c).buffer = x.buffer \o c
        /\ More(x, c).frames = x.frames /\ More(x, c).ended = x.ended
    BY MoreIs
  <2>4. Unpadded(More(q, c).buffer) = Unpadded(More(x, c).buffer)
    <3>1. x.buffer \in Texts
      BY DEF DualStreams
    <3>2. Unpadded(Unpadded(x.buffer) \o c) = Unpadded(x.buffer \o c)
      BY <3>1, UnpaddedJoin
    <3> QED BY <2>2, <2>3, <3>2
  <2>5. NextFrame(More(q, c)) = NextFrame(More(x, c))
    BY <2>2, <2>3, <2>4, NextFrameSame
  <2>6. drainFrames(More(q, c)) = drainFrames(More(x, c))
    BY <2>2, <2>3, <2>5, DrainIs
  <2> QED BY <2>1, <2>6
<1>2. ASSUME NEW x \in DualStreams, Stops(x), Joins(NextFrame(x))
      PROVE  Joins(x)
  <2> DEFINE q == NextFrame(x)
  <2>1. q \in DualStreams /\ drainFrames(x) = drainFrames(q) /\ NextFrame(More(x, c)) = More(q, c)
    BY <1>2, DrainIs, NextFrameShape, NextFrameJoins
  <2>2. drainFrames(More(x, c)) = drainFrames(More(q, c))
    <3>1. More(x, c) \in DualStreams
      BY MoreIs
    <3> QED BY <2>1, <3>1, DrainIs
  <2>3. drainFrames(More(drainFrames(q), c)) = drainFrames(More(q, c))
    BY <1>2
  <2> HIDE DEF q
  <2> QED BY <2>1, <2>2, <2>3
<1> HIDE DEF Joins
<1>3. 0 \in S
  <2> SUFFICES ASSUME NEW x \in DualStreams, Len(x.buffer) <= 0 PROVE Joins(x)
    OBVIOUS
  <2>1. ~Stops(x)
    <3>1. Len(NextFrame(x).buffer) \in Nat /\ Len(x.buffer) \in Nat
      <4>1. NextFrame(x) \in DualStreams
        BY NextFrameShape
      <4> QED BY <4>1 DEF DualStreams, Texts
    <3>2. Stops(x) => Len(NextFrame(x).buffer) < Len(x.buffer)
      BY NextFrameShape
    <3> QED BY <3>1, <3>2
  <2> QED BY <1>1, <2>1
<1>4. ASSUME NEW i \in Nat, i \in S
      PROVE  i + 1 \in S
  <2> SUFFICES ASSUME NEW x \in DualStreams, Len(x.buffer) <= i + 1 PROVE Joins(x)
    OBVIOUS
  <2>1. CASE Stops(x)
    <3> DEFINE q == NextFrame(x)
    <3>1. q \in DualStreams /\ Len(q.buffer) < Len(x.buffer)
      BY <2>1, NextFrameShape
    <3> HIDE DEF q
    <3>2. Len(q.buffer) <= i
      <4>1. Len(q.buffer) \in Nat /\ Len(x.buffer) \in Nat
        BY <3>1 DEF DualStreams, Texts
      <4> QED BY <3>1, <4>1
    <3>3. Joins(q)
      BY <1>4, <3>1, <3>2
    <3> QED BY <1>2, <2>1, <3>3 DEF q
  <2>2. CASE ~Stops(x)
    BY <1>1, <2>2
  <2> QED BY <2>1, <2>2
<1>5. Len(s.buffer) \in Nat
  BY DEF DualStreams, Texts
<1> HIDE DEF S
<1>6. Nat \subseteq S
  BY <1>3, <1>4, SetInduction
<1>7. Joins(s)
  BY <1>5, <1>6 DEF S
<1> QED BY <1>7 DEF Joins

-----------------------------------------------------------------------------

\* What a dual dialect stream is when n bytes of s were read.
Whole(s, n) == drainFrames([NewStream EXCEPT !.buffer = SubSeq(s, 1, n)])

DualInv ==
  /\ source \in Texts
  /\ seen \in 0..Len(source)
  /\ Whole(source, seen) \in DualStreams /\ ~Whole(source, seen).ended
  /\ dual.ended => seen = Len(source)
  /\ dual = IF dual.ended THEN Flushed(Whole(source, seen)) ELSE Whole(source, seen)

LEMMA WholeIs ==
  ASSUME NEW s \in Texts, NEW n \in 0..Len(s), CR # LF
  PROVE  /\ Whole(s, n) \in DualStreams /\ ~Whole(s, n).ended
         /\ [NewStream EXCEPT !.buffer = SubSeq(s, 1, n)] \in DualStreams
         /\ n = 0 => Whole(s, n) = NewStream
<1> DEFINE b == SubSeq(s, 1, n)
           w == [NewStream EXCEPT !.buffer = b]
<1>1. b \in Texts /\ (n = 0 => b = <<>>) /\ Len(b) = n
  BY DEF Texts
<1> HIDE DEF b
<1>2. w \in DualStreams /\ ~w.ended /\ w.buffer = b
  <2> DEFINE F == [frame : Texts, dialect : {"jsonrpc", "toonrpc"}]
  <2>1. <<>> \in Seq(F) /\ <<>> \in Texts
    BY DEF Texts
  <2> HIDE DEF F
  <2>2. NewStream \in [buffer : Texts, frames : Seq(F), ended : BOOLEAN] /\ ~NewStream.ended
    BY <2>1 DEF NewStream
  <2>3. w \in [buffer : Texts, frames : Seq(F), ended : BOOLEAN] /\ ~w.ended /\ w.buffer = b
    BY <1>1, <2>2
  <2> QED BY <2>3 DEF DualStreams, F
<1>3. b = <<>> => w = NewStream
  BY DEF NewStream
<1> HIDE DEF w
<1>4. drainFrames(w) \in DualStreams /\ drainFrames(w).ended = w.ended
  BY <1>2, DrainIs
<1>5. n = 0 => drainFrames(w) = w
  <2>1. drainFrames(w) = AfterTurns(Len(w.buffer), w)
    BY <1>2, DrainIs
  <2> QED BY <1>1, <1>2, <2>1, AfterStep
<1> QED BY <1>1, <1>2, <1>3, <1>4, <1>5 DEF Whole, w, b

\* A chunk brings the whole of what was read to the whole of what is.
LEMMA WholeGrows ==
  ASSUME NEW s \in Texts, NEW n \in 0..Len(s), NEW size \in Nat, n + size <= Len(s), CR # LF
  PROVE  drainFrames([Whole(s, n) EXCEPT !.buffer = @ \o SubSeq(s, n + 1, n + size)]) = Whole(s, n + size)
<1> DEFINE c == SubSeq(s, n + 1, n + size)
           w == [NewStream EXCEPT !.buffer = SubSeq(s, 1, n)]
           v == [NewStream EXCEPT !.buffer = SubSeq(s, 1, n + size)]
<1>0. Len(s) \in Nat /\ n \in Nat /\ n + size \in 0..Len(s)
  BY DEF Texts
<1>1. c \in Texts
  <2>1. \A i \in (n + 1)..(n + size) : s[i] \in TextBytes
    BY <1>0 DEF Texts
  <2> QED BY <1>0, <2>1, SubSeqProperties DEF Texts
<1>2. w \in DualStreams /\ v \in DualStreams /\ Whole(s, n) = drainFrames(w) /\ Whole(s, n + size) = drainFrames(v)
  BY <1>0, WholeIs DEF Whole
<1>3. SubSeq(s, 1, n) \o c = SubSeq(s, 1, n + size)
  <2>1. 1 \in 1..(Len(s) + 1) /\ n \in (1 - 1)..Len(s) /\ n + size \in n..Len(s)
    BY <1>0
  <2> QED BY <2>1, ConcatAdjacentSubSeq DEF Texts
<1> HIDE DEF c
<1>4. More(w, c) = v
  BY <1>3 DEF More, NewStream
<1> HIDE DEF w, v
<1>5. drainFrames(More(drainFrames(w), c)) = drainFrames(More(w, c))
  BY <1>1, <1>2, DrainJoins
<1> QED BY <1>2, <1>4, <1>5 DEF More, c

LEMMA DualInvInit ==
  ASSUME MaxText \in Nat, CR # LF, ReadInit
  PROVE  DualInv
<1>1. source \in Texts /\ Len(source) \in Nat /\ seen = 0 /\ dual = NewStream
  <2>1. PICK m \in 0..MaxText : source \in [1..m -> TextBytes]
    BY DEF ReadInit, BoundedSeq, SeqOf
  <2>2. source \in Texts /\ Len(source) \in Nat
    BY <2>1 DEF Texts
  <2> QED BY <2>2 DEF ReadInit
<1>2. 0 \in 0..Len(source) /\ ~NewStream.ended
  BY <1>1 DEF NewStream
<1>3. Whole(source, 0) \in DualStreams /\ ~Whole(source, 0).ended /\ Whole(source, 0) = NewStream
  BY <1>1, <1>2, WholeIs
<1> QED BY <1>1, <1>2, <1>3 DEF DualInv

LEMMA DualInvNext ==
  ASSUME MaxText \in Nat, MaxRead \in Nat, CR # LF, DualInv, [ReadNext]_readVars
  PROVE  DualInv'
<1>0. /\ source \in Texts /\ seen \in 0..Len(source) /\ Len(source) \in Nat
      /\ dual.ended => seen = Len(source)
      /\ dual = IF dual.ended THEN Flushed(Whole(source, seen)) ELSE Whole(source, seen)
  BY DEF DualInv, Texts
<1>1. ASSUME NEW size \in 1..MaxRead, ReadBytes(size)
      PROVE  DualInv'
  <2>1. /\ source' = source /\ seen' = seen + size /\ seen + size <= Len(source)
        /\ dual' = drainFrames([dual EXCEPT !.buffer = @ \o SubSeq(source, seen + 1, seen + size)])
    BY <1>1 DEF ReadBytes
  <2>2. ~dual.ended
    BY <1>0, <2>1
  <2>3. dual = Whole(source, seen)
    BY <1>0, <2>2
  <2>4. size \in Nat /\ seen + size \in 0..Len(source)
    BY <1>0, <2>1
  <2>5. dual' = Whole(source, seen + size)
    BY <1>0, <2>1, <2>3, <2>4, WholeGrows
  <2>6. Whole(source, seen + size) \in DualStreams /\ ~Whole(source, seen + size).ended
    BY <1>0, <2>4, WholeIs
  <2>7. Whole(source, seen)' = Whole(source, seen + size)
    BY <2>1 DEF Whole
  <2>8. ~dual'.ended
    BY <2>5, <2>6
  <2> QED BY <1>0, <2>1, <2>4, <2>5, <2>6, <2>7, <2>8 DEF DualInv
<1>2. CASE ReadsEnd
  <2>1. /\ source' = source /\ seen' = seen /\ seen = Len(source) /\ ~dual.ended /\ dual' = Flushed(dual)
    BY <1>2 DEF ReadsEnd
  <2>2. dual = Whole(source, seen)
    BY <1>0, <2>1
  <2>3. Whole(source, seen)' = Whole(source, seen)
    BY <2>1 DEF Whole
  <2>4. dual'.ended
    <3>1. dual \in DualStreams
      BY <2>2 DEF DualInv
    <3> QED BY <2>1, <3>1 DEF Flushed, DualStreams
  <2>5. Whole(source, seen) \in DualStreams /\ ~Whole(source, seen).ended
    BY DEF DualInv
  <2> QED BY <1>0, <2>1, <2>2, <2>3, <2>4, <2>5 DEF DualInv
<1>3. CASE UNCHANGED readVars
  BY <1>3 DEF readVars, DualInv, Whole
<1> QED BY <1>1, <1>2, <1>3 DEF ReadNext

\* However the bytes of a dual dialect stream are cut into chunks, and wherever a
\* line end or a blank line is cut in two, drainFrames of acp-stream.ts yields the
\* frames it would yield of the whole, and flushes the rest of the whole at the end.
THEOREM FramesReadUncut ==
  ASSUME MaxText \in Nat, MaxRead \in Nat, CR # LF
  PROVE  ReadSpec => []FramesIgnoreCuts
<1>1. ReadInit => DualInv
  BY DualInvInit
<1>2. DualInv /\ [ReadNext]_readVars => DualInv'
  BY DualInvNext
<1>3. DualInv => FramesIgnoreCuts
  BY DEF DualInv, FramesIgnoreCuts, Whole
<1> QED BY <1>1, <1>2, <1>3, PTL DEF ReadSpec

-----------------------------------------------------------------------------
(* What encodeFrame writes is read as it was. *)

\* A message that its dialect can frame: a line of JSON that ends in no CR, or a
\* TOON document with no blank line in it, nor one with the line end behind it.
Framable(m) ==
  /\ m.frame \in Texts /\ m.frame # <<>>
  /\ m.dialect = sniffDialect(m.frame)
  /\ IF m.dialect = "jsonrpc"
     THEN (\A i \in 1..Len(m.frame) : m.frame[i] # LF) /\ Last(m.frame) # CR
     ELSE /\ Head(m.frame) \notin {CR, LF}
          /\ \A i \in 1..Len(m.frame) : BlankLine(m.frame \o <<LF, LF>>, i) = 0

LEMMA EncodedStops ==
  ASSUME NEW m \in [frame : Texts, dialect : {"jsonrpc", "toonrpc"}], Framable(m),
         CR # LF, BRACE # CR, BRACE # LF
  PROVE  LET t == EncodeMessage(m.frame, m.dialect)
         IN  /\ t \in Texts /\ t # <<>> /\ Head(t) \notin {CR, LF}
             /\ FrameStop(t, Len(m.frame) + 1, Len(t) + 1)
             /\ FrameOf(t, Len(m.frame) + 1) = m
<1> DEFINE b == m.frame
           n == Len(b)
           e == IF m.dialect = "jsonrpc" THEN <<LF>> ELSE <<LF, LF>>
           t == b \o e
<1>1. /\ b \in Texts /\ b # <<>> /\ n \in Nat /\ m.dialect = sniffDialect(b)
      /\ m = [frame |-> b, dialect |-> m.dialect]
  BY DEF Framable, Texts
<1>2. n > 0
  <2>1. n # 0
    <3> HIDE DEF b
    <3> QED BY <1>1, EmptySeq DEF Texts
  <2> QED BY <1>1, <2>1
<1>3. e \in Texts /\ Len(e) \in {1, 2} /\ (m.dialect = "jsonrpc" => Len(e) = 1) /\ (m.dialect # "jsonrpc" => Len(e) = 2)
      /\ \A i \in 1..Len(e) : e[i] = LF
  <2>1. CASE m.dialect = "jsonrpc"
    <3>1. e = <<LF>>
      BY <2>1
    <3> HIDE DEF e
    <3> QED BY <2>1, <3>1 DEF Texts, TextBytes
  <2>2. CASE m.dialect # "jsonrpc"
    <3>1. e = <<LF, LF>>
      BY <2>2
    <3> HIDE DEF e
    <3> QED BY <2>2, <3>1 DEF Texts, TextBytes
  <2> QED BY <2>1, <2>2
<1>4. t = EncodeMessage(m.frame, m.dialect)
  BY DEF EncodeMessage
<1> HIDE DEF b, e
<1>5. /\ t \in Texts /\ Len(t) = n + Len(e)
      /\ \A i \in 1..n : t[i] = b[i]
      /\ \A i \in 1..Len(e) : t[n + i] = LF
  BY <1>1, <1>3, ConcatShape DEF Texts
<1> HIDE DEF t
<1>6. t # <<>> /\ Head(t) = b[1] /\ Head(b) = b[1]
  <2>1. Len(t) > 0 /\ t[1] = b[1]
    BY <1>1, <1>2, <1>3, <1>5
  <2> QED BY <1>1, <1>2, <1>5, <2>1, EmptySeq DEF Texts
<1>7. sniffDialect(t) = m.dialect
  BY <1>1, <1>6 DEF sniffDialect
<1>8. Head(t) \notin {CR, LF}
  <2>1. CASE m.dialect = "jsonrpc"
    <3>1. Head(b) = BRACE
      BY <1>1, <2>1 DEF sniffDialect
    <3> QED BY <1>6, <3>1
  <2>2. CASE m.dialect # "jsonrpc"
    BY <1>6, <2>2 DEF Framable, b
  <2> QED BY <2>1, <2>2
<1>9. SubSeq(t, 1, n) = b
  <2> DEFINE x == SubSeq(t, 1, n)
  <2>1. \A i \in 1..n : t[i] \in TextBytes
    BY <1>1, <1>5 DEF Texts
  <2>2. x \in Seq(TextBytes) /\ Len(x) = n /\ \A i \in 1..n : x[i] = t[i]
    BY <1>1, <1>2, <2>1, SubSeqProperties
  <2> HIDE DEF x
  <2>3. \A i \in 1..Len(x) : x[i] = b[i]
    BY <1>5, <2>2
  <2>4. x = b
    BY <1>1, <2>2, <2>3, SeqEqual DEF Texts
  <2> QED BY <2>4 DEF x
<1> HIDE DEF n
<1>10. CASE m.dialect = "jsonrpc"
  <2>1. (\A i \in 1..n : b[i] # LF) /\ Last(b) # CR
    BY <1>10 DEF Framable, b, n
  <2>2. LineStop(t, n + 1)
    <3>1. n + 1 \in 1..Len(t) /\ t[n + 1] = LF
      <4>1. Len(e) = 1 /\ 1 \in 1..Len(e)
        BY <1>3, <1>10
      <4> QED BY <1>1, <1>5, <4>1
    <3>2. \A i \in 1..((n + 1) - 1) : t[i] # LF
      BY <1>1, <1>5, <2>1
    <3> QED BY <3>1, <3>2 DEF LineStop
  <2>3. Len(t) + 1 = (n + 1) + 1
    BY <1>1, <1>3, <1>5, <1>10
  <2>4. FrameStop(t, n + 1, Len(t) + 1)
    BY <1>6, <1>7, <1>10, <2>2, <2>3 DEF FrameStop
  <2>5. (n + 1) - 1 = n
    BY <1>1
  <2>6. StripCR(b) = b
    BY <2>1 DEF StripCR
  <2>7. FrameOf(t, n + 1) = m
    BY <1>1, <1>7, <1>9, <1>10, <2>5, <2>6 DEF FrameOf
  <2> QED BY <1>4, <1>5, <1>6, <1>8, <2>4, <2>7 DEF n, b
<1>11. CASE m.dialect # "jsonrpc"
  <2>1. e = <<LF, LF>>
    BY <1>11 DEF e
  <2>2. \A i \in 1..n : BlankLine(t, i) = 0
    BY <1>11, <2>1 DEF Framable, b, n, t
  <2>3. Len(t) = n + 2 /\ t[n + 1] = LF /\ t[(n + 1) + 1] = LF /\ n + 1 \in Nat \ {0}
    <3>1. 1 \in 1..Len(e) /\ 2 \in 1..Len(e) /\ Len(e) = 2
      BY <1>3, <1>11
    <3>2. t[n + 1] = LF /\ t[n + 2] = LF
      BY <1>5, <3>1
    <3> QED BY <1>1, <1>5, <3>1, <3>2
  <2>4. LineEnd(t, n + 1) = 1
    BY <1>1, <1>5, <2>3, LineEndIs
  <2>5. LineEnd(t, (n + 1) + 1) = 1
    <3>1. (n + 1) + 1 \in Nat \ {0} /\ (n + 1) + 1 <= Len(t)
      BY <1>1, <2>3
    <3> QED BY <1>5, <2>3, <3>1, LineEndIs
  <2>6. BlankLine(t, n + 1) = 2
    BY <2>4, <2>5 DEF BlankLine
  <2>7. BlankStop(t, n + 1)
    <3>1. n + 1 \in 1..Len(t) /\ BlankLine(t, n + 1) > 0
      BY <1>1, <2>3, <2>6
    <3>2. \A i \in 1..((n + 1) - 1) : ~(BlankLine(t, i) > 0)
      BY <1>1, <2>2
    <3> QED BY <3>1, <3>2 DEF BlankStop
  <2>8. Len(t) + 1 = (n + 1) + BlankLine(t, n + 1)
    BY <1>1, <2>3, <2>6
  <2>9. FrameStop(t, n + 1, Len(t) + 1)
    BY <1>6, <1>7, <1>11, <2>7, <2>8 DEF FrameStop
  <2>10. (n + 1) - 1 = n
    BY <1>1
  <2>11. FrameOf(t, n + 1) = m
    BY <1>1, <1>7, <1>9, <1>11, <2>10 DEF FrameOf
  <2> QED BY <1>4, <1>5, <1>6, <1>8, <2>9, <2>11 DEF n, b
<1> QED BY <1>10, <1>11

\* A text that begins with no line end has none in front.
LEMMA NoPadding ==
  ASSUME NEW t \in Texts, t # <<>>, Head(t) \notin {CR, LF}
  PROVE  Unpadded(t) = t
<1>1. Len(t) \in Nat /\ Len(t) > 0 /\ Head(t) = t[1]
  BY EmptySeq DEF Texts
<1>2. PaddedBy(t, 0)
  BY <1>1 DEF PaddedBy
<1>3. Unpadded(t) = SubSeq(t, 0 + 1, Len(t))
  BY <1>2, UnpaddedOf
<1> QED BY <1>3, SubSeqFull DEF Texts

\* A message that encodeFrame puts in front of a stream is the first frame that
\* drainFrames yields, with its dialect, and what is behind is read as it would be
\* alone: so are any number of messages of both dialects, one behind the other.
THEOREM EncodedMessagesRead ==
  ASSUME NEW s \in DualStreams, s.buffer = <<>>, NEW c \in Texts,
         NEW m \in [frame : Texts, dialect : {"jsonrpc", "toonrpc"}], Framable(m),
         CR # LF, BRACE # CR, BRACE # LF
  PROVE  /\ EncodeMessage(m.frame, m.dialect) \o c \in Texts
         /\ [s EXCEPT !.frames = Append(@, m)] \in DualStreams
         /\ drainFrames(More(s, EncodeMessage(m.frame, m.dialect) \o c))
              = drainFrames(More([s EXCEPT !.frames = Append(@, m)], c))
<1> DEFINE t == EncodeMessage(m.frame, m.dialect)
           l == Len(m.frame) + 1
           r == [s EXCEPT !.frames = Append(@, m)]
<1>1. /\ t \in Texts /\ t # <<>> /\ Head(t) \notin {CR, LF}
      /\ FrameStop(t, l, Len(t) + 1) /\ FrameOf(t, l) = m
  BY EncodedStops
<1> HIDE DEF t, l
<1>2. t \o c \in Texts /\ <<>> \in Texts
  BY <1>1, ConcatShape DEF Texts
<1>3. r \in DualStreams /\ r.buffer = <<>> /\ r.frames = Append(s.frames, m) /\ r.ended = s.ended
  <2> DEFINE F == [frame : Texts, dialect : {"jsonrpc", "toonrpc"}]
             more == Append(s.frames, m)
  <2>1. s \in [buffer : Texts, frames : Seq(F), ended : BOOLEAN] /\ m \in F
    BY DEF DualStreams
  <2> HIDE DEF F
  <2>2. more \in Seq(F)
    BY <2>1
  <2>3. r = [s EXCEPT !.frames = more]
    OBVIOUS
  <2> HIDE DEF more, r
  <2>4. r \in [buffer : Texts, frames : Seq(F), ended : BOOLEAN]
        /\ r.buffer = s.buffer /\ r.frames = more /\ r.ended = s.ended
    BY <2>1, <2>2, <2>3
  <2> QED BY <2>4 DEF DualStreams, F, more
<1> HIDE DEF r
<1>4. /\ More(s, t) \in DualStreams /\ More(s, t).buffer = t /\ More(s, t).frames = s.frames
      /\ More(s, t).ended = s.ended
  <2>1. <<>> \o t = t
    BY <1>1 DEF Texts
  <2> QED BY <1>1, <2>1, MoreIs
<1>5. Unpadded(t) = t
  BY <1>1, NoPadding
<1>6. Stops(More(s, t))
  BY <1>1, <1>4, <1>5 DEF Stops
<1>7. NextFrame(More(s, t)) = r
  <2> DEFINE q == NextFrame(More(s, t))
  <2>1. q \in DualStreams /\ q.ended = s.ended
    BY <1>4, NextFrameShape
  <2>2. FrameStop(Unpadded(More(s, t).buffer), l, Len(t) + 1)
    BY <1>1, <1>4, <1>5
  <2>3. /\ q.frames = Append(More(s, t).frames, FrameOf(Unpadded(More(s, t).buffer), l))
        /\ q.buffer = SubSeq(Unpadded(More(s, t).buffer), Len(t) + 1, Len(Unpadded(More(s, t).buffer)))
    BY <1>4, <2>2, NextFrameFields
  <2> HIDE DEF q
  <2>4. q.frames = Append(s.frames, m) /\ q.buffer = SubSeq(t, Len(t) + 1, Len(t))
    BY <1>1, <1>4, <1>5, <2>3
  <2>5. SubSeq(t, Len(t) + 1, Len(t)) = <<>>
    <3>1. Len(t) \in Nat
      BY <1>1 DEF Texts
    <3> QED BY <3>1, SubSeqEmpty
  <2>6. q = r
    BY <1>3, <2>1, <2>4, <2>5, SameStream
  <2> QED BY <2>6 DEF q
<1>8. NextFrame(More(More(s, t), c)) = More(r, c)
  BY <1>4, <1>6, <1>7, NextFrameJoins
<1>9. More(More(s, t), c) = More(s, t \o c)
  <2>1. More(s, t \o c) \in DualStreams /\ More(s, t \o c).buffer = <<>> \o (t \o c)
        /\ More(s, t \o c).frames = s.frames /\ More(s, t \o c).ended = s.ended
    BY <1>2, MoreIs
  <2>2. <<>> \o (t \o c) = t \o c
    <3> DEFINE w == t \o c
    <3>1. w \in Texts
      BY <1>2
    <3> HIDE DEF w
    <3>2. <<>> \o w = w
      BY <3>1 DEF Texts
    <3> QED BY <3>2 DEF w
  <2>3. More(More(s, t), c) \in DualStreams /\ More(More(s, t), c).buffer = t \o c
        /\ More(More(s, t), c).frames = s.frames /\ More(More(s, t), c).ended = s.ended
    BY <1>4, MoreIs
  <2> DEFINE x == More(More(s, t), c)
             y == More(s, t \o c)
  <2>4. /\ x \in DualStreams /\ y \in DualStreams /\ x.buffer = y.buffer
        /\ x.frames = y.frames /\ x.ended = y.ended
    BY <2>1, <2>2, <2>3, Zenon
  <2> HIDE DEF x, y
  <2>5. x = y
    BY <2>4, SameStream
  <2> QED BY <2>5 DEF x, y
<1>10. drainFrames(More(s, t \o c)) = drainFrames(More(r, c))
  <2>1. More(More(s, t), c) \in DualStreams
    BY <1>4, MoreIs
  <2>2. drainFrames(More(More(s, t), c)) = drainFrames(NextFrame(More(More(s, t), c)))
    BY <2>1, DrainIs
  <2> QED BY <1>8, <1>9, <2>2
<1> QED BY <1>2, <1>3, <1>10 DEF t, r

-----------------------------------------------------------------------------
(* The bytes the run chooses. *)

Distinct == /\ LF # CR /\ DATA # CR /\ DATA # LF /\ BRACE # CR /\ BRACE # LF
            /\ ANY # CR /\ ANY # LF /\ ANY # BRACE

LEMMA WireMessagesFramable ==
  ASSUME Distinct, NEW m \in WireMessages
  PROVE  m \in [frame : Texts, dialect : {"jsonrpc", "toonrpc"}] /\ Framable(m)
<1> USE DEF Distinct
<1>1. CASE m = [frame |-> <<BRACE, ANY>>, dialect |-> "jsonrpc"]
  <2> DEFINE b == <<BRACE, ANY>>
  <2>1. b \in Texts /\ b # <<>> /\ Head(b) = BRACE /\ Last(b) = ANY /\ \A i \in 1..Len(b) : b[i] # LF
    BY DEF Texts, TextBytes, Last
  <2> HIDE DEF b
  <2>2. m.frame = b /\ m.dialect = "jsonrpc" /\ m = [frame |-> b, dialect |-> "jsonrpc"]
    BY <1>1 DEF b
  <2>3. sniffDialect(b) = "jsonrpc"
    BY <2>1 DEF sniffDialect
  <2> QED BY <2>1, <2>2, <2>3 DEF Framable
<1>2. CASE m = [frame |-> <<ANY, LF, BRACE>>, dialect |-> "toonrpc"]
  <2> DEFINE b == <<ANY, LF, BRACE>>
             e == <<LF, LF>>
             t == b \o e
  <2>1. b \in Texts /\ b # <<>> /\ Head(b) = ANY /\ Len(b) = 3
    BY DEF Texts, TextBytes
  <2>2. b[1] = ANY /\ b[2] = LF /\ b[3] = BRACE /\ e \in Texts /\ Len(e) = 2 /\ e[1] = LF
    BY DEF Texts, TextBytes
  <2> HIDE DEF b, e
  <2>3. t \in Texts /\ Len(t) = 5 /\ t[1] = ANY /\ t[2] = LF /\ t[3] = BRACE /\ t[4] = LF
    <3>1. /\ t \in Texts /\ Len(t) = Len(b) + Len(e)
          /\ \A i \in 1..Len(b) : t[i] = b[i]
          /\ \A i \in 1..Len(e) : t[Len(b) + i] = e[i]
      <4>1. b \in Seq(TextBytes) /\ e \in Seq(TextBytes)
        BY <2>1, <2>2 DEF Texts
      <4> QED BY <4>1, ConcatShape DEF Texts
    <3>2. t[3 + 1] = e[1]
      BY <2>1, <2>2, <3>1
    <3> HIDE DEF t
    <3> QED BY <2>1, <2>2, <3>1, <3>2
  <2> HIDE DEF t
  <2>4. LineEnd(t, 1) = 0 /\ LineEnd(t, 2) = 1 /\ LineEnd(t, 3) = 0
    BY <2>3 DEF LineEnd
  <2>5. BlankLine(t, 1) = 0 /\ BlankLine(t, 2) = 0 /\ BlankLine(t, 3) = 0
    BY <2>4 DEF BlankLine
  <2>6. \A i \in 1..Len(b) : BlankLine(b \o <<LF, LF>>, i) = 0
    <3>1. \A i \in 1..3 : i = 1 \/ i = 2 \/ i = 3
      OBVIOUS
    <3> QED BY <2>1, <2>5, <3>1 DEF t, e
  <2>7. m.frame = b /\ m.dialect = "toonrpc" /\ m = [frame |-> b, dialect |-> "toonrpc"]
    BY <1>2 DEF b
  <2>8. sniffDialect(b) = "toonrpc"
    BY <2>1 DEF sniffDialect
  <2> QED BY <2>1, <2>6, <2>7, <2>8 DEF Framable
<1> QED BY <1>1, <1>2 DEF WireMessages

LEMMA PairIs ==
  ASSUME NEW x, NEW y
  PROVE  Append(<<x>>, y) = <<x, y>>
<1> DEFINE S == {x, y}
           a == <<x>>
           b == Append(a, y)
           c == <<x, y>>
<1>1. a \in Seq(S) /\ Len(a) = 1 /\ a[1] = x /\ y \in S
  OBVIOUS
<1>2. c \in Seq(S) /\ Len(c) = 2 /\ c[1] = x /\ c[2] = y
  OBVIOUS
<1> HIDE DEF S, a, c
<1>3. b \in Seq(S) /\ Len(b) = 2 /\ b[1] = x /\ b[2] = y
  <2>1. /\ b \in Seq(S) /\ Len(b) = Len(a) + 1
        /\ \A i \in 1..Len(a) : b[i] = a[i]
        /\ b[Len(a) + 1] = y
    <3>1. a \in Seq(S) /\ y \in S
      BY <1>1
    <3> QED BY <3>1, AppendProperties
  <2> HIDE DEF b
  <2>2. Len(b) = 2 /\ b[2] = y /\ 1 \in 1..Len(a)
    BY <1>1, <2>1
  <2> QED BY <1>1, <2>1, <2>2
<1> HIDE DEF b
<1>4. \A i \in 1..Len(b) : b[i] = c[i]
  <2>1. \A i \in 1..2 : i = 1 \/ i = 2
    OBVIOUS
  <2> QED BY <1>2, <1>3, <2>1
<1>5. b = c
  BY <1>2, <1>3, <1>4, SeqEqual
<1> QED BY <1>5 DEF a, b, c

LEMMA TwoMessages ==
  ASSUME Distinct, NEW first \in WireMessages, NEW second \in WireMessages
  PROVE  drainFrames([NewStream EXCEPT !.buffer =
           EncodeMessage(first.frame, first.dialect) \o EncodeMessage(second.frame, second.dialect)]).frames
         = <<first, second>>
<1> DEFINE a == EncodeMessage(first.frame, first.dialect)
           b == EncodeMessage(second.frame, second.dialect)
           M == [frame : Texts, dialect : {"jsonrpc", "toonrpc"}]
           r == [NewStream EXCEPT !.frames = Append(@, first)]
           v == [r EXCEPT !.frames = Append(@, second)]
<1>0. CR # LF /\ BRACE # CR /\ BRACE # LF /\ <<>> \in Texts
  BY DEF Distinct, Texts
<1>1. first \in M /\ Framable(first) /\ second \in M /\ Framable(second)
  BY WireMessagesFramable
<1>2. a \in Texts /\ b \in Texts
  BY <1>0, <1>1, EncodedStops
<1>3. NewStream \in DualStreams /\ NewStream.buffer = <<>> /\ NewStream.frames = <<>>
  <2>1. <<>> \in Seq(M)
    OBVIOUS
  <2> HIDE DEF M
  <2>2. NewStream \in [buffer : Texts, frames : Seq(M), ended : BOOLEAN]
    BY <1>0, <2>1 DEF NewStream
  <2> QED BY <2>2 DEF DualStreams, M, NewStream
<1>4. /\ a \o b \in Texts /\ r \in DualStreams
      /\ drainFrames(More(NewStream, a \o b)) = drainFrames(More(r, b))
  BY <1>0, <1>1, <1>2, <1>3, EncodedMessagesRead
<1>5. r.buffer = <<>> /\ r.frames = <<first>>
  BY <1>3 DEF NewStream
<1> HIDE DEF r
<1>6. /\ v \in DualStreams
      /\ drainFrames(More(r, b \o <<>>)) = drainFrames(More(v, <<>>))
  BY <1>0, <1>1, <1>4, <1>5, EncodedMessagesRead
<1> HIDE DEF a, b
<1>7. b \o <<>> = b
  BY <1>2 DEF Texts
<1>8. v.buffer = <<>> /\ v.frames = <<first, second>>
  <2>1. v = [r EXCEPT !.frames = <<first, second>>]
    <3>1. Append(<<first>>, second) = <<first, second>>
      BY PairIs
    <3> QED BY <1>5, <3>1
  <2> HIDE DEF v
  <2> QED BY <1>4, <1>5, <2>1 DEF DualStreams
<1> HIDE DEF v
<1>9. drainFrames(More(v, <<>>)).frames = <<first, second>>
  <2> DEFINE w == More(v, <<>>)
  <2>1. w \in DualStreams /\ w.buffer = <<>> \o <<>> /\ w.frames = v.frames
    BY <1>0, <1>6, <1>8, MoreIs
  <2>2. <<>> \o <<>> = <<>> /\ Len(<<>>) = 0
    OBVIOUS
  <2> HIDE DEF w
  <2>3. drainFrames(w) = w
    <3>1. drainFrames(w) = AfterTurns(Len(w.buffer), w) /\ Len(w.buffer) = 0
      BY <1>0, <2>1, <2>2, DrainIs
    <3> QED BY <1>0, <2>1, <3>1, AfterStep
  <2> QED BY <1>8, <2>1, <2>3 DEF w
<1>10. More(NewStream, a \o b) = [NewStream EXCEPT !.buffer = a \o b]
  <2> DEFINE c == a \o b
  <2>1. c \in Texts
    BY <1>4
  <2> HIDE DEF c
  <2>2. <<>> \o c = c
    BY <2>1 DEF Texts
  <2>3. More(NewStream, c) = [NewStream EXCEPT !.buffer = c]
    BY <1>3, <2>2 DEF More
  <2> QED BY <2>3 DEF c
<1> QED BY <1>4, <1>6, <1>7, <1>9, <1>10 DEF a, b

LEMMA WhatIsEncodedIsRead ==
  ASSUME Distinct
  PROVE  EncodedIsRead
<1>1. ASSUME NEW d \in Documents
      PROVE  TakeBytes(NewParser, EncodeEvent(d)).events = <<d>>
  <2>1. PICK n \in 0..3 : d \in [1..n -> {LF, BRACE, ANY}]
    BY DEF Documents, BoundedSeq, SeqOf
  <2>2. {LF, BRACE, ANY} \subseteq Plain
    BY DEF Plain, TextBytes, Distinct
  <2>3. d \in Seq(Plain)
    BY <2>1, <2>2
  <2> QED BY <2>3, EncodedEventsRead DEF Distinct
<1>2. \A first, second \in WireMessages :
        drainFrames([NewStream EXCEPT !.buffer =
          EncodeMessage(first.frame, first.dialect) \o EncodeMessage(second.frame, second.dialect)]).frames
        = <<first, second>>
  BY TwoMessages
<1> QED BY <1>1, <1>2 DEF EncodedIsRead

\* Whatever bytes a peer sends and however they are cut, all three readers of
\* lines (EventParser, SseEventParser, drainFrames) read what the whole says, and
\* what the encoders write is read as it was.
THEOREM LinesRead ==
  ASSUME MaxEventBytes \in Nat, MaxText \in Nat, MaxRead \in Nat, Distinct
  PROVE  ReadSpec => []ReadsTheEventsSent
<1>1. ReadSpec => []EventsIgnoreCuts
  BY EventsReadUncut
<1>2. CR # LF
  BY DEF Distinct
<1>3. ReadSpec => []FramesIgnoreCuts
  BY <1>2, FramesReadUncut
<1>4. EncodedIsRead
  BY WhatIsEncodedIsRead
<1>5. EventsIgnoreCuts /\ FramesIgnoreCuts => ReadsTheEventsSent
  BY <1>4 DEF ReadsTheEventsSent
<1> QED BY <1>1, <1>3, <1>5, PTL
=============================================================================
