----------------------------- MODULE FramedStream -----------------------------
(***************************************************************************)
(* One direction of a framed connection (transport.rs): the tasks that     *)
(* call FramedTransport::send and close behind the writer's mutex, a byte  *)
(* stream that holds so many bytes, and the FrameReader of the peer.       *)
(*                                                                         *)
(* write_all writes a frame in as many pieces as the stream takes; a send  *)
(* whose future is dropped between two of them (a call that timed out, or  *)
(* that its caller gave up) releases the mutex where it stands.            *)
(***************************************************************************)
EXTENDS FrameReader, FiniteSets

CONSTANTS
  Senders,    \* futures of send, each one used once
  Closer,     \* the future of close
  Messages,   \* the documents sent
  PipeSize,   \* bytes the stream holds before write waits
  MayCancel   \* may a send be dropped while it writes?

ASSUME StreamAssumption ==
  /\ Closer \notin Senders
  /\ Messages \subseteq Payloads
  /\ PipeSize \in Nat \ {0}
  /\ MayCancel \in BOOLEAN

VARIABLES
  lock,       \* the tasks at the writer's mutex; the first one holds it
  task,       \* where each send stands
  document,   \* what each send sends
  unsent,     \* the bytes its write_all still has to write
  writer,     \* is the writer still there?
  closer,     \* where close stands
  link,       \* the connection
  wire,       \* bytes written and not read
  eof,        \* the reader will find the end after them
  accepted    \* the documents whose last byte was written

sending == <<lock, task, document, unsent, writer, closer>>
vars == <<sending, link, wire, eof, accepted, reader>>

TypeOK ==
  /\ lock \in Seq(Senders \cup {Closer})
  /\ task \in [Senders -> {"idle", "locking", "writing", "sent", "cancelled", "refused", "failed"}]
  /\ document \in [Senders -> Payloads]
  /\ unsent \in [Senders -> Seq(Bytes)]
  /\ writer \in {"open", "taken"}
  /\ closer \in {"idle", "locking", "done"}
  /\ link \in {"up", "cut"}
  /\ wire \in Seq(Bytes) /\ Len(wire) <= PipeSize
  /\ eof \in BOOLEAN
  /\ accepted \in Seq(Messages)
  /\ ReaderTypeOK

Init ==
  /\ lock = <<>>
  /\ task = [t \in Senders |-> "idle"]
  /\ document = [t \in Senders |-> <<>>]
  /\ unsent = [t \in Senders |-> <<>>]
  /\ writer = "open"
  /\ closer = "idle"
  /\ link = "up"
  /\ wire = <<>>
  /\ eof = FALSE
  /\ accepted = <<>>
  /\ ReaderInit

Holds(t) == lock # <<>> /\ Head(lock) = t

-----------------------------------------------------------------------------
\* FramedTransport::send.  The mutex hands itself to its waiters in turn.

Send(t, d) ==
  /\ task[t] = "idle"
  /\ task' = [task EXCEPT ![t] = "locking"]
  /\ document' = [document EXCEPT ![t] = d]
  /\ lock' = Append(lock, t)
  /\ UNCHANGED <<unsent, writer, closer, link, wire, eof, accepted, reader>>

StartWriting_withoutLock(t) ==
  /\ task[t] = "locking"
  /\ IF writer = "open"
     THEN /\ task' = [task EXCEPT ![t] = "writing"]
          /\ unsent' = [unsent EXCEPT ![t] = EncodeFrame(document[t])]
          /\ UNCHANGED lock
     ELSE /\ task' = [task EXCEPT ![t] = "refused"]
          /\ lock' = RemoveFirst(lock, t)
          /\ UNCHANGED unsent
  /\ UNCHANGED <<document, writer, closer, link, wire, eof, accepted, reader>>
StartWriting(t) ==
  /\ task[t] = "locking" /\ Holds(t)
  /\ IF writer = "open"
     THEN /\ task' = [task EXCEPT ![t] = "writing"]
          /\ unsent' = [unsent EXCEPT ![t] = EncodeFrame(document[t])]
          /\ UNCHANGED lock
     ELSE /\ task' = [task EXCEPT ![t] = "refused"]
          /\ lock' = Tail(lock)
          /\ UNCHANGED unsent
  /\ UNCHANGED <<document, writer, closer, link, wire, eof, accepted, reader>>

Write(t, size) ==
  /\ task[t] = "writing" /\ link = "up"
  /\ size <= Len(unsent[t])
  /\ Len(wire) + size <= PipeSize
  /\ wire' = wire \o SubSeq(unsent[t], 1, size)
  /\ unsent' = [unsent EXCEPT ![t] = SubSeq(@, size + 1, Len(@))]
  /\ accepted' = IF size = Len(unsent[t]) THEN Append(accepted, document[t]) ELSE accepted
  /\ UNCHANGED <<lock, task, document, writer, closer, link, eof, reader>>

FinishSend_keepsLock(t) ==
  /\ task[t] = "writing"
  /\ \/ unsent[t] = <<>> /\ task' = [task EXCEPT ![t] = "sent"]
     \/ link = "cut" /\ task' = [task EXCEPT ![t] = "failed"]
  /\ UNCHANGED <<lock, document, unsent, writer, closer, link, wire, eof, accepted, reader>>
FinishSend(t) ==
  /\ task[t] = "writing"
  /\ \/ unsent[t] = <<>> /\ task' = [task EXCEPT ![t] = "sent"]
     \/ link = "cut" /\ task' = [task EXCEPT ![t] = "failed"]
  /\ lock' = Tail(lock)
  /\ UNCHANGED <<document, unsent, writer, closer, link, wire, eof, accepted, reader>>

\* The future of a send is dropped: while it waits for the mutex nothing is lost.
Cancel(t) ==
  /\ task[t] \in {"locking"} \cup (IF MayCancel THEN {"writing"} ELSE {})
  /\ task' = [task EXCEPT ![t] = "cancelled"]
  /\ lock' = RemoveFirst(lock, t)
  /\ UNCHANGED <<document, unsent, writer, closer, link, wire, eof, accepted, reader>>

-----------------------------------------------------------------------------
\* FramedTransport::close.

Close ==
  /\ closer = "idle"
  /\ closer' = "locking"
  /\ lock' = Append(lock, Closer)
  /\ UNCHANGED <<task, document, unsent, writer, link, wire, eof, accepted, reader>>

FinishClose_withoutLock ==
  /\ closer = "locking"
  /\ closer' = "done"
  /\ writer' = "taken"
  /\ eof' = TRUE
  /\ lock' = RemoveFirst(lock, Closer)
  /\ UNCHANGED <<task, document, unsent, link, wire, accepted, reader>>
FinishClose ==
  /\ closer = "locking" /\ Holds(Closer)
  /\ closer' = "done"
  /\ writer' = "taken"
  /\ eof' = TRUE
  /\ lock' = Tail(lock)
  /\ UNCHANGED <<task, document, unsent, link, wire, accepted, reader>>

\* The sending process dies or the network does: what was written may still be
\* read up to an end, or not.
CutLink ==
  /\ link = "up"
  /\ link' = "cut"
  /\ eof' \in {eof, TRUE}
  /\ UNCHANGED <<sending, wire, accepted, reader>>

-----------------------------------------------------------------------------
\* The peer's FrameReader.

Deliver == ReturnReady /\ UNCHANGED <<sending, link, wire, eof, accepted>>

ReadChunk(size) ==
  /\ size <= Len(wire)
  /\ wire' = SubSeq(wire, size + 1, Len(wire))
  /\ Take(SubSeq(wire, 1, size))
  /\ UNCHANGED <<sending, link, eof, accepted>>

ReadEnd ==
  /\ eof /\ wire = <<>>
  /\ Finish
  /\ UNCHANGED <<sending, link, wire, eof, accepted>>

ReadFails ==
  /\ link = "cut"
  /\ Break
  /\ UNCHANGED <<sending, link, wire, eof, accepted>>

-----------------------------------------------------------------------------

SendStep(t) ==
  \/ \E d \in Messages : Send(t, d)
  \/ StartWriting(t)
  \/ \E size \in 1..PipeSize : Write(t, size)
  \/ FinishSend(t)
  \/ Cancel(t)

ReadStep ==
  \/ Deliver
  \/ \E size \in 1..PipeSize : ReadChunk(size)
  \/ ReadEnd
  \/ ReadFails

Next ==
  \/ \E t \in Senders : SendStep(t)
  \/ Close \/ FinishClose
  \/ CutLink
  \/ ReadStep

Spec == Init /\ [][Next]_vars

\* The runtime polls a send and a close that can go on.
SenderFairness ==
  /\ \A t \in Senders :
       WF_vars(StartWriting(t) \/ (\E size \in 1..PipeSize : Write(t, size)) \/ FinishSend(t))
  /\ WF_vars(FinishClose)

\* And the peer keeps asking for the next document.
FairSpec == Spec /\ SenderFairness /\ WF_vars(ReadStep)

-----------------------------------------------------------------------------

\* transport.rs:3: the transport carries complete documents.  What comes out is
\* what was sent, in the order of the writes; no reader that is connected to
\* such a writer ever finds a frame wrong, and it only finds the end inside a
\* frame if the connection was cut.
CarriesWholeDocuments ==
  /\ IsPrefix(delivered \o ready, accepted)
  /\ status # "violation"
  /\ status = "truncated" => link = "cut"

\* Without cancelled sends the stream is a channel of documents, whatever the
\* pieces they are written and read in, and wherever it is closed or cut.
Channel ==
  INSTANCE DocumentChannel WITH Document <- Messages, received <- delivered,
    closed <- eof, end <- IF status \in {"open", "ended"} THEN status ELSE "failed"
ImplementsChannel == Channel!Spec

\* Whoever waits for the writer's mutex gets it: every send ends, and so does
\* close, with which the client releases its transport (client.rs:256).
TransportCallsEnd ==
  /\ (closer = "locking") ~> (closer = "done")
  /\ \A t \in Senders : (task[t] = "locking") ~> (task[t] \notin {"locking", "writing"})

\* Whatever was sent is delivered while the connection holds.
EverythingArrives ==
  \A n \in 1..Cardinality(Senders) :
    (Len(accepted) >= n) ~> (Len(delivered) >= n \/ link = "cut")
=============================================================================
