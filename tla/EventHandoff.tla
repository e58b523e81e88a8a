---------------------------- MODULE EventHandoff ----------------------------
(***************************************************************************)
(* The iterator over decode events (crates/toon/src/lib_parts/             *)
(* stream_events.rs): the grammar runs on a worker thread, emits into a    *)
(* batch, and hands batches to EventDecoder over a channel of no capacity. *)
(* FlushingReader lets it read from the source only after the consumer has *)
(* taken an empty batch.  The consumer may drop the iterator between two   *)
(* calls of next.  Which events a document has is left to ToonDecode: the  *)
(* grammar emits, asks for input or ends as it likes.                      *)
(***************************************************************************)
EXTENDS Naturals, Sequences

CONSTANTS
  EVENT_BATCH,   \* 256 in the code
  MaxEvents,     \* events of a document
  MaxReads,      \* reads from the source
  Err            \* the item of a decode error

ASSUME HandoffAssumption ==
  /\ EVENT_BATCH \in Nat \ {0}
  /\ MaxEvents \in Nat
  /\ MaxReads \in Nat

VARIABLES
  worker,     \* what the worker does
  after,      \* where a flush returns to
  filled,     \* the sink's batch
  reads,      \* reads from the source so far
  emitted,    \* every item the worker put into a batch
  consumer,   \* what the consumer does
  pending,    \* the rest of the batch it took
  got,        \* the items next() returned
  finished    \* next() has returned None

workerVars == <<worker, after, filled, reads, emitted>>
consumerVars == <<consumer, pending, got, finished>>
handoffVars == <<worker, after, filled, reads, emitted, consumer, pending, got, finished>>

HandoffTypeOK ==
  /\ worker \in {"parsing", "flushing", "asking", "reading", "ended"}
  /\ after \in {"parsing", "asking", "ended"}
  /\ consumer \in {"idle", "receiving", "dropping", "gone"}
  /\ filled \in Seq(Nat \cup {Err}) /\ emitted \in Seq(Nat \cup {Err})
  /\ pending \in Seq(Nat \cup {Err}) /\ got \in Seq(Nat \cup {Err})
  /\ reads \in Nat
  /\ finished \in BOOLEAN

\* The first line is read before anything else: the worker starts by asking.
HandoffInit ==
  /\ worker = "asking" /\ after = "parsing" /\ filled = <<>> /\ reads = 0 /\ emitted = <<>>
  /\ consumer = "idle" /\ pending = <<>> /\ got = <<>> /\ finished = FALSE

Connected == consumer \in {"idle", "receiving"}

-----------------------------------------------------------------------------
(* The worker *)

\* ChannelSink::emit sends a full batch.
Emit ==
  /\ worker = "parsing"
  /\ Len(emitted) < MaxEvents
  /\ filled' = Append(filled, Len(emitted) + 1)
  /\ emitted' = Append(emitted, Len(emitted) + 1)
  /\ worker' = IF Len(filled) + 1 >= EVENT_BATCH THEN "flushing" ELSE "parsing"
  /\ after' = "parsing"
  /\ UNCHANGED <<reads, consumerVars>>

\* As if what is pending going out were demand enough.
wait_for_demand_flushOnly ==
  /\ worker = "parsing"
  /\ reads < MaxReads
  /\ worker' = IF filled = <<>> THEN "reading" ELSE "flushing"
  /\ after' = "asking"
  /\ UNCHANGED <<filled, reads, emitted, consumerVars>>

\* FlushingReader::fill_buf with nothing buffered: what is pending goes out,
\* then an empty batch.
wait_for_demand ==
  /\ worker = "parsing"
  /\ reads < MaxReads
  /\ worker' = IF filled = <<>> THEN "asking" ELSE "flushing"
  /\ after' = "asking"
  /\ UNCHANGED <<filled, reads, emitted, consumerVars>>

\* The source answers: with bytes, with its end, or with an error.
ReadSource ==
  /\ worker = "reading"
  /\ reads' = reads + 1
  /\ worker' = "parsing"
  /\ UNCHANGED <<after, filled, emitted, consumerVars>>

\* The grammar ends, with an error as the last item or without.
EndDecode ==
  /\ worker = "parsing"
  /\ \E items \in {<<>>, <<Err>>} :
       /\ filled' = filled \o items
       /\ emitted' = emitted \o items
       /\ worker' = IF filled \o items = <<>> THEN "ended" ELSE "flushing"
  /\ after' = "ended"
  /\ UNCHANGED <<reads, consumerVars>>

\* As if a drop joined the worker with the receiver still in place.
SendFails_onceGone ==
  /\ worker \in {"flushing", "asking"}
  /\ consumer = "gone"
  /\ LET last == worker = "flushing" /\ after = "ended"
     IN  /\ worker' = IF last THEN "ended" ELSE "flushing"
         /\ filled' = IF last THEN <<>> ELSE <<Err>>
         /\ after' = "ended"
  /\ UNCHANGED <<reads, emitted, consumerVars>>

\* A send finds the receiver gone: the decode ends with that error, whose
\* batch cannot be sent either.
SendFails ==
  /\ worker \in {"flushing", "asking"}
  /\ ~Connected
  /\ LET last == worker = "flushing" /\ after = "ended"
     IN  /\ worker' = IF last THEN "ended" ELSE "flushing"
         /\ filled' = IF last THEN <<>> ELSE <<Err>>
         /\ after' = "ended"
  /\ UNCHANGED <<reads, emitted, consumerVars>>

-----------------------------------------------------------------------------
(* The consumer *)

\* EventDecoder::next: an item at hand is returned, else a batch received.
next ==
  /\ consumer = "idle"
  /\ IF pending = <<>>
       THEN consumer' = "receiving" /\ UNCHANGED <<pending, got>>
       ELSE /\ got' = Append(got, Head(pending)) /\ pending' = Tail(pending)
            /\ UNCHANGED consumer
  /\ UNCHANGED <<workerVars, finished>>

\* Sender and receiver meet.
TakeBatch ==
  /\ consumer = "receiving"
  /\ worker \in {"flushing", "asking"}
  /\ LET items == IF worker = "flushing" THEN filled ELSE <<>>
     IN  IF items = <<>> THEN UNCHANGED <<consumer, pending, got>>
         ELSE /\ consumer' = "idle"
              /\ got' = Append(got, Head(items))
              /\ pending' = Tail(items)
  /\ worker' = IF worker = "flushing" THEN after ELSE "reading"
  /\ filled' = IF worker = "flushing" THEN <<>> ELSE filled
  /\ UNCHANGED <<after, reads, emitted, finished>>

\* The sender is gone: the worker is joined and next returns None.
ReceiveEnd ==
  /\ consumer = "receiving"
  /\ worker = "ended"
  /\ consumer' = "idle"
  /\ finished' = TRUE
  /\ UNCHANGED <<workerVars, pending, got>>

\* EventDecoder::drop puts another receiver in place and joins the worker.
DropDecoder ==
  /\ consumer = "idle"
  /\ consumer' = "dropping"
  /\ UNCHANGED <<workerVars, pending, got, finished>>
DropReturns ==
  /\ consumer = "dropping"
  /\ worker = "ended"
  /\ consumer' = "gone"
  /\ UNCHANGED <<workerVars, pending, got, finished>>

\* What the worker does on its own, but for its reads.
Work == Emit \/ wait_for_demand \/ EndDecode \/ SendFails
HandoffNext == Work \/ ReadSource \/ next \/ TakeBatch \/ ReceiveEnd \/ DropDecoder \/ DropReturns

\* The threads run and the source answers in the end; the consumer need not
\* go on.
HandoffFairness ==
  /\ WF_handoffVars(Work)
  /\ WF_handoffVars(ReadSource)
  /\ WF_handoffVars(TakeBatch \/ ReceiveEnd)
  /\ WF_handoffVars(DropReturns)
HandoffSpec == HandoffInit /\ [][HandoffNext]_handoffVars /\ HandoffFairness

-----------------------------------------------------------------------------
(* Properties *)

\* stream_events.rs:87 "so the parser never reads ahead of demand": the source
\* is read only while a call of next waits that has returned all there was.
\* A drop therefore never waits for the source.
SourceReadOnDemand ==
  worker = "reading" => /\ consumer = "receiving"
                        /\ got = emitted

\* stream_events.rs:131 "it runs at most one batch of events ahead": every item
\* is with the consumer or in one batch, in the order it was emitted, and None
\* comes after the last one.
ItemsInOrder ==
  /\ Connected => got \o pending \o filled = emitted
  /\ Len(filled) <= EVENT_BATCH
  /\ Connected /\ finished => got = emitted

HandoffKeepsPace == SourceReadOnDemand /\ ItemsInOrder

\* stream_events.rs:162: a call of next returns, and so does a drop, whatever
\* the worker waits for.
DecoderCallsReturn ==
  consumer \in {"receiving", "dropping"} ~> consumer \in {"idle", "gone"}
=============================================================================
