------------------------------ MODULE FrameReader ------------------------------
(***************************************************************************)
(* FrameReader (crates/reddb-io-toon-rpc/src/transport.rs) over its        *)
(* FrameDecoder (framing.rs): what next_document does between two reads.   *)
(* Its caller asks for documents until it gets an end or an error, as the  *)
(* client's receive task and the server's loop do.                         *)
(***************************************************************************)
EXTENDS Framing

VARIABLES
  buffer,     \* FrameDecoder::buffer
  ready,      \* FrameReader::ready
  delivered,  \* what next_document returned
  status      \* how next_document ended: "open", "ended", "violation", "truncated", "broken"

reader == <<buffer, ready, delivered, status>>

ReaderTypeOK ==
  /\ buffer \in Seq(Bytes)
  /\ ready \in Seq(Payloads)
  /\ delivered \in Seq(Payloads)
  /\ status \in {"open", "ended", "violation", "truncated", "broken"}

ReaderInit ==
  /\ buffer = <<>>
  /\ ready = <<>>
  /\ delivered = <<>>
  /\ status = "open"

\* A document that was ready is returned before anything more is read.
ReturnReady ==
  /\ status = "open"
  /\ ready # <<>>
  /\ delivered' = Append(delivered, Head(ready))
  /\ ready' = Tail(ready)
  /\ UNCHANGED <<buffer, status>>

AsksForMore == status = "open" /\ ready = <<>>

\* FrameDecoder::push.
Take(chunk) ==
  /\ AsksForMore
  /\ LET pushed == Push(buffer \o chunk)
     IN  /\ buffer' = pushed.rest
         /\ ready' = pushed.documents
         /\ status' = IF pushed.failed THEN "violation" ELSE "open"
  /\ UNCHANGED delivered

\* read returned zero: FrameDecoder::finish.
Finish ==
  /\ AsksForMore
  /\ status' = IF buffer = <<>> THEN "ended" ELSE "truncated"
  /\ buffer' = <<>>
  /\ UNCHANGED <<ready, delivered>>

Break ==
  /\ AsksForMore
  /\ status' = "broken"
  /\ UNCHANGED <<buffer, ready, delivered>>
================================================================================
