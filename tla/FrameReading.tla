----------------------------- MODULE FrameReading -----------------------------
(***************************************************************************)
(* A FrameReader on a stream the peer chose: any bytes whatever, in chunks *)
(* of any size, ending or failing anywhere.                                *)
(***************************************************************************)
EXTENDS FrameReader

CONSTANTS
  MaxInput   \* bound: bytes of the stream, a number

VARIABLES
  input,      \* what the peer sends before it ends the stream
  at          \* how many of these bytes were read

readingVars == <<input, at, reader>>

ReadingTypeOK ==
  /\ ReaderTypeOK
  /\ input \in Seq(Bytes) /\ Len(input) <= MaxInput
  /\ at \in 0..Len(input)

ReadingInit ==
  /\ ReaderInit
  /\ input \in BoundedSeq(Bytes, MaxInput)
  /\ at = 0

NextChunk(size) ==
  /\ at + size <= Len(input)
  /\ at' = at + size
  /\ Take(SubSeq(input, at + 1, at + size))
  /\ UNCHANGED input

ReadingNext ==
  \/ ReturnReady /\ UNCHANGED <<input, at>>
  \/ \E size \in 1..MaxInput : NextChunk(size)
  \/ at = Len(input) /\ Finish /\ UNCHANGED <<input, at>>
  \/ Break /\ UNCHANGED <<input, at>>

ReadingSpec == ReadingInit /\ [][ReadingNext]_readingVars

-----------------------------------------------------------------------------
Received == SubSeq(input, 1, at)

\* However the stream was cut into chunks, a reader that has not failed holds
\* exactly the stream it read: the frames of what it returned and has ready,
\* then the bytes it keeps; it keeps no complete frame back, and a clean end
\* means that nothing is left.
ReassemblesTheStream ==
  status \in {"open", "ended"} =>
    /\ Received = EncodeAll(delivered \o ready) \o buffer
    /\ ~\E document \in Payloads : IsPrefix(EncodeFrame(document), buffer)
    /\ status = "ended" => input = EncodeAll(delivered)

\* A reader only refuses a stream at a place where no frame can be, and only
\* calls one truncated that ends inside a frame.
RefusesOnlyBadStreams ==
  status \in {"violation", "truncated"} =>
    \E more \in BoundedSeq(Payloads, MaxInput \div 3) :
      LET read == EncodeAll(delivered \o more)
          rest == SubSeq(Received, Len(read) + 1, at)
      IN  /\ IsPrefix(read, Received)
          /\ IF status = "truncated" THEN rest # <<>> /\ at = Len(input) ELSE ~Viable(rest)

\* framing.rs:1-6, transport.rs:76: whatever bytes a peer sends and however they
\* are cut into reads, the reader returns the documents whose frames they hold,
\* and fails exactly when they leave the grammar or end inside a frame.
ReadsTheFramesSent == ReassemblesTheStream /\ RefusesOnlyBadStreams
=============================================================================
