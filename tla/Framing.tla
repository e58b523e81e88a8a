------------------------------- MODULE Framing -------------------------------
(***************************************************************************)
(* The stream framing of crates/reddb-io-toon-rpc/src/framing.rs:          *)
(*                                                                         *)
(*     frame = length , LF , payload , LF                                  *)
(*                                                                         *)
(* Bytes are abstracted to the digits of some base (ten in the code), the  *)
(* line feed and a few others, and the two caps of the code are constants, *)
(* so that a length of two digits and both caps are within reach.          *)
(***************************************************************************)
EXTENDS LineFeed, Integers, Sequences, SequencesExt

CONSTANTS
  Base,             \* ten in the code
  MaxLengthDigits,  \* MAX_LENGTH_DIGITS
  MaxFrameBytes,    \* max_frame_bytes
  Others            \* the bytes that are neither digits nor LF

ASSUME FramingAssumption ==
  /\ Base \in Nat \ {0, 1}
  /\ MaxLengthDigits \in Nat \ {0}
  /\ MaxFrameBytes \in Nat
  /\ LF \notin Nat /\ LF \notin Others

Digits == 0..(Base - 1)
Bytes == Digits \cup {LF} \cup Others

-----------------------------------------------------------------------------

\* A number as ASCII digits, and digits as a number.
Decimal(n) ==
  LET digits[k \in 0..n] ==
        IF k < Base THEN <<k>> ELSE Append(digits[k \div Base], k % Base)
  IN  digits[n]
Number(digits) ==
  LET value[i \in 0..Len(digits)] == IF i = 0 THEN 0 ELSE value[i - 1] * Base + digits[i]
  IN  value[Len(digits)]

\* A decoder's cap is a length that a header can express.
ASSUME CapAssumption == \A n \in 0..MaxFrameBytes : Len(Decimal(n)) <= MaxLengthDigits

EncodeFrame(document) == Decimal(Len(document)) \o <<LF>> \o document \o <<LF>>

\* What one look at the buffer finds.
NeedMore == [kind |-> "more"]
Violation == [kind |-> "violation"]
Frame(document, rest) == [kind |-> "frame", document |-> document, rest |-> rest]

BadHeader(header) ==
  \/ header = <<>>
  \/ Len(header) > MaxLengthDigits
  \/ \E i \in DOMAIN header : header[i] \notin Digits
  \/ Len(header) > 1 /\ header[1] = 0
  \/ Number(header) > MaxFrameBytes

\* Where a header ends, if it does.
Terminator(buffer) == SelectInSeq(buffer, LAMBDA byte : byte = LF)

\* FrameDecoder::take_frame.
TakeFrame_trustsTerminator(buffer) ==
  LET lf == Terminator(buffer)
      header == SubSeq(buffer, 1, lf - 1)
      end == lf + 1 + Number(header)
  IN  IF lf = 0 THEN (IF Len(buffer) > MaxLengthDigits THEN Violation ELSE NeedMore)
      ELSE IF BadHeader(header) THEN Violation
      ELSE IF Len(buffer) < end THEN NeedMore
      ELSE Frame(SubSeq(buffer, lf + 1, end - 1), SubSeq(buffer, end + 1, Len(buffer)))
TakeFrame_eager(buffer) ==
  LET lf == Terminator(buffer)
      header == SubSeq(buffer, 1, lf - 1)
      end == lf + 1 + Number(header)
  IN  IF lf = 0 THEN (IF Len(buffer) > MaxLengthDigits THEN Violation ELSE NeedMore)
      ELSE IF BadHeader(header) THEN Violation
      ELSE IF Len(buffer) < end - 1 THEN NeedMore
      ELSE IF Len(buffer) < end \/ buffer[end] # LF THEN Violation
      ELSE Frame(SubSeq(buffer, lf + 1, end - 1), SubSeq(buffer, end + 1, Len(buffer)))
TakeFrame_needsOneMore(buffer) ==
  LET lf == Terminator(buffer)
      header == SubSeq(buffer, 1, lf - 1)
      end == lf + 1 + Number(header)
  IN  IF lf = 0 THEN (IF Len(buffer) > MaxLengthDigits THEN Violation ELSE NeedMore)
      ELSE IF BadHeader(header) THEN Violation
      ELSE IF Len(buffer) <= end THEN NeedMore
      ELSE IF buffer[end] # LF THEN Violation
      ELSE Frame(SubSeq(buffer, lf + 1, end - 1), SubSeq(buffer, end + 1, Len(buffer)))
TakeFrame(buffer) ==
  LET lf == Terminator(buffer)
      header == SubSeq(buffer, 1, lf - 1)
      end == lf + 1 + Number(header)
  IN  IF lf = 0 THEN (IF Len(buffer) > MaxLengthDigits THEN Violation ELSE NeedMore)
      ELSE IF BadHeader(header) THEN Violation
      ELSE IF Len(buffer) < end THEN NeedMore
      ELSE IF buffer[end] # LF THEN Violation
      ELSE Frame(SubSeq(buffer, lf + 1, end - 1), SubSeq(buffer, end + 1, Len(buffer)))

\* The documents that fit, and what the loop of FrameDecoder::push has in hand.
Payloads == BoundedSeq(Bytes, MaxFrameBytes)
Taken == [documents : Seq(Payloads), rest : Seq(Bytes), failed : BOOLEAN]

\* The loop of FrameDecoder::push: take frames until one is missing or wrong.
\* A violation empties the buffer and gives none of the documents back.  Every
\* frame takes bytes, so there are no more rounds than bytes.
TakeNext(taken) ==
  LET frame == TakeFrame(taken.rest)
  IN  CASE frame.kind = "more" -> taken
        [] frame.kind = "frame" ->
             [taken EXCEPT !.documents = Append(@, frame.document), !.rest = frame.rest]
        [] frame.kind = "violation" -> [documents |-> <<>>, rest |-> <<>>, failed |-> TRUE]
Push(buffer) ==
  LET drain[rounds \in 0..Len(buffer)] ==
        [taken \in Taken |-> IF rounds = 0 THEN taken ELSE drain[rounds - 1][TakeNext(taken)]]
  IN  drain[Len(buffer)][[documents |-> <<>>, rest |-> buffer, failed |-> FALSE]]

-----------------------------------------------------------------------------
\* The stream that carries some documents in their order.
EncodeAll(documents) ==
  LET stream[i \in 0..Len(documents)] ==
        IF i = 0 THEN <<>> ELSE stream[i - 1] \o EncodeFrame(documents[i])
  IN  stream[Len(documents)]

\* Bytes that are, or may still become, the beginning of a legal frame.
Viable(bytes) ==
  \E document \in Payloads :
    LET frame == EncodeFrame(document)
    IN  IsPrefix(bytes, frame) \/ IsPrefix(frame, bytes)
=============================================================================
