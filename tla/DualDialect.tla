----------------------------- MODULE DualDialect -----------------------------
(***************************************************************************)
(* dualDialectStream (packages/toon-rpc/src/acp-stream.ts): which dialect  *)
(* each outgoing message is written in.  Frames come in already cut (see   *)
(* EventReading); a frame is the dialect its first byte gives it, whether  *)
(* it decodes, and the identifiers of the requests in it, of which only a  *)
(* JSON batch has several.  The consumer answers what it likes.            *)
(***************************************************************************)
EXTENDS Integers, Sequences, SequencesExt

CONSTANTS
  RequestIds,       \* identifiers peers give their requests
  maxPendingCalls   \* DEFAULT_LIMITS.maxPendingCalls

ASSUME DialectAssumption == maxPendingCalls \in Nat \ {0}

Dialects == {"jsonrpc", "toonrpc"}

VARIABLES
  preferred,         \* options.preferred; fixed
  peerDialect,       \* the latch: "none" until a frame decoded
  requestDialects,   \* the map, as its entries in insertion order
  diagnostic,        \* what onDiagnostic was told last
  written,           \* the last message written, with what was owed when it was
  arrivedIn,         \* ghost: the dialect of each request that has no answer yet
  newer,             \* ghost: the requests that came after it, up to the cap
  proven             \* ghost: the dialects in which frames decoded

dialectVars ==
  <<preferred, peerDialect, requestDialects, diagnostic, written, arrivedIn, newer, proven>>

NothingWritten == [dialect |-> "none", owed |-> "none", readable |-> {"none"}]

DialectInit ==
  /\ preferred \in Dialects
  /\ peerDialect = "none"
  /\ requestDialects = <<>>
  /\ diagnostic = "none"
  /\ written = NothingWritten
  /\ arrivedIn = [id \in RequestIds |-> "none"]
  /\ newer = [id \in RequestIds |-> 0]
  /\ proven = {}

-----------------------------------------------------------------------------
\* The map of open requests.

\* It has an identifier at most once; 0 stands for an absent one.
Position(map, id) == SelectInSeq(map, LAMBDA entry : entry.id = id)
Recorded(map, id) ==
  IF Position(map, id) = 0 THEN "none" ELSE map[Position(map, id)].dialect
Forgotten(map, id) ==
  IF Position(map, id) = 0 THEN map ELSE RemoveAt(map, Position(map, id))

\* Remembering one request: it becomes the newest, and past the cap the oldest goes.
Remembered_inPlace(map, id, dialect) ==
  LET longer == IF Recorded(map, id) = "none" THEN Append(map, [id |-> id, dialect |-> dialect])
                ELSE [i \in DOMAIN map |-> IF map[i].id = id THEN [map[i] EXCEPT !.dialect = dialect]
                                           ELSE map[i]]
  IN  IF Len(longer) > maxPendingCalls THEN Tail(longer) ELSE longer
Remembered(map, id, dialect) ==
  LET longer == Append(Forgotten(map, id), [id |-> id, dialect |-> dialect])
  IN  IF Len(longer) > maxPendingCalls THEN Tail(longer) ELSE longer

\* rememberRequests goes through the requests of a message in turn; with each,
\* the others have one more that is newer.
Requested(known, id, dialect) ==
  [map |-> Remembered(known.map, id, dialect),
   arrivedIn |-> [known.arrivedIn EXCEPT ![id] = dialect],
   newer |-> [other \in RequestIds |->
                IF other = id THEN 0
                ELSE IF known.newer[other] < maxPendingCalls THEN known.newer[other] + 1
                ELSE maxPendingCalls]]
rememberRequests(ids, dialect) ==
  LET known[i \in 0..Len(ids)] ==
        IF i = 0 THEN [map |-> requestDialects, arrivedIn |-> arrivedIn, newer |-> newer]
        ELSE Requested(known[i - 1], ids[i], dialect)
  IN  known[Len(ids)]

\* answerDialect goes through the answers of a message: the first one that is
\* recorded decides, and all of them are forgotten.
AnsweredOne(answer, id) ==
  [map |-> Forgotten(answer.map, id),
   dialect |-> IF answer.dialect = "none" THEN Recorded(answer.map, id) ELSE answer.dialect]
answerDialect(ids) ==
  LET answer[i \in 0..Len(ids)] ==
        IF i = 0 THEN [map |-> requestDialects, dialect |-> "none"]
        ELSE AnsweredOne(answer[i - 1], ids[i])
  IN  answer[Len(ids)]

\* A frame decodes: the latch moves, and its requests are remembered.
DecodeFrame(dialect, ids) ==
  /\ Len(ids) > 1 => dialect = "jsonrpc"
  /\ peerDialect' = dialect
  /\ diagnostic' = IF peerDialect \in {dialect, "none"} THEN diagnostic ELSE "dialect-change"
  /\ LET known == rememberRequests(ids, dialect)
     IN  requestDialects' = known.map /\ arrivedIn' = known.arrivedIn /\ newer' = known.newer
  /\ proven' = proven \cup {dialect}
  /\ UNCHANGED <<preferred, written>>

\* A frame that does not decode is reported and moves nothing.
SkipFrame(dialect) ==
  /\ diagnostic' = "skipped-frame"
  /\ UNCHANGED <<preferred, peerDialect, requestDialects, written, arrivedIn, newer, proven>>

\* The dialects the peer is known to read, JSON in any case; before it has shown
\* any, the preferred one is taken for one of them.
Readable == {"jsonrpc"} \cup (IF proven = {} THEN {preferred} ELSE proven)

\* A message that answers these identifiers, if any, is written.  The TOON
\* encoder may refuse it, and an array is one line of JSON in either dialect.
WriteMessage(ids, refused) ==
  LET answer == answerDialect(ids)
      latched == IF peerDialect = "none" THEN preferred ELSE peerDialect
      dialect == IF answer.dialect = "none" THEN latched ELSE answer.dialect
      isOwed == Len(ids) = 1 /\ ~refused /\ newer[ids[1]] < maxPendingCalls
  IN  /\ requestDialects' = answer.map
      /\ written' = [dialect |-> IF refused \/ Len(ids) > 1 THEN "jsonrpc" ELSE dialect,
                     owed |-> IF isOwed THEN arrivedIn[ids[1]] ELSE "none",
                     readable |-> Readable]
      /\ arrivedIn' = [id \in RequestIds |-> IF id \in ToSet(ids) THEN "none" ELSE arrivedIn[id]]
      /\ UNCHANGED <<preferred, peerDialect, diagnostic, newer, proven>>

Messages == {<<>>} \cup {<<id>> : id \in RequestIds} \cup (RequestIds \X RequestIds)

DialectNext ==
  \/ \E dialect \in Dialects, ids \in Messages : DecodeFrame(dialect, ids)
  \/ \E dialect \in Dialects : SkipFrame(dialect)
  \/ \E ids \in Messages, refused \in BOOLEAN : WriteMessage(ids, refused)

DialectSpec == DialectInit /\ [][DialectNext]_dialectVars

-----------------------------------------------------------------------------

\* acp-stream.ts:23-31 and 83-84: the answer to a request that fewer than the
\* cap followed goes out in the request's dialect, unless TOON cannot say it;
\* and no message wears a dialect the peer has not proven to read, but JSON,
\* which every peer reads, and the preferred one before anything is proven.
AnswersInKind ==
  /\ written.dialect \in written.readable
  /\ written.owed # "none" => written.dialect = written.owed
=============================================================================
