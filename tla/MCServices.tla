------------------------------ MODULE MCServices ------------------------------
(***************************************************************************)
(* The servers' bookkeeping, the decoder's hand-off, the replacing of      *)
(* files and the runs of the ACP server, one part at a time: the parts     *)
(* share no state, so a behaviour runs one of them and the others rest in  *)
(* a state in which nothing of theirs is fair.                             *)
(***************************************************************************)
EXTENDS ConnectionPool, LongPolling, SseSessions, EventHandoff, InPlace, AcpRuns

VARIABLE part   \* what runs

vars == <<part, poolVars, pollVars, sseVars, handoffVars, inPlaceVars, acpVars>>

PoolRests ==
  /\ loop = "stopped" /\ incoming = [c \in Conns |-> 0]
  /\ signal = FALSE /\ result = "none" /\ permits = Slots /\ tasks = {} /\ trigger = FALSE
  /\ conn = [c \in Conns |-> "away"]

K == CHOOSE k \in Keys : TRUE
R == CHOOSE r \in Requests : TRUE

PollsRest ==
  /\ PollInit
  /\ \A r \in Requests : key[r] = K
  /\ \A p \in Pushes : target[p] = K

\* The requests are alike and so are the keys: of three requests, two poll K.
PollsRun == PollInit /\ \A r \in Requests \ {R} : key[r] = K

HandoffRests == HandoffInit
FilesRest == InPlaceInit /\ kind = "trim"

Init ==
  \/ /\ part = "pool"
     /\ PoolInit /\ PollsRest /\ SseInit /\ HandoffRests /\ FilesRest /\ AcpInit
  \/ /\ part = "polls"
     /\ PoolRests /\ PollsRun /\ SseInit /\ HandoffRests /\ FilesRest /\ AcpInit
  \/ /\ part = "streams"
     /\ PoolRests /\ PollsRest /\ SseInit /\ HandoffRests /\ FilesRest /\ AcpInit
  \/ /\ part = "decoder"
     /\ PoolRests /\ PollsRest /\ SseInit /\ HandoffInit /\ FilesRest /\ AcpInit
  \/ /\ part = "files"
     /\ PoolRests /\ PollsRest /\ SseInit /\ HandoffRests /\ InPlaceInit /\ AcpInit
  \/ /\ part = "runs"
     /\ PoolRests /\ PollsRest /\ SseInit /\ HandoffRests /\ FilesRest /\ AcpInit

Next ==
  \/ /\ part = "pool" /\ PoolNext
     /\ UNCHANGED <<part, pollVars, sseVars, handoffVars, inPlaceVars, acpVars>>
  \/ /\ part = "polls" /\ PollNext
     /\ UNCHANGED <<part, poolVars, sseVars, handoffVars, inPlaceVars, acpVars>>
  \/ /\ part = "streams" /\ SseNext
     /\ UNCHANGED <<part, poolVars, pollVars, handoffVars, inPlaceVars, acpVars>>
  \/ /\ part = "decoder" /\ HandoffNext
     /\ UNCHANGED <<part, poolVars, pollVars, sseVars, inPlaceVars, acpVars>>
  \/ /\ part = "files" /\ InPlaceNext
     /\ UNCHANGED <<part, poolVars, pollVars, sseVars, handoffVars, acpVars>>
  \/ /\ part = "runs" /\ AcpNext
     /\ UNCHANGED <<part, poolVars, pollVars, sseVars, handoffVars, inPlaceVars>>

Spec == Init /\ [][Next]_vars /\ PoolFairness /\ PollFairness /\ SseFairness /\ HandoffFairness
=============================================================================
