---------------------------- MODULE DocumentChannel ----------------------------
(***************************************************************************)
(* What a transport promises (crates/reddb-io-toon-rpc/src/transport.rs,   *)
(* "A transport carries complete RPC documents"), in one direction: the    *)
(* documents that were sent come out whole, in order, once, and the end of *)
(* the stream comes after the last of them.                                *)
(***************************************************************************)
EXTENDS Naturals, Sequences

CONSTANTS Document

VARIABLES
  accepted,  \* the documents the sending side took, in their order
  received,  \* the documents the receiving side gave to its caller
  closed,    \* the sending side closed the stream
  end        \* what the receiving side reported last: "open", "ended", "failed"

vars == <<accepted, received, closed, end>>

Init ==
  /\ accepted = <<>>
  /\ received = <<>>
  /\ closed = FALSE
  /\ end = "open"

Send(d) ==
  /\ ~closed
  /\ accepted' = Append(accepted, d)
  /\ UNCHANGED <<received, closed, end>>

Close ==
  /\ closed' = TRUE
  /\ UNCHANGED <<accepted, received, end>>

Receive ==
  /\ end = "open"
  /\ Len(received) < Len(accepted)
  /\ received' = Append(received, accepted[Len(received) + 1])
  /\ UNCHANGED <<accepted, closed, end>>

\* A clean end is the end of everything that was sent.
End ==
  /\ end = "open"
  /\ closed /\ received = accepted
  /\ end' = "ended"
  /\ UNCHANGED <<accepted, received, closed>>

Fail ==
  /\ end = "open"
  /\ end' = "failed"
  /\ UNCHANGED <<accepted, received, closed>>

Next == (\E d \in Document : Send(d)) \/ Close \/ Receive \/ End \/ Fail

Spec == Init /\ [][Next]_vars
================================================================================
