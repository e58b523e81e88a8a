---------------------------- MODULE CallContract ----------------------------
(***************************************************************************)
(* What a TOON-RPC client promises its callers, whatever the transport:    *)
(* every call that begins ends with at most one outcome, an answer is the  *)
(* answer to that very call, "closed" is only ever reported by a client    *)
(* that is closed, and nothing begins after the client closed.             *)
(*                                                                         *)
(* RpcClient (crates/reddb-io-toon-rpc/src/client.rs) is shown to          *)
(* implement it when its callers do not reuse call identifiers, TsClient   *)
(* (packages/toon-rpc/src/client.ts) as far as identifiers can tell.       *)
(***************************************************************************)

CONSTANTS
  Calls,      \* the calls ever made, each one incarnation of a call() future
  NoCall      \* "answers no call": the outcomes that are not an answer

VARIABLES
  ledger,     \* what the caller of each call knows of it
  open        \* may calls still begin?

vars == <<ledger, open>>

\* The outcomes a caller can see.  An answer names the call it answers.
Answer(c)  == [kind |-> "answer",    of |-> c]
Closed     == [kind |-> "closed",    of |-> NoCall]
Transport  == [kind |-> "transport", of |-> NoCall]
Protocol   == [kind |-> "protocol",  of |-> NoCall]
Timeout    == [kind |-> "timeout",   of |-> NoCall]
Dropped    == [kind |-> "dropped",   of |-> NoCall]
Refused    == [kind |-> "refused",   of |-> NoCall]
Idle       == [kind |-> "idle",      of |-> NoCall]
Pending    == [kind |-> "pending",   of |-> NoCall]

Init ==
  /\ ledger = [c \in Calls |-> Idle]
  /\ open = TRUE

Begin(c) ==
  /\ open
  /\ ledger[c] = Idle
  /\ ledger' = [ledger EXCEPT ![c] = Pending]
  /\ UNCHANGED open

Refuse(c) ==
  /\ ledger[c] = Idle
  /\ ledger' = [ledger EXCEPT ![c] = Refused]
  /\ UNCHANGED open

\* The only way a begun call ends.
Finish(c) ==
  /\ ledger[c] = Pending
  /\ \E outcome \in {Answer(c), Transport, Protocol, Timeout, Dropped, Closed} :
       /\ outcome = Closed => ~open
       /\ ledger' = [ledger EXCEPT ![c] = outcome]
  /\ UNCHANGED open

\* The client closes, and tells some of those who wait so in the same moment.
Shut ==
  /\ open
  /\ open' = FALSE
  /\ \E told \in SUBSET {c \in Calls : ledger[c] = Pending}, why \in {Closed, Transport} :
       ledger' = [c \in Calls |-> IF c \in told THEN why ELSE ledger[c]]

Next ==
  \/ \E c \in Calls : Begin(c) \/ Refuse(c) \/ Finish(c)
  \/ Shut

Spec == Init /\ [][Next]_vars
=============================================================================
