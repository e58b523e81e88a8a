----------------------------- MODULE LongPolling -----------------------------
(***************************************************************************)
(* The waiter table of crates/reddb-io-toon-rpc-longpolling (src/lib.rs):  *)
(* GET /poll/{id} waits in the table for an event of push_event, for the   *)
(* poll timeout, or until its connection goes away.                        *)
(*                                                                         *)
(* The table is behind a mutex; requests and pushers run on several        *)
(* threads.  A step is one critical section, one send on a waiter's        *)
(* channel, or one poll of a waiting request.                              *)
(***************************************************************************)
EXTENDS Naturals, FiniteSets

CONSTANTS
  Keys,              \* poll identifiers
  Requests,          \* GET /poll requests that may be made
  Pushes,            \* calls of push_event
  NoPush,
  MaxPollKeys,       \* max_poll_keys
  MaxWaitersPerKey   \* max_waiters_per_key

ASSUME PollAssumption ==
  /\ IsFiniteSet(Keys)
  /\ IsFiniteSet(Requests)
  /\ NoPush \notin Pushes
  /\ MaxPollKeys \in Nat
  /\ MaxWaitersPerKey \in Nat

VARIABLES
  listed,    \* the keys that are in the table
  waiters,   \* the waiters of each key
  poll,      \* where each request stands
  key,       \* the identifier each request polls
  response,  \* what each request is answered
  inbox,     \* the event sent to each request, even if it never took it
  push,      \* where each push stands
  target,    \* the identifier each push is for
  batch      \* the waiters a push took out of the table and has not sent to

table == <<listed, waiters>>
requests == <<poll, key, response>>
pushes == <<push, target, batch>>
pollVars == <<table, requests, inbox, pushes>>

\* The receiver of these requests exists.
Alive == {"waiting", "expired"}

PollTypeOK ==
  /\ listed \subseteq Keys
  /\ waiters \in [Keys -> SUBSET Requests]
  /\ poll \in [Requests -> Alive \cup {"idle", "leaving", "gone"}]
  /\ key \in [Requests -> Keys]
  /\ response \in [Requests -> {"none", "event", "empty", "unavailable"}]
  /\ inbox \in [Requests -> Pushes \cup {NoPush}]
  /\ push \in [Pushes -> {"idle", "sending"}]
  /\ target \in [Pushes -> Keys]
  /\ batch \in [Pushes -> SUBSET Requests]

PollInit ==
  /\ listed = {}
  /\ waiters = [k \in Keys |-> {}]
  /\ poll = [r \in Requests |-> "idle"]
  /\ key \in [Requests -> Keys]
  /\ response = [r \in Requests |-> "none"]
  /\ inbox = [r \in Requests |-> NoPush]
  /\ push = [p \in Pushes |-> "idle"]
  /\ target \in [Pushes -> Keys]
  /\ batch = [p \in Pushes |-> {}]

-----------------------------------------------------------------------------
\* GET /poll/{id}.

KeyHasRoom(k) == k \in listed \/ Cardinality(listed) < MaxPollKeys

Enter(r) ==
  /\ poll[r] = "idle"
  /\ KeyHasRoom(key[r])
  /\ Cardinality(waiters[key[r]]) < MaxWaitersPerKey
  /\ listed' = listed \cup {key[r]}
  /\ waiters' = [waiters EXCEPT ![key[r]] = @ \cup {r}]
  /\ poll' = [poll EXCEPT ![r] = "waiting"]
  /\ UNCHANGED <<key, response, inbox, pushes>>

Unavailable(r) ==
  /\ poll' = [poll EXCEPT ![r] = "gone"]
  /\ response' = [response EXCEPT ![r] = "unavailable"]
  /\ UNCHANGED <<waiters, key, inbox, pushes>>

\* The key is entered before its waiters are counted.
Refuse(r) ==
  /\ poll[r] = "idle"
  /\ \/ ~KeyHasRoom(key[r]) /\ UNCHANGED listed
     \/ /\ KeyHasRoom(key[r])
        /\ Cardinality(waiters[key[r]]) >= MaxWaitersPerKey
        /\ listed' = listed \cup {key[r]}
  /\ Unavailable(r)

Leave(r, answer) ==
  /\ poll' = [poll EXCEPT ![r] = "leaving"]
  /\ response' = [response EXCEPT ![r] = answer]
  /\ UNCHANGED <<table, key, inbox, pushes>>

\* timeout looks at the channel before it looks at the clock.
Receive(r) ==
  /\ poll[r] = "waiting"
  /\ inbox[r] # NoPush
  /\ Leave(r, "event")

Expire_onlyListed(r) ==
  /\ poll[r] = "waiting"
  /\ inbox[r] = NoPush
  /\ r \in waiters[key[r]]
  /\ poll' = [poll EXCEPT ![r] = "expired"]
  /\ UNCHANGED <<table, key, response, inbox, pushes>>
Expire(r) ==
  /\ poll[r] = "waiting"
  /\ inbox[r] = NoPush
  /\ poll' = [poll EXCEPT ![r] = "expired"]
  /\ UNCHANGED <<table, key, response, inbox, pushes>>

\* The receiver goes with the future of the timeout, then 204 is answered.
AnswerEmpty(r) ==
  /\ poll[r] = "expired"
  /\ Leave(r, "empty")

\* The connection is gone: its request is dropped wherever it waits.
DropRequest(r) ==
  /\ poll[r] = "waiting"
  /\ Leave(r, "none")

\* WaiterGuard::drop, the last thing of a request however it ended.
RemoveWaiter_ofKey(r) ==
  /\ waiters' = [waiters EXCEPT ![key[r]] = {}]
  /\ listed' = listed \ {key[r]}
RemoveWaiter(r) ==
  /\ waiters' = [waiters EXCEPT ![key[r]] = @ \ {r}]
  /\ listed' = IF waiters[key[r]] \subseteq {r} THEN listed \ {key[r]} ELSE listed

GuardDrops(r) ==
  /\ poll[r] = "leaving"
  /\ RemoveWaiter(r)
  /\ poll' = [poll EXCEPT ![r] = "gone"]
  /\ UNCHANGED <<key, response, inbox, pushes>>

-----------------------------------------------------------------------------
\* push_event: it takes the key's waiters under the lock and sends to them
\* after it.

TakeWaiters_keepsThem(p) ==
  /\ push[p] = "idle"
  /\ push' = [push EXCEPT ![p] = "sending"]
  /\ batch' = [batch EXCEPT ![p] = waiters[target[p]]]
  /\ UNCHANGED <<table, requests, inbox, target>>
TakeWaiters(p) ==
  /\ push[p] = "idle"
  /\ push' = [push EXCEPT ![p] = "sending"]
  /\ batch' = [batch EXCEPT ![p] = waiters[target[p]]]
  /\ listed' = listed \ {target[p]}
  /\ waiters' = [waiters EXCEPT ![target[p]] = {}]
  /\ UNCHANGED <<requests, inbox, target>>

\* A waiter that has gone is skipped and not counted.
SendNext(p) ==
  \E r \in batch[p] :
    /\ batch' = [batch EXCEPT ![p] = @ \ {r}]
    /\ inbox' = IF poll[r] \in Alive THEN [inbox EXCEPT ![r] = p] ELSE inbox
    /\ UNCHANGED <<table, requests, push, target>>

-----------------------------------------------------------------------------

\* What the server does with a request that came in.
Proceed(r) == Receive(r) \/ Expire(r) \/ AnswerEmpty(r) \/ GuardDrops(r)

RequestStep(r) == Enter(r) \/ Refuse(r) \/ DropRequest(r) \/ Proceed(r)

PushStep(p) == TakeWaiters(p) \/ SendNext(p)

PollNext == (\E r \in Requests : RequestStep(r)) \/ (\E p \in Pushes : PushStep(p))

PollSpec == PollInit /\ [][PollNext]_pollVars

\* Timers fire and a woken request runs; nobody has to push.
PollFairness == \A r \in Requests : WF_pollVars(Proceed(r))

-----------------------------------------------------------------------------

\* lib.rs:10-12: the table is bounded in keys and in waiters per key, and a key
\* is removed as soon as its last waiter leaves, so that the keys in the table
\* are those somebody polls.  No entry outlives its request.
TableBounded ==
  /\ Cardinality(listed) <= MaxPollKeys
  /\ \A k \in Keys : Cardinality(waiters[k]) <= MaxWaitersPerKey
KeysHaveWaiters == \A k \in Keys : k \in listed <=> waiters[k] # {}
NoEntryLeaks == \A r \in Requests : poll[r] \in {"idle", "gone"} => r \notin waiters[key[r]]
TableInOrder ==
  /\ TableBounded
  /\ MaxWaitersPerKey > 0 => KeysHaveWaiters
  /\ NoEntryLeaks

\* A request that waits can be reached: it is in the table under its key, or a
\* push for that key is about to send to it, or has.  The guard of an earlier
\* waiter, late or not, never takes it out.
WaitersReachable ==
  \A r \in Requests : poll[r] = "waiting" /\ inbox[r] = NoPush =>
    \/ r \in waiters[key[r]]
    \/ \E p \in Pushes : r \in batch[p] /\ target[p] = key[r]

\* The table holds those that wait, and nothing that does not.
WaitersInOrder == TableInOrder /\ WaitersReachable

\* No request is sent two events, or one of another identifier.
OneEventPerPoll ==
  /\ \A p \in Pushes : \A r \in batch[p] :
          /\ inbox[r] = NoPush
          /\ target[p] = key[r]
          /\ r \notin waiters[key[r]]
  /\ \A p, q \in Pushes : p # q => batch[p] \cap batch[q] = {}

\* Every poll is answered or dropped, whatever the pushes do.
PollsEnd == \A r \in Requests : (poll[r] = "waiting") ~> (poll[r] = "gone")
=============================================================================
