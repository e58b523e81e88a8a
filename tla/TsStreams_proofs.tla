--------------------------- MODULE TsStreams_proofs ---------------------------
(***************************************************************************)
(* Proofs about the TypeScript transports and servers, for every value of  *)
(* their constants.                                                        *)
(*                                                                         *)
(* The documents a consumer got and those that are queued for it are one   *)
(* sequence, the first ones that came in, until the queue ends; behind an  *)
(* end nothing is added. That an end without a failure has everything      *)
(* follows from where it comes from: the connection is gone, and the       *)
(* decoder was at the boundary of a frame.                                 *)
(*                                                                         *)
(* What a server has written on a connection belongs to documents it       *)
(* finished, and it finishes them in the order in which it accepted them.  *)
(***************************************************************************)
EXTENDS TsTransport, TsServer, Lemmas, SequenceTheorems, TLAPS

-------------------------------------------------------------------------------
(* The client transports. *)

\* What holds of a queue into which a documents came: the consumer took the first
\* ones, the next ones are queued, and none is missing while the queue is open.
\* Who waits finds nothing queued, and hears the end behind what was queued.
QueueHolds(q, a, gaveUp) ==
  /\ q \in DocumentQueue
  /\ Len(q.items) <= Capacity
  /\ \A i \in 1..Len(q.taken) : q.taken[i] = i
  /\ \A i \in 1..Len(q.items) : q.items[i] = Len(q.taken) + i
  /\ ~q.ended => Len(q.taken) + Len(q.items) = a
  /\ q.failure => q.ended
  /\ q.waiter => q.items = <<>> /\ ~q.ended /\ q.outcome = "open"
  /\ q.outcome # "open" /\ ~gaveUp => q.items = <<>> /\ q.ended
  /\ q.outcome = "done" /\ ~gaveUp => ~q.failure

\* An end without a failure and without close() is that of the connection, with
\* everything that came in.
EndHolds(q, at, a, left, over) ==
  q.ended /\ ~q.failure /\ ~over =>
    at = "gone" /\ Len(q.taken) + Len(q.items) = a /\ left = "whole"

\* The inductive invariant.
StreamInv ==
  /\ kind \in {"tcp", "stdio", "websocket", "sse"}
  /\ link \in {"connecting", "refused", "open", "dying", "gone"}
  /\ arrived \in 0..MaxArrivals
  /\ tail \in {"whole", "partial", "poisoned"}
  /\ broken \in BOOLEAN /\ aborted \in BOOLEAN /\ closed \in BOOLEAN
  /\ QueueHolds(queue, arrived, aborted)
  /\ EndHolds(queue, link, arrived, tail, closed)
  /\ broken => queue.ended
  /\ tail = "poisoned" => queue.ended
  /\ ~Framed => tail = "whole"

-----------------------------------------------------------------------------
\* The operations of the queue.

LEMMA AppendFacts ==
  ASSUME NEW s \in Seq(1..MaxArrivals), NEW d \in 1..MaxArrivals
  PROVE  /\ Append(s, d) \in Seq(1..MaxArrivals)
         /\ Len(Append(s, d)) = Len(s) + 1
         /\ \A i \in 1..Len(s) : Append(s, d)[i] = s[i]
         /\ Append(s, d)[Len(s) + 1] = d
         /\ \A i \in 1..(Len(s) + 1) : i \in 1..Len(s) \/ i = Len(s) + 1
         /\ Len(s) \in Nat
OBVIOUS

LEMMA TailFacts ==
  ASSUME NEW s \in Seq(1..MaxArrivals), s # <<>>
  PROVE  /\ Tail(s) \in Seq(1..MaxArrivals)
         /\ Len(Tail(s)) = Len(s) - 1
         /\ \A i \in 1..(Len(s) - 1) : Tail(s)[i] = s[i + 1]
         /\ Head(s) = s[1] /\ Head(s) \in 1..MaxArrivals
         /\ Len(s) \in Nat \ {0}
<1>1. Len(s) \in Nat /\ Len(s) # 0
  OBVIOUS
<1>2. Tail(s) \in Seq(1..MaxArrivals) /\ Len(Tail(s)) = Len(s) - 1
  BY HeadTailProperties
<1>3. \A i \in 1..(Len(s) - 1) : Tail(s)[i] = s[i + 1]
  BY <1>2, HeadTailProperties
<1>4. Head(s) = s[1] /\ Head(s) \in 1..MaxArrivals
  <2>1. Head(s) \in 1..MaxArrivals
    BY HeadTailProperties
  <2>2. Head(s) = s[1]
    OBVIOUS
  <2> QED BY <2>1, <2>2
<1> QED BY <1>1, <1>2, <1>3, <1>4

\* fail() of an open queue: whoever waits hears of it.
LEMMA FailedHolds ==
  ASSUME NEW q, NEW a, NEW gaveUp \in BOOLEAN, QueueHolds(q, a, gaveUp)
  PROVE  /\ QueueHolds(Failed(q), a, gaveUp)
         /\ Failed(q).ended /\ (q.ended => Failed(q) = q) /\ (~q.ended => Failed(q).failure)
         /\ \A b : q.ended => QueueHolds(q, b, gaveUp)
<1>1. CASE q.ended
  BY <1>1 DEF Failed, QueueHolds
<1>2. CASE ~q.ended
  <2> DEFINE d == Failed(q)
             e == [q EXCEPT !.ended = TRUE, !.failure = TRUE]
  <2>1. q \in DocumentQueue
    BY DEF QueueHolds
  <2>2. /\ e.ended /\ e.failure /\ e.items = q.items /\ e.taken = q.taken
        /\ e.waiter = q.waiter /\ e.outcome = q.outcome /\ e \in DocumentQueue
    BY <2>1 DEF DocumentQueue
  <2>3. d = Answered(e, "failed")
    BY <1>2 DEF Failed
  <2> HIDE DEF d, e
  <2>4. /\ d.ended /\ d.failure /\ d.items = q.items /\ d.taken = q.taken
        /\ ~d.waiter /\ d.outcome = (IF q.waiter THEN "failed" ELSE q.outcome)
        /\ d \in DocumentQueue
    <3>1. CASE q.waiter
      <4>1. q.items = <<>>
        BY <3>1 DEF QueueHolds
      <4>2. d = [e EXCEPT !.waiter = FALSE, !.outcome = "failed"]
        BY <2>2, <2>3, <3>1, <4>1 DEF Answered
      <4> QED BY <2>2, <3>1, <4>2 DEF DocumentQueue
    <3>2. CASE ~q.waiter
      <4>1. d = e
        BY <2>2, <2>3, <3>2 DEF Answered
      <4> QED BY <2>2, <3>2, <4>1 DEF DocumentQueue
    <3> QED BY <3>1, <3>2
  <2>5. QueueHolds(d, a, gaveUp)
    BY <1>2, <2>4 DEF QueueHolds
  <2> QED BY <1>2, <2>4, <2>5 DEF d
<1> QED BY <1>1, <1>2

\* end() of an open queue.
LEMMA EndedHolds ==
  ASSUME NEW q, NEW a, NEW gaveUp \in BOOLEAN, QueueHolds(q, a, gaveUp)
  PROVE  /\ QueueHolds(Ended(q), a, gaveUp)
         /\ Ended(q).ended /\ (q.ended => Ended(q) = q)
         /\ ~q.ended => /\ ~Ended(q).failure
                        /\ Ended(q).items = q.items /\ Ended(q).taken = q.taken
<1>1. CASE q.ended
  BY <1>1 DEF Ended, QueueHolds
<1>2. CASE ~q.ended
  <2> DEFINE d == Ended(q)
             e == [q EXCEPT !.ended = TRUE]
  <2>1. q \in DocumentQueue /\ ~q.failure
    BY <1>2 DEF QueueHolds
  <2>2. /\ e.ended /\ ~e.failure /\ e.items = q.items /\ e.taken = q.taken
        /\ e.waiter = q.waiter /\ e.outcome = q.outcome /\ e \in DocumentQueue
    BY <2>1 DEF DocumentQueue
  <2>3. d = Answered(e, "done")
    BY <1>2 DEF Ended
  <2> HIDE DEF d, e
  <2>4. /\ d.ended /\ ~d.failure /\ d.items = q.items /\ d.taken = q.taken
        /\ ~d.waiter /\ d.outcome = (IF q.waiter THEN "done" ELSE q.outcome)
        /\ d \in DocumentQueue
    <3>1. CASE q.waiter
      <4>1. q.items = <<>>
        BY <3>1 DEF QueueHolds
      <4>2. d = [e EXCEPT !.waiter = FALSE, !.outcome = "done"]
        BY <2>2, <2>3, <3>1, <4>1 DEF Answered
      <4> QED BY <2>2, <3>1, <4>2 DEF DocumentQueue
    <3>2. CASE ~q.waiter
      <4>1. d = e
        BY <2>2, <2>3, <3>2 DEF Answered
      <4> QED BY <2>2, <3>2, <4>1 DEF DocumentQueue
    <3> QED BY <3>1, <3>2
  <2>5. QueueHolds(d, a, gaveUp)
    BY <1>2, <2>4 DEF QueueHolds
  <2> QED BY <1>2, <2>4, <2>5 DEF d
<1> QED BY <1>1, <1>2

\* push() keeps the order, unless the queue is full: then it fails.
LEMMA PushedTypes ==
  ASSUME NEW q \in DocumentQueue, NEW d \in 1..MaxArrivals
  PROVE  Pushed(q, d) \in DocumentQueue
<1>1. /\ Append(q.taken, d) \in Seq(1..MaxArrivals)
      /\ Append(q.items, d) \in Seq(1..MaxArrivals)
  BY AppendFacts DEF DocumentQueue
<1>2. [q EXCEPT !.items = Append(@, d)] \in DocumentQueue
  BY <1>1 DEF DocumentQueue
<1>3. [q EXCEPT !.waiter = FALSE, !.taken = Append(@, d)] \in DocumentQueue
  BY <1>1 DEF DocumentQueue
<1>4. Failed(q) \in DocumentQueue
  <2> DEFINE e == [q EXCEPT !.ended = TRUE, !.failure = TRUE]
  <2>1. e \in DocumentQueue
    BY DEF DocumentQueue
  <2>2. Failed(q) = q \/ Failed(q) = Answered(e, "failed")
    BY DEF Failed
  <2> HIDE DEF e
  <2>3. Answered(e, "failed") \in DocumentQueue
    BY <2>1 DEF Answered, DocumentQueue
  <2> QED BY <2>2, <2>3
<1> QED BY <1>2, <1>3, <1>4 DEF Pushed

LEMMA PushedHolds ==
  ASSUME NEW q, NEW a \in Nat, NEW gaveUp \in BOOLEAN, QueueHolds(q, a, gaveUp),
         a + 1 <= MaxArrivals
  PROVE  /\ QueueHolds(Pushed(q, a + 1), a + 1, gaveUp)
         /\ q.ended => Pushed(q, a + 1) = q
         /\ ~q.ended /\ Pushed(q, a + 1).ended => Pushed(q, a + 1).failure
<1> USE TransportAssumption
<1> DEFINE n == a + 1
           d == Pushed(q, n)
<1>1. /\ q \in DocumentQueue /\ n \in 1..MaxArrivals /\ d \in DocumentQueue
      /\ q.taken \in Seq(1..MaxArrivals) /\ q.items \in Seq(1..MaxArrivals)
  <2>1. q \in DocumentQueue /\ n \in 1..MaxArrivals
    BY DEF QueueHolds
  <2>2. d \in DocumentQueue
    BY <2>1, PushedTypes
  <2> QED BY <2>1, <2>2 DEF DocumentQueue
<1>2. CASE q.ended
  BY <1>2 DEF Pushed, QueueHolds
<1>3. CASE ~q.ended /\ q.waiter
  <2> DEFINE t == Append(q.taken, n)
  <2>1. d = [q EXCEPT !.waiter = FALSE, !.taken = t]
    BY <1>3 DEF Pushed
  <2>2. /\ d.taken = t /\ d.items = q.items /\ ~d.waiter /\ ~d.ended
        /\ d.failure = q.failure /\ d.outcome = q.outcome
    BY <1>1, <1>3, <2>1 DEF DocumentQueue
  <2>3. q.items = <<>> /\ Len(q.taken) = a /\ q.outcome = "open"
    <3>1. /\ q.items = <<>> /\ q.outcome = "open"
          /\ Len(q.taken) + Len(q.items) = a
      BY <1>3 DEF QueueHolds
    <3>2. Len(q.items) = 0 /\ Len(q.taken) \in Nat
      BY <1>1, <3>1
    <3> QED BY <3>1, <3>2
  <2>4. /\ t \in Seq(1..MaxArrivals) /\ Len(t) = a + 1
        /\ \A i \in 1..Len(t) : t[i] = i
    <3>1. /\ Len(t) = a + 1 /\ t[a + 1] = a + 1 /\ t \in Seq(1..MaxArrivals)
          /\ \A i \in 1..a : t[i] = q.taken[i]
          /\ \A i \in 1..(a + 1) : i \in 1..a \/ i = a + 1
      BY <1>1, <2>3, AppendFacts
    <3> HIDE DEF t
    <3> QED BY <2>3, <3>1 DEF QueueHolds
  <2> HIDE DEF d, t
  <2>5. QueueHolds(d, n, gaveUp)
    <3>1. Len(d.items) = 0
      BY <2>2, <2>3
    <3>2. d.failure => d.ended
      BY <1>3, <2>2 DEF QueueHolds
    <3> QED BY <1>1, <2>2, <2>3, <2>4, <3>1, <3>2 DEF QueueHolds
  <2> QED BY <1>3, <2>2, <2>5 DEF d
<1>4. CASE ~q.ended /\ ~q.waiter /\ Len(q.items) >= Capacity
  <2>1. d = Failed(q)
    BY <1>4 DEF Pushed
  <2>2. QueueHolds(d, a, gaveUp) /\ d.ended /\ d.failure
    BY <1>4, <2>1, FailedHolds
  <2> HIDE DEF d
  <2>3. QueueHolds(d, n, gaveUp)
    BY <2>2 DEF QueueHolds
  <2> QED BY <1>4, <2>2, <2>3 DEF d
<1>5. CASE ~q.ended /\ ~q.waiter /\ Len(q.items) < Capacity
  <2> DEFINE t == Append(q.items, n)
             l == Len(q.items)
             m == Len(q.taken)
  <2>1. d = [q EXCEPT !.items = t]
    BY <1>1, <1>5 DEF Pushed
  <2>2. /\ d.items = t /\ d.taken = q.taken /\ ~d.waiter /\ ~d.ended
        /\ d.failure = q.failure /\ d.outcome = q.outcome
    BY <1>1, <1>5, <2>1 DEF DocumentQueue
  <2>3. m \in Nat /\ l \in Nat /\ m + l = a /\ l < Capacity
    <3>1. m \in Nat /\ l \in Nat
      BY <1>1
    <3>2. m + l = a
      BY <1>5 DEF QueueHolds
    <3> QED BY <1>5, <3>1, <3>2
  <2>4. /\ t \in Seq(1..MaxArrivals) /\ Len(t) = l + 1 /\ t[l + 1] = n
        /\ \A i \in 1..l : t[i] = q.items[i]
        /\ \A i \in 1..(l + 1) : i \in 1..l \/ i = l + 1
    BY <1>1, AppendFacts
  <2>5. \A i \in 1..l : q.items[i] = m + i
    BY DEF QueueHolds
  <2> HIDE DEF t, l, m, d
  <2>6. \A i \in 1..Len(t) : t[i] = m + i
    BY <2>3, <2>4, <2>5
  <2>7. Len(t) <= Capacity /\ m + Len(t) = n
    BY <2>3, <2>4
  <2>8. QueueHolds(d, n, gaveUp)
    <3>1. /\ \A i \in 1..Len(d.taken) : d.taken[i] = i
          /\ d.failure => d.ended
          /\ Len(d.taken) = m
      BY <1>5, <2>2 DEF QueueHolds, m
    <3> QED BY <1>1, <1>5, <2>2, <2>6, <2>7, <3>1 DEF QueueHolds
  <2> QED BY <1>5, <2>2, <2>8 DEF d
<1> QED BY <1>1, <1>2, <1>3, <1>4, <1>5 DEF DocumentQueue

\* A chunk pushes its documents one after the other: what holds before the first
\* push holds after the last.
LEMMA PushedAllHolds ==
  ASSUME NEW n \in Nat, arrived \in Nat, arrived + n <= MaxArrivals,
         NEW q, NEW gaveUp \in BOOLEAN, QueueHolds(q, arrived, gaveUp)
  PROVE  /\ QueueHolds(PushedAll(q, n), arrived + n, gaveUp)
         /\ q.ended => PushedAll(q, n) = q
         /\ ~q.ended /\ PushedAll(q, n).ended => PushedAll(q, n).failure
<1> USE TransportAssumption
<1> DEFINE body == [i \in 1..n |-> [p \in DocumentQueue |-> Pushed(p, arrived + i)]]
           f == CHOOSE f : f = [i \in 0..n |-> IF i = 0 THEN q ELSE Pushed(f[i - 1], arrived + i)]
           Good(i) == /\ QueueHolds(f[i], arrived + i, gaveUp)
                      /\ q.ended => f[i] = q
                      /\ ~q.ended /\ f[i].ended => f[i].failure
           S == {i \in 0..n : Good(i)}
<1>1. \E g \in [0..n -> DocumentQueue] :
         g = [i \in 0..n |-> IF i = 0 THEN q ELSE Pushed(g[i - 1], arrived + i)]
  <2>1. body \in [1..n -> [DocumentQueue -> DocumentQueue]]
    <3> SUFFICES ASSUME NEW i \in 1..n, NEW p \in DocumentQueue
                 PROVE  Pushed(p, arrived + i) \in DocumentQueue
      OBVIOUS
    <3> QED BY PushedTypes
  <2>2. q \in DocumentQueue
    BY DEF QueueHolds
  <2>3. PICK g \in [0..n -> DocumentQueue] :
          g[0] = q /\ \A i \in 1..n : g[i] = body[i][g[i - 1]]
    <3> HIDE DEF body
    <3>1. HasLoop(n, DocumentQueue, q, body)
      BY <2>1, <2>2, LoopExists
    <3> QED BY <3>1 DEF HasLoop
  <2>4. \A i \in 1..n : g[i] = Pushed(g[i - 1], arrived + i)
    <3> SUFFICES ASSUME NEW i \in 1..n PROVE body[i][g[i - 1]] = Pushed(g[i - 1], arrived + i)
      BY <2>3
    <3>1. g[i - 1] \in DocumentQueue
      <4> i - 1 \in 0..n
        OBVIOUS
      <4> QED BY <2>3
    <3> QED BY <3>1
  <2>5. \A i \in 0..n : g[i] = IF i = 0 THEN q ELSE Pushed(g[i - 1], arrived + i)
    <3> \A i \in 0..n : i # 0 => i \in 1..n
      OBVIOUS
    <3> HIDE DEF body
    <3> QED BY <2>3, <2>4
  <2>6. g = [i \in 0..n |-> IF i = 0 THEN q ELSE Pushed(g[i - 1], arrived + i)]
    <3> HIDE DEF body
    <3> QED BY <2>5
  <2> QED BY <2>6
<1>2. f = [i \in 0..n |-> IF i = 0 THEN q ELSE Pushed(f[i - 1], arrived + i)]
  BY <1>1
<1>3. PushedAll(q, n) = f[n]
  BY DEF PushedAll
<1> HIDE DEF f, body
<1>4. f[0] = q /\ \A i \in 1..n : f[i] = Pushed(f[i - 1], arrived + i)
  BY <1>2
<1>5. Good(0)
  BY <1>4
<1>6. ASSUME NEW i \in 0..(n - 1), Good(i)
      PROVE  Good(i + 1)
  <2>1. f[i + 1] = Pushed(f[i], (arrived + i) + 1)
    <3>1. i + 1 \in 1..n /\ (i + 1) - 1 = i /\ arrived + (i + 1) = (arrived + i) + 1
      OBVIOUS
    <3> QED BY <1>4, <3>1
  <2>2. arrived + i \in Nat /\ (arrived + i) + 1 <= MaxArrivals
        /\ (arrived + i) + 1 = arrived + (i + 1)
    OBVIOUS
  <2>3. /\ QueueHolds(f[i + 1], (arrived + i) + 1, gaveUp)
        /\ f[i].ended => f[i + 1] = f[i]
        /\ ~f[i].ended /\ f[i + 1].ended => f[i + 1].failure
    BY <1>6, <2>1, <2>2, PushedHolds
  <2> QED BY <1>6, <2>2, <2>3
<1>7. S = 0..n
  <2>1. 0 \in S
    BY <1>5
  <2>2. \A i \in 0..(n - 1) : i \in S => i + 1 \in S
    BY <1>6
  <2> HIDE DEF S
  <2>3. 0..n \subseteq S
    BY <2>1, <2>2, UpToInduction
  <2> QED BY <2>3 DEF S
<1>8. Good(n)
  BY <1>7
<1> QED BY <1>3, <1>8

\* next() gives the next document in order, or says how the stream ended.
LEMMA AskedNextHolds ==
  ASSUME NEW q, NEW a \in Nat, aborted \in BOOLEAN, QueueHolds(q, a, aborted),
         q.outcome = "open", ~q.waiter
  PROVE  /\ QueueHolds(AskedNext(q), a, aborted)
         /\ AskedNext(q).ended = q.ended /\ AskedNext(q).failure = q.failure
         /\ Len(AskedNext(q).taken) + Len(AskedNext(q).items) = Len(q.taken) + Len(q.items)
<1> DEFINE d == AskedNext(q)
<1>1. /\ q \in DocumentQueue
      /\ q.taken \in Seq(1..MaxArrivals) /\ q.items \in Seq(1..MaxArrivals)
  BY DEF QueueHolds, DocumentQueue
<1>2. CASE aborted
  <2>1. d = [q EXCEPT !.outcome = "done"]
    BY <1>2 DEF AskedNext
  <2>2. /\ d.items = q.items /\ d.taken = q.taken /\ d.waiter = q.waiter /\ d.ended = q.ended
        /\ d.failure = q.failure /\ d \in DocumentQueue
    BY <1>1, <2>1 DEF DocumentQueue
  <2> HIDE DEF d
  <2>3. QueueHolds(d, a, aborted)
    BY <1>2, <2>2 DEF QueueHolds
  <2> QED BY <2>2, <2>3 DEF d
<1>3. CASE ~aborted /\ q.items # <<>>
  <2> DEFINE h == Head(q.items)
             l == Len(q.items)
             m == Len(q.taken)
             t == Append(q.taken, h)
             r == Tail(q.items)
  <2>1. d = [q EXCEPT !.items = r, !.taken = t]
    BY <1>3 DEF AskedNext
  <2>2. /\ h = q.items[1] /\ h \in 1..MaxArrivals /\ l \in Nat \ {0} /\ m \in Nat
        /\ r \in Seq(1..MaxArrivals) /\ Len(r) = l - 1
        /\ \A i \in 1..(l - 1) : r[i] = q.items[i + 1]
    <3> q.items \in Seq(1..MaxArrivals) /\ q.items # <<>> /\ m \in Nat
      BY <1>1, <1>3
    <3> QED BY TailFacts
  <2>3. /\ t \in Seq(1..MaxArrivals) /\ Len(t) = m + 1 /\ t[m + 1] = h
        /\ \A i \in 1..m : t[i] = q.taken[i]
        /\ \A i \in 1..(m + 1) : i \in 1..m \/ i = m + 1
    BY <1>1, <2>2, AppendFacts
  <2>4. /\ \A i \in 1..l : q.items[i] = m + i
        /\ \A i \in 1..m : q.taken[i] = i
        /\ l <= Capacity
    BY DEF QueueHolds
  <2>5. /\ d.items = r /\ d.taken = t /\ ~d.waiter /\ d.ended = q.ended
        /\ d.failure = q.failure /\ d.outcome = "open" /\ d \in DocumentQueue
    <3> HIDE DEF r, t
    <3> QED BY <1>1, <2>1, <2>2, <2>3 DEF DocumentQueue
  <2>6. ~q.ended => m + l = a
    BY DEF QueueHolds
  <2>7. q.failure => q.ended
    BY DEF QueueHolds
  <2> HIDE DEF h, l, m, r, t, d
  <2>8. \A i \in 1..Len(t) : t[i] = i
    <3>1. 1 \in 1..l /\ q.items[1] = m + 1
      BY <2>2, <2>4
    <3>2. t[m + 1] = m + 1
      BY <2>2, <2>3, <3>1
    <3> QED BY <2>3, <2>4, <3>2
  <2>9. \A i \in 1..Len(r) : r[i] = Len(t) + i
    <3> SUFFICES ASSUME NEW i \in 1..(l - 1) PROVE r[i] = (m + 1) + i
      BY <2>2, <2>3
    <3>1. i + 1 \in 1..l
      BY <2>2
    <3>2. r[i] = m + (i + 1)
      BY <2>2, <2>4, <3>1
    <3> QED BY <2>2, <3>2
  <2>10. Len(t) + Len(r) = m + l /\ Len(r) <= Capacity
    BY <2>2, <2>3, <2>4, TransportAssumption
  <2>11. QueueHolds(d, a, aborted)
    BY <2>5, <2>6, <2>7, <2>8, <2>9, <2>10 DEF QueueHolds
  <2> QED BY <2>5, <2>10, <2>11 DEF d, m, l
<1>4. CASE ~aborted /\ q.items = <<>> /\ q.ended
  <2>1. d = [q EXCEPT !.outcome = IF q.failure THEN "failed" ELSE "done"]
    BY <1>1, <1>4 DEF AskedNext, DocumentQueue
  <2>2. /\ d.items = q.items /\ d.taken = q.taken /\ ~d.waiter /\ d.ended
        /\ d.failure = q.failure /\ d.outcome = (IF q.failure THEN "failed" ELSE "done")
        /\ d \in DocumentQueue
    BY <1>1, <1>4, <2>1 DEF DocumentQueue
  <2> HIDE DEF d
  <2>3. QueueHolds(d, a, aborted)
    BY <1>4, <2>2 DEF QueueHolds
  <2> QED BY <1>1, <1>4, <2>2, <2>3 DEF d, DocumentQueue
<1>5. CASE ~aborted /\ q.items = <<>> /\ ~q.ended
  <2>0. ~q.failure
    BY <1>5 DEF QueueHolds
  <2>1. d = [q EXCEPT !.waiter = TRUE]
    BY <1>5, <2>0 DEF AskedNext
  <2>2. /\ d.items = q.items /\ d.taken = q.taken /\ d.waiter /\ d.ended = q.ended
        /\ d.failure = q.failure /\ d.outcome = "open" /\ d \in DocumentQueue
    BY <1>1, <2>1 DEF DocumentQueue
  <2> HIDE DEF d
  <2>3. QueueHolds(d, a, aborted)
    BY <1>5, <2>2 DEF QueueHolds
  <2> QED BY <2>2, <2>3 DEF d
<1> QED BY <1>2, <1>3, <1>4, <1>5

\* A failure, or the end of an event stream that was closed.
LEMMA FailsHolds ==
  ASSUME NEW q, NEW a, aborted \in BOOLEAN, closed \in BOOLEAN, broken \in BOOLEAN,
         QueueHolds(q, a, aborted), Fails(q)
  PROVE  /\ \A b : QueueHolds(queue', b, aborted)
         /\ queue'.ended /\ broken' \in BOOLEAN
         /\ q.ended => queue' = q
         /\ ~q.ended => queue'.failure \/ closed
<1>1. (queue' = Ended(q) /\ closed) \/ queue' = Failed(q)
  BY DEF Fails
<1>2. broken' \in BOOLEAN
  BY DEF Fails
<1>3. /\ QueueHolds(queue', a, aborted) /\ queue'.ended
      /\ q.ended => queue' = q
      /\ ~q.ended => queue'.failure \/ closed
  <2>1. CASE queue' = Ended(q) /\ closed
    BY <2>1, EndedHolds
  <2>2. CASE queue' = Failed(q)
    BY <2>2, FailedHolds
  <2> QED BY <1>1, <2>1, <2>2
<1>4. \A b : QueueHolds(queue', b, aborted)
  BY <1>3, FailedHolds
<1> QED BY <1>2, <1>3, <1>4

-----------------------------------------------------------------------------
\* The steps.

LEMMA StreamInitially ==
  TransportInit => StreamInv
<1> SUFFICES ASSUME TransportInit PROVE StreamInv
  OBVIOUS
<1>1. /\ queue \in DocumentQueue /\ queue.items = <<>> /\ queue.taken = <<>>
      /\ ~queue.ended /\ ~queue.failure /\ ~queue.waiter /\ queue.outcome = "open"
  BY DEF TransportInit, DocumentQueue
<1>2. Len(queue.items) = 0 /\ Len(queue.taken) = 0
  BY <1>1
<1>3. QueueHolds(queue, 0, aborted)
  BY <1>1, <1>2, TransportAssumption DEF QueueHolds
<1>4. arrived = 0 /\ arrived \in 0..MaxArrivals
  BY TransportAssumption DEF TransportInit
<1>5. QueueHolds(queue, arrived, aborted)
  BY <1>3, <1>4
<1> QED BY <1>1, <1>4, <1>5 DEF TransportInit, StreamInv, EndHolds

LEMMA ConsumeStep ==
  StreamInv /\ Consume => StreamInv'
<1> SUFFICES ASSUME StreamInv, Consume PROVE StreamInv'
  OBVIOUS
<1>1. /\ QueueHolds(queue, arrived, aborted) /\ arrived \in Nat /\ aborted \in BOOLEAN
      /\ queue.outcome = "open" /\ ~queue.waiter /\ queue' = AskedNext(queue)
  BY TransportAssumption DEF StreamInv, Consume
<1>2. /\ QueueHolds(queue', arrived, aborted)
      /\ queue'.ended = queue.ended /\ queue'.failure = queue.failure
      /\ Len(queue'.taken) + Len(queue'.items) = Len(queue.taken) + Len(queue.items)
  BY <1>1, AskedNextHolds
<1> QED BY <1>2 DEF StreamInv, Consume, EndHolds, Framed

LEMMA AbortStep ==
  StreamInv /\ Abort => StreamInv'
<1> SUFFICES ASSUME StreamInv, Abort PROVE StreamInv'
  OBVIOUS
<1>1. queue \in DocumentQueue
  BY DEF StreamInv, QueueHolds
<1>2. /\ queue'.items = queue.items /\ queue'.taken = queue.taken
      /\ queue'.ended = queue.ended /\ queue'.failure = queue.failure
      /\ ~queue'.waiter /\ queue' \in DocumentQueue
  BY <1>1 DEF Abort, DocumentQueue
<1>3. QueueHolds(queue', arrived, TRUE)
  BY <1>2 DEF StreamInv, QueueHolds
<1> QED BY <1>2, <1>3 DEF StreamInv, Abort, EndHolds, Framed

LEMMA ConnectedStep ==
  StreamInv /\ Connected => StreamInv'
BY DEF StreamInv, Connected, EndHolds, Framed

LEMMA ConnectFailsStep ==
  StreamInv /\ ConnectFails => StreamInv'
<1> SUFFICES ASSUME StreamInv, ConnectFails PROVE StreamInv'
  OBVIOUS
<1> USE DEF StreamInv, ConnectFails, EndHolds, Framed
<1>1. CASE link' = "refused" /\ UNCHANGED <<queue, broken>>
  BY <1>1
<1>2. CASE kind # "sse" /\ link' = "dying" /\ queue' = Failed(queue) /\ broken' = TRUE
  <2>1. /\ QueueHolds(queue', arrived, aborted) /\ queue'.ended
        /\ queue.ended => queue' = queue
        /\ ~queue.ended => queue'.failure
    BY <1>2, FailedHolds
  <2> QED BY <1>2, <2>1
<1>3. CASE kind = "websocket" /\ link' = "gone" /\ queue' = Ended(queue) /\ UNCHANGED broken
  <2>1. /\ QueueHolds(queue', arrived, aborted) /\ queue'.ended
        /\ queue.ended => queue' = queue
        /\ ~queue.ended => queue'.items = queue.items /\ queue'.taken = queue.taken
    BY <1>3, EndedHolds
  <2>2. ~queue.ended => Len(queue.taken) + Len(queue.items) = arrived
    BY DEF QueueHolds
  <2> QED BY <1>3, <2>1, <2>2
<1> QED BY <1>1, <1>2, <1>3

\* While documents can come in, the stream has not ended, failed, or been closed,
\* or the queue takes no more of them.
LEMMA PushStep ==
  ASSUME StreamInv, NEW n \in Nat, arrived + n <= MaxArrivals,
         arrived' = arrived + n, queue' = PushedAll(queue, n),
         link \in {"open", "dying"}, UNCHANGED <<kind, aborted, closed, broken>>,
         tail' \in {"whole", "partial"}, ~Framed => tail' = tail,
         link' = link
  PROVE  StreamInv'
<1>1. /\ QueueHolds(queue', arrived', aborted)
      /\ queue.ended => queue' = queue
      /\ ~queue.ended /\ queue'.ended => queue'.failure
  BY PushedAllHolds DEF StreamInv
<1>2. arrived' \in 0..MaxArrivals
  BY TransportAssumption DEF StreamInv
<1> QED BY <1>1, <1>2 DEF StreamInv, EndHolds, Framed

LEMMA RefusalStep ==
  ASSUME StreamInv, NEW n \in Nat, arrived + n <= MaxArrivals,
         arrived' = arrived + n, Fails(queue),
         link \in {"open", "dying"}, UNCHANGED <<kind, aborted, closed>>,
         link' \in {"open", "dying", "gone"},
         tail' \in {"whole", "partial", "poisoned"}, ~Framed => tail' = tail
  PROVE  StreamInv'
<1>1. /\ QueueHolds(queue', arrived', aborted)
      /\ broken' \in BOOLEAN /\ queue'.ended
      /\ queue.ended => queue' = queue
      /\ ~queue.ended => queue'.failure \/ closed
  BY FailsHolds DEF StreamInv
<1>2. arrived' \in 0..MaxArrivals
  BY TransportAssumption DEF StreamInv
<1> QED BY <1>1, <1>2 DEF StreamInv, EndHolds, Framed

LEMMA DataStep ==
  ASSUME NEW n \in 0..MaxChunk, NEW end \in {"whole", "partial", "poisoned"}
  PROVE  StreamInv /\ Data(n, end) => StreamInv'
<1> SUFFICES ASSUME StreamInv, Data(n, end) PROVE StreamInv'
  OBVIOUS
<1> USE TransportAssumption
<1>1. n \in Nat /\ arrived + n <= MaxArrivals /\ arrived' = arrived + n
  BY DEF Data
<1>2. CASE tail = "poisoned" \/ end = "poisoned"
  BY <1>1, <1>2, RefusalStep DEF Data
<1>3. CASE ~(tail = "poisoned" \/ end = "poisoned")
  BY <1>1, <1>3, PushStep DEF Data
<1> QED BY <1>2, <1>3

LEMMA MessageStep ==
  ASSUME NEW good \in BOOLEAN
  PROVE  StreamInv /\ Message(good) => StreamInv'
<1> SUFFICES ASSUME StreamInv, Message(good) PROVE StreamInv'
  OBVIOUS
<1> USE TransportAssumption
<1>1. arrived + 1 <= MaxArrivals /\ arrived' = arrived + 1 /\ tail = "whole" /\ tail' = tail
  BY DEF Message, StreamInv, Framed
<1>2. CASE good
  BY <1>1, <1>2, PushStep DEF Message
<1>3. CASE ~good
  BY <1>1, <1>3, RefusalStep DEF Message
<1> QED BY <1>2, <1>3

LEMMA EventsStep ==
  ASSUME NEW n \in 0..MaxChunk, NEW tooBig \in BOOLEAN
  PROVE  StreamInv /\ Events(n, tooBig) => StreamInv'
<1> SUFFICES ASSUME StreamInv, Events(n, tooBig) PROVE StreamInv'
  OBVIOUS
<1> USE TransportAssumption
<1>1. n \in Nat /\ arrived + n <= MaxArrivals /\ arrived' = arrived + n
      /\ tail = "whole" /\ tail' = tail
  BY DEF Events, StreamInv, Framed
<1>2. CASE ~tooBig
  BY <1>1, <1>2, PushStep DEF Events
<1>3. CASE tooBig
  <2> DEFINE q == PushedAll(queue, n)
  <2>1. Fails(q) /\ link' = "gone" /\ UNCHANGED <<kind, tail, aborted, closed>>
        /\ link = "open"
    BY <1>3 DEF Events
  <2>2. /\ QueueHolds(q, arrived', aborted)
        /\ queue.ended => q = queue
        /\ ~queue.ended /\ q.ended => q.failure
    BY <1>1, PushedAllHolds DEF StreamInv
  <2> HIDE DEF q
  <2>3. /\ QueueHolds(queue', arrived', aborted)
        /\ broken' \in BOOLEAN /\ queue'.ended
        /\ q.ended => queue' = q
        /\ ~q.ended => queue'.failure \/ closed
    <3>1. aborted \in BOOLEAN /\ closed \in BOOLEAN /\ broken \in BOOLEAN
      BY DEF StreamInv
    <3> QED BY <2>1, <2>2, <3>1, FailsHolds
  <2>4. arrived' \in 0..MaxArrivals
    BY <1>1 DEF StreamInv
  <2> QED BY <1>1, <2>1, <2>2, <2>3, <2>4 DEF StreamInv, EndHolds, Framed
<1> QED BY <1>2, <1>3

LEMMA LinkFailsStep ==
  StreamInv /\ LinkFails => StreamInv'
<1> SUFFICES ASSUME StreamInv, LinkFails PROVE StreamInv'
  OBVIOUS
<1>1. /\ QueueHolds(queue', arrived, aborted)
      /\ broken' \in BOOLEAN /\ queue'.ended
      /\ queue.ended => queue' = queue
      /\ ~queue.ended => queue'.failure \/ closed
  BY FailsHolds DEF StreamInv, LinkFails
<1> QED BY <1>1 DEF StreamInv, LinkFails, EndHolds, Framed

LEMMA LinkEndsStep ==
  StreamInv /\ LinkEnds => StreamInv'
<1> SUFFICES ASSUME StreamInv, LinkEnds PROVE StreamInv'
  OBVIOUS
<1>1. CASE Framed /\ ~broken /\ tail # "whole"
  <2>1. /\ QueueHolds(queue', arrived, aborted)
        /\ broken' \in BOOLEAN /\ queue'.ended
        /\ queue.ended => queue' = queue
        /\ ~queue.ended => queue'.failure \/ closed
    BY <1>1, FailsHolds DEF StreamInv, LinkEnds
  <2> QED BY <2>1 DEF StreamInv, LinkEnds, EndHolds, Framed
<1>2. CASE ~(Framed /\ ~broken /\ tail # "whole")
  <2>1. /\ QueueHolds(queue', arrived, aborted) /\ queue'.ended
        /\ queue.ended => queue' = queue
        /\ ~queue.ended => queue'.items = queue.items /\ queue'.taken = queue.taken
    BY <1>2, EndedHolds DEF StreamInv, LinkEnds
  <2>2. ~queue.ended => Len(queue.taken) + Len(queue.items) = arrived
    BY DEF StreamInv, QueueHolds
  <2> QED BY <1>2, <2>1, <2>2 DEF StreamInv, LinkEnds, EndHolds, Framed
<1> QED BY <1>1, <1>2

LEMMA CloseTransportStep ==
  StreamInv /\ CloseTransport => StreamInv'
<1> SUFFICES ASSUME StreamInv, CloseTransport PROVE StreamInv'
  OBVIOUS
<1>1. QueueHolds(queue', arrived, aborted) /\ queue'.ended
  BY EndedHolds DEF StreamInv, CloseTransport
<1>2. link' \in {"connecting", "refused", "open", "dying", "gone"}
  BY DEF StreamInv, CloseTransport
<1> QED BY <1>1, <1>2 DEF StreamInv, CloseTransport, EndHolds, Framed

LEMMA StreamInductive ==
  StreamInv /\ [TransportNext]_transportVars => StreamInv'
<1> SUFFICES ASSUME StreamInv, [TransportNext]_transportVars PROVE StreamInv'
  OBVIOUS
<1>1. CASE UNCHANGED transportVars
  BY <1>1 DEF transportVars, StreamInv, EndHolds, Framed
<1>2. CASE TransportNext
  BY <1>2, ConsumeStep, AbortStep, ConnectedStep, ConnectFailsStep, DataStep, MessageStep,
     EventsStep, LinkFailsStep, LinkEndsStep, CloseTransportStep DEF TransportNext
<1> QED BY <1>1, <1>2

\* What the invariant says of the consumer: it got a prefix of what the peer sent;
\* it hears of an end or a failure behind all that was queued, and of an end only
\* when everything that came in was delivered.
LEMMA StreamInvSuffices ==
  StreamInv => TransportTypeOK /\ TsStreamInOrder
<1> SUFFICES ASSUME StreamInv PROVE TransportTypeOK /\ TsStreamInOrder
  OBVIOUS
<1>1. TransportTypeOK
  BY DEF StreamInv, QueueHolds, TransportTypeOK
<1>2. \A i \in DOMAIN queue.taken : queue.taken[i] = i
  <2>1. DOMAIN queue.taken = 1..Len(queue.taken)
    BY <1>1 DEF TransportTypeOK, DocumentQueue
  <2> QED BY <2>1 DEF StreamInv, QueueHolds
<1>3. queue.outcome # "open" /\ ~aborted => queue.items = <<>>
  BY DEF StreamInv, QueueHolds
<1>4. ASSUME queue.outcome = "done", ~aborted, ~closed
      PROVE  Len(queue.taken) = arrived /\ tail = "whole"
  <2>1. queue.items = <<>> /\ queue.ended /\ ~queue.failure
    BY <1>4 DEF StreamInv, QueueHolds
  <2>2. Len(queue.taken) + Len(queue.items) = arrived /\ tail = "whole"
    BY <1>4, <2>1 DEF StreamInv, EndHolds
  <2>3. Len(queue.items) = 0 /\ Len(queue.taken) \in Nat
    BY <1>1, <2>1 DEF TransportTypeOK, DocumentQueue
  <2> QED BY <2>2, <2>3
<1> QED BY <1>1, <1>2, <1>3, <1>4 DEF TsStreamInOrder

\* The states of a TypeScript client transport are as the code's types say, and its
\* queue never holds more documents than it may, whatever arrives, fails or ends.
THEOREM TsTransportTyped == TransportSpec => []TransportTypeOK
<1>1. TransportSpec => []StreamInv
  BY StreamInitially, StreamInductive, PTL DEF TransportSpec
<1> QED BY <1>1, StreamInvSuffices, PTL

\* A consumer of a transport gets the documents in the order in which the peer sent
\* them, without a gap, and hears of an end only behind the last one that came in,
\* for every number of documents, every size of a chunk and every capacity.
THEOREM TsTransportInOrder == TransportSpec => []TsStreamInOrder
<1>1. TransportSpec => []StreamInv
  BY StreamInitially, StreamInductive, PTL DEF TransportSpec
<1> QED BY <1>1, StreamInvSuffices, PTL

-------------------------------------------------------------------------------
(* The servers. *)

\* What holds of a connection by itself: what is written or quiet was handled, and
\* what is being written was accepted.
LaneHolds(c) ==
  /\ c \in Connection
  /\ c.finished <= c.accepted
  /\ c.accepted - c.finished <= MaxQueued
  /\ c.writing => c.finished < c.accepted
  /\ Increasing(c.written)
  /\ \A i \in DOMAIN c.written : c.written[i] <= c.finished
  /\ c.quiet \subseteq 1..c.finished
  /\ c.stage = "away" => c.accepted = 0

\* What a connection that nothing cut owes, by the server it belongs to: its output
\* ends, and its socket goes, behind everything it will ever accept.
Undisturbed(c, how) == ~c.cut /\ ~(how = "tcp" /\ c.input = "ended")

Owing(c, how, at) ==
  /\ c.finishing => c.input = "ended" \/ at # "open"
  /\ Undisturbed(c, how) =>
       /\ Tellings(c) \cup c.quiet = 1..c.finished
       /\ c.output = "ended" => c.accepted = c.finished /\ (c.input = "ended" \/ at # "open")
       /\ c.stage \in {"dying", "gone"} => c.accepted = c.finished
       /\ c.stage = "dying" => at \in {"destroying", "done"}
       /\ how # "stdio" /\ at \in {"destroying", "done"} => c.accepted = c.finished

\* The inductive invariant.
ServerInv ==
  /\ serving \in {"tcp", "stdio", "websocket"}
  /\ server \in {"open", "draining", "destroying", "done"}
  /\ conn \in [Peers -> Connection]
  /\ \A k \in Peers : LaneHolds(conn[k]) /\ Owing(conn[k], serving, server)

LEMMA TellingsAppend ==
  ASSUME NEW s \in Seq(1..MaxReceived), Increasing(s), NEW n \in 1..MaxReceived,
         \A i \in DOMAIN s : s[i] < n
  PROVE  /\ Append(s, n) \in Seq(1..MaxReceived)
         /\ Increasing(Append(s, n))
         /\ \A i \in DOMAIN Append(s, n) : Append(s, n)[i] <= n
         /\ {Append(s, n)[i] : i \in DOMAIN Append(s, n)} = {s[i] : i \in DOMAIN s} \cup {n}
<1> DEFINE t == Append(s, n)
           l == Len(s)
<1>1. /\ l \in Nat /\ DOMAIN s = 1..l /\ DOMAIN t = 1..(l + 1)
      /\ \A i \in 1..l : t[i] = s[i] /\ t[i] \in 1..MaxReceived
      /\ t[l + 1] = n
  BY ServerAssumption
<1> HIDE DEF t, l
<1>2. \A i \in 1..(l + 1) : i \in 1..l \/ i = l + 1
  BY <1>1
<1>3. \A i \in DOMAIN t : t[i] <= n
  BY <1>1, <1>2, ServerAssumption
<1>4. Increasing(t)
  <2> SUFFICES ASSUME NEW i \in 1..(l + 1), NEW j \in 1..(l + 1), i < j
               PROVE  t[i] < t[j]
    BY <1>1 DEF Increasing
  <2>1. i \in 1..l
    BY <1>1
  <2>2. CASE j \in 1..l
    BY <1>1, <2>1, <2>2 DEF Increasing
  <2>3. CASE j = l + 1
    BY <1>1, <2>1, <2>3
  <2> QED BY <1>2, <2>2, <2>3
<1>5. {t[i] : i \in DOMAIN t} = {s[i] : i \in DOMAIN s} \cup {n}
  <2>1. \A i \in 1..l : i \in 1..(l + 1)
    BY <1>1
  <2>2. l + 1 \in 1..(l + 1)
    BY <1>1
  <2> QED BY <1>1, <1>2, <2>1, <2>2
<1>6. t \in Seq(1..MaxReceived)
  BY DEF t
<1> QED BY <1>3, <1>4, <1>5, <1>6 DEF t

LEMMA NewHolds ==
  ASSUME NEW stage \in {"away", "open", "gone"}, NEW how, NEW at \in {"open"}
  PROVE  LaneHolds(NewConnection(stage)) /\ Owing(NewConnection(stage), how, at)
<1> USE ServerAssumption
<1> DEFINE c == NewConnection(stage)
<1>1. c \in Connection
  BY DEF NewConnection, Connection
<1>2. Tellings(c) = {} /\ Increasing(<<>>)
  BY DEF Tellings, Increasing, NewConnection
<1>3. /\ c.accepted = 0 /\ c.finished = 0 /\ ~c.writing /\ c.written = <<>> /\ c.quiet = {}
      /\ c.output = "open" /\ ~c.finishing /\ c.stage # "dying" /\ ~c.cut
  BY DEF NewConnection
<1> HIDE DEF c
<1>4. LaneHolds(c)
  BY <1>1, <1>2, <1>3 DEF LaneHolds
<1>5. Owing(c, how, at)
  BY <1>2, <1>3 DEF Owing, Undisturbed
<1> QED BY <1>4, <1>5 DEF c

LEMMA ServerInvInit == ServerInit => ServerInv
<1> SUFFICES ASSUME ServerInit PROVE ServerInv
  OBVIOUS
<1>1. \A k \in Peers : \E stage \in {"away", "open", "gone"} : conn[k] = NewConnection(stage)
  BY DEF ServerInit
<1>2. conn = [k \in Peers |-> conn[k]] /\ server \in {"open"}
  BY DEF ServerInit
<1>3. \A k \in Peers : LaneHolds(conn[k]) /\ Owing(conn[k], serving, server)
  BY <1>1, <1>2, NewHolds
<1>4. conn \in [Peers -> Connection]
  BY <1>2, <1>3 DEF LaneHolds
<1> QED BY <1>2, <1>3, <1>4 DEF ServerInv, ServerInit

\* A step of one connection.
LEMMA OneConnection ==
  ASSUME ServerInv, NEW k \in Peers, NEW d,
         LaneHolds(d), Owing(d, serving, server),
         conn' = [conn EXCEPT ![k] = d], UNCHANGED <<serving, server>>
  PROVE  ServerInv'
<1>1. \A p \in Peers : conn'[p] = IF p = k THEN d ELSE conn[p]
  BY DEF ServerInv
<1>2. conn' \in [Peers -> Connection]
  BY DEF ServerInv, LaneHolds
<1>3. \A p \in Peers : LaneHolds(conn'[p]) /\ Owing(conn'[p], serving', server')
  BY <1>1 DEF ServerInv
<1> QED BY <1>2, <1>3 DEF ServerInv

LEMMA CutHolds ==
  ASSUME NEW c, LaneHolds(c), NEW how, NEW at, Owing(c, how, at)
  PROVE  LaneHolds(Cut(c)) /\ Owing(Cut(c), how, at)
BY DEF LaneHolds, Owing, Undisturbed, Cut, Destroyed, Connection

\* A document that is finished without an answer disturbs nothing but what was
\* owed for it.
LEMMA FinishedHolds ==
  ASSUME NEW c, LaneHolds(c), c.finished < c.accepted
  PROVE  /\ LaneHolds(Finished(c))
         /\ Finished(c).finished = c.finished + 1 /\ ~Finished(c).writing
         /\ Finished(c).accepted = c.accepted /\ Finished(c).written = c.written
         /\ Finished(c).quiet = c.quiet /\ Finished(c).stage = c.stage
         /\ Finished(c).input = c.input /\ Finished(c).output = c.output
         /\ Finished(c).finishing = c.finishing /\ Finished(c).cut = c.cut
<1> DEFINE d == Finished(c)
<1>1. /\ d = [c EXCEPT !.finished = c.finished + 1, !.writing = FALSE]
      /\ c \in Connection
  BY DEF Finished, LaneHolds, Connection
<1>2. /\ d.finished = c.finished + 1 /\ ~d.writing
      /\ d.accepted = c.accepted /\ d.written = c.written
      /\ d.quiet = c.quiet /\ d.stage = c.stage
      /\ d.input = c.input /\ d.output = c.output
      /\ d.finishing = c.finishing /\ d.cut = c.cut
  BY <1>1 DEF Connection
<1>3. /\ c.finished \in Nat /\ c.accepted \in Nat /\ c.finished + 1 \in 0..MaxReceived
      /\ \A i \in DOMAIN c.written : c.written[i] \in Nat
  BY ServerAssumption DEF LaneHolds, Connection
<1>4. d \in Connection
  BY <1>1, <1>3 DEF Connection
<1> HIDE DEF d
<1>5. LaneHolds(d)
  BY <1>2, <1>3, <1>4, ServerAssumption DEF LaneHolds
<1> QED BY <1>2, <1>5 DEF d

\* One that is finished with its answer pays it.
LEMMA ToldHolds ==
  ASSUME NEW c, LaneHolds(c), NEW how, NEW at, Owing(c, how, at),
         c.finished < c.accepted, c.stage = "open"
  PROVE  LaneHolds(Told(c)) /\ Owing(Told(c), how, at)
<1> USE ServerAssumption
<1> DEFINE n == c.finished + 1
           s == c.written
           t == Append(s, n)
           d == [[c EXCEPT !.written = t] EXCEPT !.finished = n, !.writing = FALSE]
<1>1. /\ s \in Seq(1..MaxReceived) /\ Increasing(s) /\ n \in 1..MaxReceived
      /\ \A i \in DOMAIN s : s[i] < n
      /\ c \in Connection
  BY DEF LaneHolds, Connection
<1>2. /\ Append(s, n) \in Seq(1..MaxReceived)
      /\ Increasing(Append(s, n))
      /\ \A i \in DOMAIN Append(s, n) : Append(s, n)[i] <= n
      /\ {Append(s, n)[i] : i \in DOMAIN Append(s, n)} = {s[i] : i \in DOMAIN s} \cup {n}
  <2> HIDE DEF s, n
  <2> QED BY <1>1, TellingsAppend
<1>3. d = Told(c)
  BY <1>1 DEF Told, Finished, Current, Connection
<1>4. /\ d.finished = n /\ ~d.writing /\ d.written = t
      /\ d.accepted = c.accepted
      /\ d.quiet = c.quiet /\ d.stage = "open"
      /\ d.input = c.input /\ d.output = c.output
      /\ d.finishing = c.finishing /\ d.cut = c.cut
  BY <1>1 DEF Connection
<1>5. d \in Connection
  <2> HIDE DEF t
  <2>1. t \in Seq(1..MaxReceived) /\ n \in 0..MaxReceived
    BY <1>1, <1>2 DEF t
  <2> HIDE DEF n
  <2>2. [c EXCEPT !.written = t] \in Connection
    BY <2>1, <1>1 DEF Connection
  <2>3. [[c EXCEPT !.written = t] EXCEPT !.finished = n, !.writing = FALSE] \in Connection
    <3> DEFINE e == [c EXCEPT !.written = t]
    <3> HIDE DEF e
    <3> QED BY <2>1, <2>2 DEF Connection, e
  <2> QED BY <2>3
<1>6. Tellings(d) = Tellings(c) \cup {n} /\ Increasing(d.written)
      /\ \A i \in DOMAIN d.written : d.written[i] <= n
  BY <1>2, <1>4 DEF Tellings
<1> HIDE DEF d, t, s
<1>7. LaneHolds(d)
  BY <1>1, <1>4, <1>5, <1>6 DEF LaneHolds, Connection
<1>8. Owing(d, how, at)
  <2>1. Undisturbed(d, how) <=> Undisturbed(c, how)
    BY <1>4 DEF Undisturbed
  <2>2. Undisturbed(c, how) => Tellings(d) \cup d.quiet = 1..d.finished
    <3>1. 1..n = 1..c.finished \cup {n}
      BY <1>1 DEF Connection
    <3> QED BY <1>4, <1>6, <3>1 DEF Owing
  <2>3. c.accepted # c.finished
    BY DEF LaneHolds, Connection
  <2> QED BY <1>4, <2>1, <2>2, <2>3 DEF Owing
<1> QED BY <1>3, <1>7, <1>8

\* A document that needs no answer pays as well.
LEMMA QuietHolds ==
  ASSUME NEW c, LaneHolds(c), NEW how, NEW at, Owing(c, how, at), c.finished < c.accepted
  PROVE  LaneHolds(Spared(c)) /\ Owing(Spared(c), how, at)
<1> USE ServerAssumption
<1> DEFINE b == [c EXCEPT !.quiet = c.quiet \cup {c.finished + 1}]
           d == [b EXCEPT !.finished = c.finished + 1, !.writing = FALSE]
<1>1. /\ c \in Connection /\ c.finished \in Nat /\ c.accepted \in Nat
      /\ c.finished + 1 \in 0..MaxReceived /\ c.finished + 1 \in 1..MaxReceived
      /\ c.quiet \subseteq 1..c.finished
      /\ c.written \in Seq(1..MaxReceived)
  BY DEF LaneHolds, Connection
<1>2. d = Spared(c)
  BY <1>1 DEF Spared, Finished, Current, Connection
<1>3. b \in Connection
  BY <1>1 DEF Connection
<1>4. /\ d.finished = c.finished + 1 /\ ~d.writing
      /\ d.accepted = c.accepted /\ d.written = c.written
      /\ d.quiet = c.quiet \cup {c.finished + 1} /\ d.stage = c.stage
      /\ d.input = c.input /\ d.output = c.output
      /\ d.finishing = c.finishing /\ d.cut = c.cut
  BY <1>1 DEF Connection
<1>5. d \in Connection
  <2> HIDE DEF b
  <2> QED BY <1>1, <1>3 DEF Connection
<1> HIDE DEF d
<1>6. Tellings(d) = Tellings(c)
  BY <1>4 DEF Tellings
<1>7. \A i \in DOMAIN c.written : c.written[i] \in Nat /\ c.written[i] <= c.finished
  BY <1>1 DEF LaneHolds
<1>8. LaneHolds(d)
  BY <1>1, <1>4, <1>5, <1>7 DEF LaneHolds
<1>9. Owing(d, how, at)
  <2>1. Undisturbed(d, how) <=> Undisturbed(c, how)
    BY <1>4 DEF Undisturbed
  <2>2. Undisturbed(c, how) => Tellings(d) \cup d.quiet = 1..d.finished
    <3>1. 1..(c.finished + 1) = 1..c.finished \cup {c.finished + 1}
      BY <1>1
    <3> QED BY <1>4, <1>6, <3>1 DEF Owing
  <2>3. c.accepted # c.finished
    BY <1>1
  <2> QED BY <1>4, <2>1, <2>2, <2>3 DEF Owing
<1> QED BY <1>2, <1>8, <1>9

\* Documents arrive only at a connection that will answer them, or is cut.
LEMMA ArriveHolds ==
  ASSUME NEW c, LaneHolds(c), NEW how, Owing(c, how, "open"),
         NEW n \in 1..MaxReceived, c.input = "flowing", c.stage \in {"open", "dying"},
         c.accepted + n <= MaxReceived
  PROVE  LaneHolds(Accepted(c, n)) /\ Owing(Accepted(c, n), how, "open")
<1> USE ServerAssumption
<1>1. /\ c \in Connection /\ c.finished \in Nat /\ c.accepted \in Nat
      /\ \A i \in DOMAIN c.written : c.written[i] \in Nat
      /\ c.finished <= c.accepted /\ c.accepted - c.finished <= MaxQueued
  BY DEF LaneHolds, Connection
<1>2. ASSUME NEW a \in 0..MaxReceived, c.accepted <= a, a - c.finished <= MaxQueued
      PROVE  /\ LaneHolds([c EXCEPT !.accepted = a])
             /\ ~c.cut => Owing([c EXCEPT !.accepted = a], how, "open")
  <2> DEFINE d == [c EXCEPT !.accepted = a]
  <2>1. /\ d.accepted = a /\ d.finished = c.finished /\ d.writing = c.writing
        /\ d.written = c.written /\ d.quiet = c.quiet /\ d.stage = c.stage
        /\ d.input = c.input /\ d.output = c.output
        /\ d.finishing = c.finishing /\ d.cut = c.cut
        /\ d \in Connection
    BY <1>1 DEF Connection
  <2> HIDE DEF d
  <2>2. LaneHolds(d)
    BY <1>1, <1>2, <2>1 DEF LaneHolds
  <2>3. Tellings(d) = Tellings(c)
    BY <2>1 DEF Tellings
  <2>4. ~c.cut => Owing(d, how, "open")
    BY <2>1, <2>3 DEF Owing, Undisturbed
  <2> QED BY <2>2, <2>4 DEF d
<1>3. CASE c.accepted - c.finished + n <= MaxQueued
  <2>1. /\ Accepted(c, n) = [c EXCEPT !.accepted = c.accepted + n]
        /\ c.accepted + n \in 0..MaxReceived
        /\ c.accepted <= c.accepted + n /\ (c.accepted + n) - c.finished <= MaxQueued
    BY <1>1, <1>3 DEF Accepted
  <2>2. LaneHolds(Accepted(c, n)) /\ (~c.cut => Owing(Accepted(c, n), how, "open"))
    BY <1>2, <2>1
  <2>3. c.cut => Owing(Accepted(c, n), how, "open")
    BY <1>1, <2>1 DEF Owing, Undisturbed, Connection
  <2> QED BY <2>2, <2>3
<1>4. CASE ~(c.accepted - c.finished + n <= MaxQueued)
  <2> DEFINE a == c.finished + MaxQueued
             d == [c EXCEPT !.accepted = a]
  <2>1. /\ Accepted(c, n) = Cut(d)
        /\ a \in 0..MaxReceived /\ c.accepted <= a /\ a - c.finished <= MaxQueued
    BY <1>1, <1>4 DEF Accepted
  <2>2. LaneHolds(d)
    BY <1>2, <2>1
  <2>3. d.finishing = c.finishing /\ d.input = c.input
    BY <1>1 DEF Connection
  <2> HIDE DEF d
  <2>4. LaneHolds(Cut(d))
    BY <2>2 DEF LaneHolds, Cut, Destroyed, Connection
  <2>5. Owing(Cut(d), how, "open")
    <3>1. /\ Cut(d).cut /\ Cut(d).finishing = d.finishing /\ Cut(d).input = d.input
      BY <2>2 DEF Cut, Destroyed, LaneHolds, Connection
    <3> QED BY <2>3, <3>1 DEF Owing, Undisturbed
  <2> QED BY <2>1, <2>4, <2>5
<1> QED BY <1>3, <1>4

-----------------------------------------------------------------------------
\* One lemma per action.

LEMMA Accept_step ==
  ASSUME ServerInv, NEW k \in Peers, Accept(k)
  PROVE  ServerInv'
<1>1. LaneHolds(NewConnection("open")) /\ Owing(NewConnection("open"), serving, server)
  BY NewHolds DEF Accept, ServerInv
<1> QED BY <1>1, OneConnection DEF Accept

LEMMA Arrive_step ==
  ASSUME ServerInv, NEW k \in Peers, NEW n \in 1..MaxReceived, Arrive(k, n)
  PROVE  ServerInv'
<1> DEFINE d == Accepted(conn[k], n)
<1>1. conn[k] \in Connection /\ conn' = [conn EXCEPT ![k] = d]
  BY DEF Arrive, ServerInv
<1>2. /\ server = "open" /\ conn[k].input = "flowing" /\ conn[k].stage \in {"open", "dying"}
      /\ conn[k].accepted + n <= MaxReceived
  BY DEF Arrive, Reads
<1>3. LaneHolds(d) /\ Owing(d, serving, server)
  BY <1>2, ArriveHolds DEF ServerInv
<1> HIDE DEF d
<1> QED BY <1>1, <1>3, OneConnection DEF Arrive

LEMMA Break_step ==
  ASSUME ServerInv, NEW k \in Peers, Break(k)
  PROVE  ServerInv'
<1>1. LaneHolds(Cut(conn[k])) /\ Owing(Cut(conn[k]), serving, server)
  BY CutHolds DEF ServerInv
<1>2. conn' = [conn EXCEPT ![k] = Cut(conn[k])]
  BY DEF Break, ServerInv
<1> QED BY <1>1, <1>2, OneConnection DEF Break

LEMMA PeerEnds_step ==
  ASSUME ServerInv, NEW k \in Peers, PeerEnds(k)
  PROVE  ServerInv'
<1> DEFINE c == conn[k]
           d == [c EXCEPT !.input = "ended", !.finishing = TRUE,
                          !.output = IF serving = "tcp" THEN "ended" ELSE c.output]
<1>1. c \in Connection /\ LaneHolds(c) /\ Owing(c, serving, server)
      /\ serving \in {"tcp", "stdio"} /\ server = "open" /\ c.stage \in {"open", "dying"}
  BY DEF ServerInv, PeerEnds, Streaming, Reads
<1>2. conn' = [conn EXCEPT ![k] = d]
  BY DEF PeerEnds, ServerInv
<1>3. /\ d.accepted = c.accepted /\ d.finished = c.finished /\ d.writing = c.writing
      /\ d.written = c.written /\ d.quiet = c.quiet /\ d.stage = c.stage
      /\ d.input = "ended" /\ d.output = (IF serving = "tcp" THEN "ended" ELSE c.output)
      /\ d.finishing /\ d.cut = c.cut
      /\ d \in Connection
  BY <1>1 DEF Connection
<1> HIDE DEF c, d
<1>4. LaneHolds(d)
  BY <1>1, <1>3 DEF LaneHolds
<1>5. Owing(d, serving, server)
  <2>1. Tellings(d) = Tellings(c)
    BY <1>3 DEF Tellings
  <2> QED BY <1>1, <1>3, <2>1 DEF Owing, Undisturbed
<1> QED BY <1>2, <1>4, <1>5, OneConnection DEF PeerEnds

LEMMA HandleQuietly_step ==
  ASSUME ServerInv, NEW k \in Peers, HandleQuietly(k)
  PROVE  ServerInv'
<1> DEFINE c == conn[k]
           d == Spared(c)
<1>1. c.finished < c.accepted
  BY DEF ServerInv, HandleQuietly, Queued, LaneHolds, Connection
<1>2. conn' = [conn EXCEPT ![k] = d]
  BY DEF HandleQuietly
<1>3. LaneHolds(d) /\ Owing(d, serving, server)
  <2> LaneHolds(c) /\ Owing(c, serving, server)
    BY DEF ServerInv
  <2> HIDE DEF c
  <2> QED BY <1>1, QuietHolds
<1> HIDE DEF d
<1> QED BY <1>2, <1>3, OneConnection DEF HandleQuietly

\* A document that is lost by a connection that is not cut was never there.
LEMMA LostHolds ==
  ASSUME NEW c, LaneHolds(c), NEW how, NEW at, Owing(c, how, at), c.finished < c.accepted,
         ~Undisturbed(c, how)
  PROVE  /\ LaneHolds(Finished(c)) /\ Owing(Finished(c), how, at)
         /\ LaneHolds(Destroyed(Finished(c))) /\ Owing(Destroyed(Finished(c)), how, at)
<1> DEFINE d == Finished(c)
<1>1. LaneHolds(d)
  BY FinishedHolds
<1>2. d.finishing = c.finishing /\ d.input = c.input /\ d.cut = c.cut
  BY FinishedHolds
<1> HIDE DEF d
<1>3. Owing(d, how, at) /\ ~Undisturbed(d, how)
  BY <1>2 DEF Owing, Undisturbed
<1>4. LaneHolds(Destroyed(d))
  BY <1>1 DEF LaneHolds, Destroyed, Connection
<1>5. /\ Destroyed(d).finishing = d.finishing /\ Destroyed(d).input = d.input
      /\ Destroyed(d).cut = d.cut
  BY <1>1 DEF Destroyed, LaneHolds, Connection
<1>6. Owing(Destroyed(d), how, at)
  BY <1>3, <1>5 DEF Owing, Undisturbed
<1> QED BY <1>1, <1>3, <1>4, <1>6 DEF d

\* A connection that owes something and is not cut can be written.
LEMMA OwingIsWritable ==
  ASSUME NEW c, LaneHolds(c), NEW how, NEW at, Owing(c, how, at), c.finished < c.accepted,
         Undisturbed(c, how)
  PROVE  Writable(c)
BY DEF LaneHolds, Owing, Writable, Connection

LEMMA Handle_step ==
  ASSUME ServerInv, NEW k \in Peers, Handle(k)
  PROVE  ServerInv'
<1> DEFINE c == conn[k]
<1>1. /\ c.finished < c.accepted /\ LaneHolds(c) /\ Owing(c, serving, server)
      /\ c \in Connection
  BY DEF ServerInv, Handle, Queued, LaneHolds, Connection
<1>2. UNCHANGED <<serving, server>>
  BY DEF Handle
<1>3. CASE Writable(c) /\ Streaming
  <2> DEFINE d == [c EXCEPT !.writing = TRUE]
  <2>1. conn' = [conn EXCEPT ![k] = d]
    BY <1>3 DEF Handle
  <2>2. /\ d.accepted = c.accepted /\ d.finished = c.finished
        /\ d.written = c.written /\ d.quiet = c.quiet /\ d.stage = c.stage
        /\ d.input = c.input /\ d.output = c.output
        /\ d.finishing = c.finishing /\ d.cut = c.cut
        /\ d \in Connection
    BY <1>1 DEF Connection
  <2> HIDE DEF c, d
  <2>3. LaneHolds(d)
    BY <1>1, <2>2 DEF LaneHolds
  <2>4. Owing(d, serving, server)
    <3>1. Tellings(d) = Tellings(c)
      BY <2>2 DEF Tellings
    <3> QED BY <1>1, <2>2, <3>1 DEF Owing, Undisturbed
  <2> QED BY <1>2, <2>1, <2>3, <2>4, OneConnection
<1>4. CASE Writable(c) /\ ~Streaming
  <2> DEFINE d == Told(c)
  <2>1. conn' = [conn EXCEPT ![k] = d]
    BY <1>4 DEF Handle
  <2>2. c.stage = "open"
    BY <1>4 DEF Writable
  <2> HIDE DEF c
  <2>3. LaneHolds(d) /\ Owing(d, serving, server)
    BY <1>1, <2>2, ToldHolds
  <2> HIDE DEF d
  <2> QED BY <1>2, <2>1, <2>3, OneConnection
<1>5. CASE ~Writable(c)
  <2>1. PICK d \in {Finished(c), Destroyed(Finished(c))} : conn' = [conn EXCEPT ![k] = d]
    BY <1>5 DEF Handle
  <2> HIDE DEF c
  <2>2. ~Undisturbed(c, serving)
    BY <1>1, <1>5, OwingIsWritable
  <2>3. LaneHolds(d) /\ Owing(d, serving, server)
    BY <1>1, <2>2, LostHolds
  <2> QED BY <1>2, <2>1, <2>3, OneConnection
<1> QED BY <1>3, <1>4, <1>5

\* Finishing and cutting at once.
LEMMA FailedServeHolds ==
  ASSUME NEW c, LaneHolds(c), NEW how, NEW at, Owing(c, how, at), c.finished < c.accepted
  PROVE  LaneHolds(Cut(Finished(c))) /\ Owing(Cut(Finished(c)), how, at)
<1> DEFINE d == Finished(c)
<1>1. LaneHolds(d) /\ d.finishing = c.finishing /\ d.input = c.input
  BY FinishedHolds
<1> HIDE DEF d
<1>2. LaneHolds(Cut(d))
  BY <1>1 DEF LaneHolds, Cut, Destroyed, Connection
<1>3. Cut(d).cut /\ Cut(d).finishing = d.finishing /\ Cut(d).input = d.input
  BY <1>1 DEF Cut, Destroyed, LaneHolds, Connection
<1>4. Owing(Cut(d), how, at)
  BY <1>1, <1>3 DEF Owing, Undisturbed
<1> QED BY <1>2, <1>4 DEF d

LEMMA HandlerFails_step ==
  ASSUME ServerInv, NEW k \in Peers, HandlerFails(k)
  PROVE  ServerInv'
<1> DEFINE c == conn[k]
<1>1. /\ c.finished < c.accepted /\ LaneHolds(c) /\ Owing(c, serving, server)
      /\ conn' = [conn EXCEPT ![k] = Cut(Finished(c))]
  BY DEF ServerInv, HandlerFails, Queued, LaneHolds, Connection
<1> HIDE DEF c
<1> QED BY <1>1, FailedServeHolds, OneConnection DEF HandlerFails

LEMMA Written_step ==
  ASSUME ServerInv, NEW k \in Peers, NEW ok \in BOOLEAN, Written(k, ok)
  PROVE  ServerInv'
<1> DEFINE c == conn[k]
<1>1. /\ c.finished < c.accepted /\ LaneHolds(c) /\ Owing(c, serving, server)
  BY DEF ServerInv, Written, LaneHolds
<1>2. CASE ok
  <2> DEFINE d == Told(c)
  <2>1. conn' = [conn EXCEPT ![k] = d]
    BY <1>2 DEF Written
  <2>2. c.stage = "open"
    BY <1>2 DEF Written
  <2> HIDE DEF c
  <2>3. LaneHolds(d) /\ Owing(d, serving, server)
    BY <1>1, <2>2, ToldHolds
  <2> HIDE DEF d
  <2> QED BY <2>1, <2>3, OneConnection DEF Written
<1>3. CASE ~ok
  <2>1. conn' = [conn EXCEPT ![k] = Cut(Finished(c))]
    BY <1>3 DEF Written, ServerInv
  <2> HIDE DEF c
  <2> QED BY <1>1, <2>1, FailedServeHolds, OneConnection DEF Written
<1> QED BY <1>2, <1>3

LEMMA FinishOutput_step ==
  ASSUME ServerInv, NEW k \in Peers, FinishOutput(k)
  PROVE  ServerInv'
<1> DEFINE c == conn[k]
           d == [c EXCEPT !.output = "ended"]
<1>1. /\ c \in Connection /\ LaneHolds(c) /\ Owing(c, serving, server)
      /\ c.finishing /\ c.accepted = c.finished /\ c.stage = "open"
      /\ conn' = [conn EXCEPT ![k] = d]
  BY DEF ServerInv, FinishOutput, Idle, Queued, LaneHolds, Connection
<1>2. /\ d.accepted = c.accepted /\ d.finished = c.finished /\ d.writing = c.writing
      /\ d.written = c.written /\ d.quiet = c.quiet /\ d.stage = c.stage
      /\ d.input = c.input /\ d.output = "ended"
      /\ d.finishing = c.finishing /\ d.cut = c.cut
      /\ d \in Connection
  BY <1>1 DEF Connection
<1> HIDE DEF c, d
<1>3. LaneHolds(d)
  BY <1>1, <1>2 DEF LaneHolds
<1>4. Owing(d, serving, server)
  <2>1. Tellings(d) = Tellings(c)
    BY <1>2 DEF Tellings
  <2> QED BY <1>1, <1>2, <2>1 DEF Owing, Undisturbed
<1> QED BY <1>1, <1>3, <1>4, OneConnection DEF FinishOutput

LEMMA Gone_step ==
  ASSUME ServerInv, NEW k \in Peers, Gone(k)
  PROVE  ServerInv'
<1> DEFINE c == conn[k]
           d == [c EXCEPT !.stage = "gone"]
<1>1. /\ c \in Connection /\ LaneHolds(c) /\ Owing(c, serving, server)
      /\ c.stage = "dying" \/ c.output = "ended"
      /\ conn' = [conn EXCEPT ![k] = d]
  BY DEF ServerInv, Gone
<1>2. /\ d.accepted = c.accepted /\ d.finished = c.finished /\ d.writing = c.writing
      /\ d.written = c.written /\ d.quiet = c.quiet /\ d.stage = "gone"
      /\ d.input = c.input /\ d.output = c.output
      /\ d.finishing = c.finishing /\ d.cut = c.cut
      /\ d \in Connection
  BY <1>1 DEF Connection
<1> HIDE DEF c, d
<1>3. LaneHolds(d)
  BY <1>1, <1>2 DEF LaneHolds
<1>4. Owing(d, serving, server)
  <2>1. Tellings(d) = Tellings(c)
    BY <1>2 DEF Tellings
  <2> QED BY <1>1, <1>2, <2>1 DEF Owing, Undisturbed
<1> QED BY <1>1, <1>3, <1>4, OneConnection DEF Gone

\* close() begins, ends because everything is drained, or runs out of time.
LEMMA CloseServer_step ==
  ASSUME ServerInv, CloseServer
  PROVE  ServerInv'
<1>1. ASSUME NEW k \in Peers
      PROVE  /\ conn'[k] \in Connection
             /\ LaneHolds(conn'[k]) /\ Owing(conn'[k], serving', server')
  <2> DEFINE c == conn[k]
             d == [c EXCEPT !.finishing = TRUE]
  <2>1. /\ c \in Connection /\ LaneHolds(c) /\ Owing(c, serving, "open")
        /\ serving' = serving /\ server' = "draining" /\ conn'[k] \in {c, d}
    BY DEF ServerInv, CloseServer
  <2>2. /\ d.accepted = c.accepted /\ d.finished = c.finished /\ d.writing = c.writing
        /\ d.written = c.written /\ d.quiet = c.quiet /\ d.stage = c.stage
        /\ d.input = c.input /\ d.output = c.output
        /\ d.cut = c.cut /\ d \in Connection
    BY <2>1 DEF Connection
  <2> HIDE DEF c, d
  <2>3. LaneHolds(d)
    BY <2>1, <2>2 DEF LaneHolds
  <2>4. Tellings(d) = Tellings(c)
    BY <2>2 DEF Tellings
  <2>5. Owing(d, serving, "draining") /\ Owing(c, serving, "draining")
    BY <2>1, <2>2, <2>4 DEF Owing, Undisturbed
  <2> QED BY <2>1, <2>2, <2>3, <2>5
<1>2. conn' = [k \in Peers |-> conn'[k]]
  BY DEF CloseServer
<1>3. conn' \in [Peers -> Connection]
  BY <1>1, <1>2
<1> QED BY <1>1, <1>3 DEF ServerInv, CloseServer

\* A connection when close() is over: of a server other than stdio it is either
\* cut or idle.
LEMMA StoppedHolds ==
  ASSUME NEW c, LaneHolds(c), NEW how, Owing(c, how, "draining"),
         NEW at \in {"destroying", "done"},
         how = "stdio" \/ c.cut \/ (c.stage = "open" => c.accepted = c.finished)
  PROVE  LaneHolds(c) /\ Owing(c, how, at) /\ LaneHolds(Destroyed(c))
         /\ ((c.stage = "open" => c.accepted = c.finished) => Owing(Destroyed(c), how, at))
<1>1. c \in Connection
  BY DEF LaneHolds
<1>2. c.stage = "away" => c.accepted = c.finished
  BY ServerAssumption DEF LaneHolds, Connection
<1>3. Owing(c, how, at)
  BY <1>1, <1>2 DEF Owing, Undisturbed, Connection
<1> DEFINE d == Destroyed(c)
<1>4. /\ d.accepted = c.accepted /\ d.finished = c.finished /\ d.writing = c.writing
      /\ d.written = c.written /\ d.quiet = c.quiet
      /\ d.stage = (IF c.stage = "open" THEN "dying" ELSE c.stage)
      /\ d.input = c.input /\ d.output = c.output /\ d.finishing = c.finishing
      /\ d.cut = c.cut /\ d \in Connection
  BY <1>1 DEF Destroyed, Connection
<1> HIDE DEF d
<1>5. LaneHolds(d)
  BY <1>4 DEF LaneHolds
<1>6. Tellings(d) = Tellings(c)
  BY <1>4 DEF Tellings
<1>7. (c.stage = "open" => c.accepted = c.finished) => Owing(d, how, at)
  BY <1>1, <1>2, <1>4, <1>6 DEF Owing, Undisturbed, Connection
<1> QED BY <1>3, <1>5, <1>7 DEF d

LEMMA Drained_step ==
  ASSUME ServerInv, Drained
  PROVE  ServerInv'
<1>1. /\ server = "draining" /\ server' \in {"destroying", "done"} /\ serving' = serving
      /\ conn' = [k \in Peers |-> conn'[k]]
  BY DEF ServerInv, Drained, StopAll
<1>2. ASSUME NEW k \in Peers
      PROVE  LaneHolds(conn'[k]) /\ Owing(conn'[k], serving', server')
  <2> DEFINE c == conn[k]
  <2>1. /\ LaneHolds(c) /\ Owing(c, serving, "draining")
        /\ conn'[k] \in {c, Destroyed(c)}
        /\ c.stage = "open" => c.accepted = c.finished
    BY DEF ServerInv, Drained, StopAll, IsDrained, Idle, Queued, LaneHolds, Connection
  <2> HIDE DEF c
  <2> QED BY <1>1, <2>1, StoppedHolds
<1>3. conn' \in [Peers -> Connection]
  BY <1>1, <1>2 DEF LaneHolds
<1> QED BY <1>1, <1>2, <1>3 DEF ServerInv

LEMMA GraceEnds_step ==
  ASSUME ServerInv, GraceEnds
  PROVE  ServerInv'
<1>1. /\ server = "draining" /\ server' \in {"destroying", "done"} /\ serving' = serving
      /\ conn' = [k \in Peers |-> conn'[k]]
  BY DEF ServerInv, GraceEnds, StopAll
<1>2. ASSUME NEW k \in Peers
      PROVE  LaneHolds(conn'[k]) /\ Owing(conn'[k], serving', server')
  <2> DEFINE c == conn[k]
  <2>1. LaneHolds(c) /\ Owing(c, serving, "draining")
    BY <1>1 DEF ServerInv
  <2>2. CASE serving = "stdio" \/ c.stage # "open"
    <3>1. conn'[k] = c
      BY <2>2 DEF GraceEnds, StopAll
    <3> HIDE DEF c
    <3> QED BY <1>1, <2>1, <2>2, <3>1, StoppedHolds
  <2>3. CASE serving # "stdio" /\ c.stage = "open"
    <3>1. conn'[k] = Cut(c)
      BY <2>3 DEF GraceEnds, StopAll
    <3> HIDE DEF c
    <3>2. LaneHolds(Cut(c)) /\ Owing(Cut(c), serving, "draining")
      BY <2>1, CutHolds
    <3>3. Cut(c).cut
      BY <2>1 DEF Cut, Destroyed, LaneHolds, Connection
    <3> QED BY <1>1, <3>1, <3>2, <3>3, StoppedHolds
  <2> QED BY <2>2, <2>3
<1>3. conn' \in [Peers -> Connection]
  BY <1>1, <1>2 DEF LaneHolds
<1> QED BY <1>1, <1>2, <1>3 DEF ServerInv

LEMMA Stopped_step ==
  ASSUME ServerInv, Stopped
  PROVE  ServerInv'
<1>1. server = "destroying" /\ server' = "done" /\ conn' = conn /\ serving' = serving
  BY DEF Stopped
<1>2. ASSUME NEW k \in Peers
      PROVE  Owing(conn[k], serving, "done")
  BY <1>1 DEF ServerInv, Owing
<1> QED BY <1>1, <1>2 DEF ServerInv

LEMMA ServerInvNext == ServerInv /\ [ServerNext]_serverVars => ServerInv'
<1> SUFFICES ASSUME ServerInv, [ServerNext]_serverVars PROVE ServerInv'
  OBVIOUS
<1>1. ASSUME NEW k \in Peers, Accept(k) \/ Break(k) \/ PeerEnds(k)
      PROVE  ServerInv'
  BY <1>1, Accept_step, Break_step, PeerEnds_step
<1>2. ASSUME NEW k \in Peers, NEW n \in 1..MaxReceived, Arrive(k, n)
      PROVE  ServerInv'
  BY <1>2, Arrive_step
<1>3. ASSUME NEW k \in Peers, HandleQuietly(k) \/ Handle(k) \/ HandlerFails(k)
      PROVE  ServerInv'
  BY <1>3, HandleQuietly_step, Handle_step, HandlerFails_step
<1>4. ASSUME NEW k \in Peers, NEW ok \in BOOLEAN, Written(k, ok)
      PROVE  ServerInv'
  BY <1>4, Written_step
<1>5. ASSUME NEW k \in Peers, FinishOutput(k) \/ Gone(k)
      PROVE  ServerInv'
  BY <1>5, FinishOutput_step, Gone_step
<1>6. CASE CloseServer \/ Drained \/ GraceEnds \/ Stopped
  BY <1>6, CloseServer_step, Drained_step, GraceEnds_step, Stopped_step
<1>7. CASE UNCHANGED serverVars
  BY <1>7 DEF ServerInv, serverVars
<1> QED BY <1>1, <1>2, <1>3, <1>4, <1>5, <1>6, <1>7 DEF ServerNext

\* A lane never holds more than it may, whatever a peer sends (serve.ts:105-117),
\* and every variable keeps its type.
THEOREM TsServerTyped == ServerSpec => []ServerTypeOK
<1>1. ServerInv => ServerTypeOK
  BY ServerAssumption DEF ServerInv, ServerTypeOK, LaneHolds, Connection, Queued
<1> QED BY <1>1, ServerInvInit, ServerInvNext, PTL DEF ServerSpec

\* However chunks, handlers, writes, ends, cuts and close() interleave, a
\* connection's answers are written in the order of its documents, each once, and
\* all of them before its output or its server ends, unless something cut it.
THEOREM TsServerInOrder == ServerSpec => []TsAnswersInOrder
<1>1. ServerInv => TsAnswersInOrder
  <2> SUFFICES ASSUME ServerInv, NEW k \in Peers
               PROVE  /\ Increasing(conn[k].written)
                      /\ ~conn[k].cut /\ ~HalfClosed(k) =>
                           /\ Tellings(conn[k]) \cup conn[k].quiet = 1..conn[k].finished
                           /\ conn[k].output = "ended" => Idle(k)
                           /\ serving # "stdio" /\ server \in {"destroying", "done"} => Idle(k)
    BY DEF TsAnswersInOrder
  <2>1. LaneHolds(conn[k]) /\ Owing(conn[k], serving, server)
    BY DEF ServerInv
  <2>2. Undisturbed(conn[k], serving) <=> ~conn[k].cut /\ ~HalfClosed(k)
    BY DEF Undisturbed, HalfClosed
  <2>3. conn[k].accepted = conn[k].finished => Idle(k)
    BY <2>1, ServerAssumption DEF Idle, Queued, LaneHolds, Connection
  <2> QED BY <2>1, <2>2, <2>3 DEF LaneHolds, Owing
<1> QED BY <1>1, ServerInvInit, ServerInvNext, PTL DEF ServerSpec
===============================================================================
