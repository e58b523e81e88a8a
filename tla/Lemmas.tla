--------------------------------- MODULE Lemmas ---------------------------------
(***************************************************************************)
(* What the proofs about several components cite.                          *)
(*                                                                         *)
(* Induction and recursion are stated about sets and functions: an         *)
(* induction shows that a set holds every number, and a recursion that a   *)
(* function with certain values exists, which is what a loop of the code   *)
(* computes.                                                               *)
(***************************************************************************)
EXTENDS Integers, SequencesExt, SequenceTheorems, WellFoundedInduction, TLAPS

-----------------------------------------------------------------------------
(* Loops. *)

\* Induction over the numbers up to n.
LEMMA UpToInduction ==
  ASSUME NEW n \in Nat, NEW S, 0 \in S, \A i \in 0..(n - 1) : i \in S => i + 1 \in S
  PROVE  0..n \subseteq S
<1> SUFFICES ASSUME (0..n) \ S # {} PROVE FALSE
  OBVIOUS
<1> DEFINE T == (0..n) \ S
<1>1. PICK x \in T : \A y \in T : ~ (<<y, x>> \in OpToRel(<, Nat))
  <2>1. T \subseteq Nat /\ T # {}
    OBVIOUS
  <2> HIDE DEF T
  <2> QED BY <2>1, NatLessThanWellFounded, WFMin
<1>2. \A y \in T : ~ (y < x)
  <2> SUFFICES ASSUME NEW y \in T, y < x PROVE FALSE
    OBVIOUS
  <2>1. <<y, x>> \in Nat \X Nat /\ <<y, x>>[1] < <<y, x>>[2]
    OBVIOUS
  <2>2. <<y, x>> \in OpToRel(<, Nat)
    BY <2>1 DEF OpToRel
  <2> QED BY <1>1, <2>2
<1>3. x \in 1..n /\ x - 1 \in 0..(n - 1)
  OBVIOUS
<1>4. x - 1 \in S
  BY <1>2, <1>3
<1>5. (x - 1) + 1 \in S
  BY <1>3, <1>4
<1> QED BY <1>3, <1>5

\* Induction over all numbers.
LEMMA SetInduction ==
  ASSUME NEW S, 0 \in S, \A i \in Nat : i \in S => i + 1 \in S
  PROVE  Nat \subseteq S
<1> SUFFICES ASSUME NEW n \in Nat PROVE n \in S
  OBVIOUS
<1>1. 0..n \subseteq S
  BY UpToInduction
<1> QED BY <1>1

\* The values of a loop that runs n times, from before the first round on.
HasLoop(n, T, base, body) ==
  \E g \in [0..n -> T] : g[0] = base /\ \A i \in 1..n : g[i] = body[i][g[i - 1]]

\* A loop that runs n times has a result: the value after each round is what the
\* body makes of the value before it.
LEMMA LoopExists ==
  ASSUME NEW n \in Nat, NEW T, NEW base \in T, NEW body \in [1..n -> [T -> T]]
  PROVE  HasLoop(n, T, base, body)
<1> DEFINE Runs(m, g) == \A i \in 0..m : g[i] = IF i = 0 THEN base ELSE body[i][g[i - 1]]
           S == {m \in 0..n : \E g \in [0..m -> T] : Runs(m, g)}
<1>1. 0 \in S
  <2> DEFINE g == [i \in 0..0 |-> base]
  <2>1. g \in [0..0 -> T] /\ Runs(0, g)
    OBVIOUS
  <2> HIDE DEF g
  <2>2. 0 \in 0..n
    OBVIOUS
  <2> QED BY <2>1, <2>2
<1>2. ASSUME NEW m \in 0..(n - 1), m \in S
      PROVE  m + 1 \in S
  <2>1. PICK g \in [0..m -> T] : Runs(m, g)
    BY <1>2
  <2> DEFINE h == [i \in 0..(m + 1) |-> IF i = m + 1 THEN body[m + 1][g[m]] ELSE g[i]]
  <2>2. h \in [0..(m + 1) -> T]
    <3>1. body[m + 1][g[m]] \in T
      <4> m + 1 \in 1..n /\ g[m] \in T
        OBVIOUS
      <4> QED OBVIOUS
    <3> QED BY <3>1
  <2>3. \A i \in 0..m : h[i] = g[i]
    OBVIOUS
  <2>0. h[m + 1] = body[m + 1][g[m]]
    OBVIOUS
  <2> HIDE DEF h
  <2>4. Runs(m + 1, h)
    <3> SUFFICES ASSUME NEW i \in 0..(m + 1)
                 PROVE  h[i] = IF i = 0 THEN base ELSE body[i][h[i - 1]]
      OBVIOUS
    <3>1. CASE i = m + 1
      <4>1. h[i] = body[m + 1][g[m]] /\ h[i - 1] = g[m] /\ i # 0
        BY <3>1, <2>0, <2>3
      <4> QED BY <3>1, <4>1
    <3>2. CASE i # m + 1
      <4>1. i \in 0..m /\ (i # 0 => i - 1 \in 0..m)
        BY <3>2
      <4>2. h[i] = g[i] /\ (i # 0 => h[i - 1] = g[i - 1])
        BY <4>1, <2>3
      <4> QED BY <2>1, <4>1, <4>2
    <3> QED BY <3>1, <3>2
  <2>5. m + 1 \in 0..n
    OBVIOUS
  <2> QED BY <2>2, <2>4, <2>5
<1> HIDE DEF S
<1>3. 0..n \subseteq S
  BY <1>1, <1>2, UpToInduction
<1>4. PICK g \in [0..n -> T] : Runs(n, g)
  BY <1>3 DEF S
<1>5. 0 \in 0..n /\ \A i \in 1..n : i \in 0..n /\ i # 0
  OBVIOUS
<1> QED BY <1>4, <1>5 DEF HasLoop

\* What holds before the first round and is kept by every round holds behind the last.
LEMMA LoopKeeps ==
  ASSUME NEW n \in Nat, NEW T, NEW f, f[0] \in T, \A i \in 1..n : f[i - 1] \in T => f[i] \in T
  PROVE  f[n] \in T
<1> DEFINE S == {i \in 0..n : f[i] \in T}
<1>1. 0 \in S
  OBVIOUS
<1>2. ASSUME NEW i \in 0..(n - 1), i \in S
      PROVE  i + 1 \in S
  <2>1. i + 1 \in 1..n /\ i + 1 \in 0..n /\ (i + 1) - 1 = i
    OBVIOUS
  <2>2. f[i + 1] \in T
    BY <1>2, <2>1
  <2> QED BY <2>1, <2>2
<1> HIDE DEF S
<1>3. 0..n \subseteq S
  BY <1>1, <1>2, UpToInduction
<1> QED BY <1>3 DEF S

\* Two loops that start alike and whose rounds do the same end alike.
LEMMA LoopsAgree ==
  ASSUME NEW n \in Nat, NEW f, NEW g, f[0] = g[0],
         \A i \in 1..n : f[i - 1] = g[i - 1] => f[i] = g[i]
  PROVE  f[n] = g[n]
<1> DEFINE S == {i \in 0..n : f[i] = g[i]}
<1>1. 0 \in S
  OBVIOUS
<1>2. ASSUME NEW i \in 0..(n - 1), i \in S
      PROVE  i + 1 \in S
  <2>1. i + 1 \in 1..n /\ i + 1 \in 0..n /\ (i + 1) - 1 = i
    OBVIOUS
  <2> QED BY <1>2, <2>1
<1> HIDE DEF S
<1>3. 0..n \subseteq S
  BY <1>1, <1>2, UpToInduction
<1> QED BY <1>3 DEF S

-----------------------------------------------------------------------------
(* Positions in a sequence. *)

\* The least position there is.
LEMMA LeastPosition ==
  ASSUME NEW I \in SUBSET Nat, I # {}
  PROVE  Min(I) \in I /\ \A j \in I : Min(I) <= j
  <1> DEFINE less == {ss \in Nat \X Nat : ss[1] < ss[2]}
  <1>1. less = OpToRel(<, Nat)
    BY DEF OpToRel
  <1>2. IsWellFoundedOn(less, Nat)
    BY <1>1, NatLessThanWellFounded
  <1> HIDE DEF less
  <1>3. PICK x \in I : \A y \in I : ~(<<y, x>> \in less)
    BY <1>2, WFMin
  <1>4. ASSUME NEW y \in I PROVE x <= y
    <2>1. <<y, x>> \notin less
      BY <1>3
    <2>2. y \in Nat /\ x \in Nat
      OBVIOUS
    <2> QED BY <2>1, <2>2 DEF less
  <1> QED BY <1>4 DEF Min

\* One place less, and what is behind it moves up.
LEMMA RemoveAtProperties ==
  ASSUME NEW S, NEW q \in Seq(S), NEW k \in 1..Len(q)
  PROVE  /\ RemoveAt(q, k) \in Seq(S)
         /\ Len(RemoveAt(q, k)) = Len(q) - 1
         /\ \A i \in 1..Len(q) - 1 : RemoveAt(q, k)[i] = IF i < k THEN q[i] ELSE q[i + 1]
  <1> DEFINE a == SubSeq(q, 1, k - 1)
             b == SubSeq(q, k + 1, Len(q))
  <1>1. Len(q) \in Nat /\ k \in Nat /\ k >= 1 /\ k <= Len(q) /\ \A i \in 1..Len(q) : q[i] \in S
    BY LenProperties, ElementOfSeq
  <1>2. /\ a \in Seq(S) /\ Len(a) = k - 1
        /\ \A i \in 1..k - 1 : a[i] = q[i]
    <2>1. 1 \in Int /\ k - 1 \in Int /\ \A i \in 1..k - 1 : q[i] \in S
      BY <1>1
    <2>2. /\ a \in Seq(S) /\ Len(a) = IF 1 <= k - 1 THEN (k - 1) - 1 + 1 ELSE 0
          /\ \A i \in 1..(k - 1) - 1 + 1 : a[i] = q[1 + i - 1]
      BY <2>1, SubSeqProperties
    <2> HIDE DEF a
    <2> QED BY <1>1, <2>2
  <1>3. /\ b \in Seq(S) /\ Len(b) = Len(q) - k
        /\ \A i \in 1..Len(q) - k : b[i] = q[k + i]
    <2>1. k + 1 \in Int /\ Len(q) \in Int /\ \A i \in k + 1..Len(q) : q[i] \in S
      BY <1>1
    <2>2. /\ b \in Seq(S) /\ Len(b) = IF k + 1 <= Len(q) THEN Len(q) - (k + 1) + 1 ELSE 0
          /\ \A i \in 1..Len(q) - (k + 1) + 1 : b[i] = q[(k + 1) + i - 1]
      BY <2>1, SubSeqProperties
    <2> HIDE DEF b
    <2> QED BY <1>1, <2>2
  <1>4. RemoveAt(q, k) = a \o b
    BY DEF RemoveAt
  <1> HIDE DEF a, b
  <1>5. /\ a \o b \in Seq(S) /\ Len(a \o b) = Len(a) + Len(b)
        /\ \A i \in 1..Len(a) + Len(b) : (a \o b)[i] = IF i <= Len(a) THEN a[i] ELSE b[i - Len(a)]
    BY <1>2, <1>3, ConcatProperties
  <1>6. Len(a) + Len(b) = Len(q) - 1
    BY <1>1, <1>2, <1>3
  <1>7. ASSUME NEW i \in 1..Len(q) - 1
        PROVE  (a \o b)[i] = IF i < k THEN q[i] ELSE q[i + 1]
    <2>1. CASE i < k
      BY <2>1, <1>1, <1>2, <1>5, <1>6
    <2>2. CASE i >= k
      <3>1. i - Len(a) \in 1..Len(q) - k /\ k + (i - Len(a)) = i + 1
        BY <2>2, <1>1, <1>2
      <3>2. (a \o b)[i] = b[i - Len(a)]
        BY <2>2, <1>1, <1>2, <1>5, <1>6
      <3>3. b[i - Len(a)] = q[k + (i - Len(a))]
        BY <3>1, <1>3
      <3>4. (a \o b)[i] = q[i + 1]
        BY <3>1, <3>2, <3>3
      <3> QED BY <2>2, <3>4, <1>1
    <2>3. i < k \/ i >= k
      BY <1>1
    <2> QED BY <2>1, <2>2, <2>3
  <1> QED BY <1>4, <1>5, <1>6, <1>7

\* Where the elements of two sequences are in the one they are joined to.
LEMMA ConcatShape ==
  ASSUME NEW S, NEW s \in Seq(S), NEW t \in Seq(S)
  PROVE  /\ s \o t \in Seq(S)
         /\ Len(s \o t) = Len(s) + Len(t)
         /\ \A i \in 1..Len(s) : (s \o t)[i] = s[i]
         /\ \A i \in 1..Len(t) : (s \o t)[Len(s) + i] = t[i]
<1> DEFINE u == s \o t
<1>1. /\ u \in Seq(S) /\ Len(u) = Len(s) + Len(t)
      /\ \A i \in 1..Len(s) + Len(t) : u[i] = IF i <= Len(s) THEN s[i] ELSE t[i - Len(s)]
  BY ConcatProperties
<1>2. Len(s) \in Nat /\ Len(t) \in Nat
  OBVIOUS
<1> HIDE DEF u
<1>3. ASSUME NEW i \in 1..Len(s) PROVE u[i] = s[i]
  <2>1. i \in 1..Len(s) + Len(t) /\ i <= Len(s)
    BY <1>2
  <2> QED BY <1>1, <2>1
<1>4. ASSUME NEW i \in 1..Len(t) PROVE u[Len(s) + i] = t[i]
  <2>1. Len(s) + i \in 1..Len(s) + Len(t) /\ ~(Len(s) + i <= Len(s)) /\ (Len(s) + i) - Len(s) = i
    BY <1>2
  <2> QED BY <1>1, <2>1
<1> QED BY <1>1, <1>3, <1>4 DEF u

\* It does not matter which two of three sequences are joined first.
Associates(s, t, u) == (s \o t) \o u = s \o (t \o u)
LEMMA JoinsAssociate ==
  ASSUME NEW S, NEW s \in Seq(S), NEW t \in Seq(S), NEW u \in Seq(S)
  PROVE  Associates(s, t, u)
BY ConcatAssociative DEF Associates

\* What is behind a prefix.
LEMMA PrefixIs ==
  ASSUME NEW S, NEW s \in Seq(S), NEW t \in Seq(S), IsPrefix(s, t)
  PROVE  /\ t = s \o SubSeq(t, Len(s) + 1, Len(t))
         /\ SubSeq(t, Len(s) + 1, Len(t)) \in Seq(S)
<1> DEFINE r == SubSeq(t, Len(s) + 1, Len(t))
<1>1. Len(s) \in Nat /\ Len(t) \in Nat /\ Len(s) <= Len(t) /\ SubSeq(s, 1, Len(s)) = SubSeq(t, 1, Len(s))
  BY DEF IsPrefix
<1>2. \A i \in 1..Len(s) : s[i] = t[i]
  <2>1. \A i \in 1..Len(s) : SubSeq(s, 1, Len(s))[i] = s[i] /\ SubSeq(t, 1, Len(s))[i] = t[i]
    BY <1>1
  <2> QED BY <1>1, <2>1
<1>3. r \in Seq(S) /\ Len(r) = Len(t) - Len(s) /\ \A i \in 1..Len(r) : r[i] = t[Len(s) + i]
  BY <1>1
<1> HIDE DEF r
<1> DEFINE u == s \o r
<1>4. /\ u \in Seq(S) /\ Len(u) = Len(s) + Len(r)
      /\ \A i \in 1..Len(s) : u[i] = s[i]
      /\ \A i \in 1..Len(r) : u[Len(s) + i] = r[i]
  <2>1. r \in Seq(S)
    BY <1>3
  <2> QED BY <2>1, ConcatShape
<1> HIDE DEF u
<1>5. Len(u) = Len(t)
  BY <1>1, <1>3, <1>4
<1>6. ASSUME NEW i \in 1..Len(t)
      PROVE  u[i] = t[i]
  <2>1. CASE i \in 1..Len(s)
    BY <1>2, <1>4, <2>1
  <2>2. CASE i \in (Len(s) + 1)..Len(t)
    <3>1. i - Len(s) \in 1..Len(r) /\ Len(s) + (i - Len(s)) = i
      BY <1>1, <1>3, <2>2
    <3> QED BY <1>3, <1>4, <3>1
  <2> QED BY <1>1, <2>1, <2>2
<1>7. u = t
  BY <1>4, <1>5, <1>6, SeqEqual
<1> QED BY <1>3, <1>7 DEF u, r

LEMMA ConcatPrefix ==
  ASSUME NEW S, NEW s \in Seq(S), NEW t \in Seq(S)
  PROVE  IsPrefix(s, s \o t)
<1> DEFINE u == s \o t
<1>1. /\ u \in Seq(S) /\ Len(u) = Len(s) + Len(t)
      /\ \A i \in 1..Len(s) : u[i] = s[i]
  BY ConcatShape
<1>2. Len(s) \in Nat /\ Len(t) \in Nat
  OBVIOUS
<1> HIDE DEF u
<1>3. Len(s) <= Len(u)
  BY <1>1, <1>2
<1>4. SubSeq(s, 1, Len(s)) = SubSeq(u, 1, Len(s))
  <2>1. SubSeq(s, 1, Len(s)) = s
    BY SubSeqFull
  <2>2. /\ SubSeq(u, 1, Len(s)) \in Seq(S) /\ Len(SubSeq(u, 1, Len(s))) = Len(s)
        /\ \A i \in 1..Len(s) : SubSeq(u, 1, Len(s))[i] = u[i]
    BY <1>1, <1>2, <1>3
  <2> QED BY <1>1, <2>1, <2>2, SeqEqual
<1> QED BY <1>3, <1>4 DEF IsPrefix, u

\* What moves from the front of one sequence to the end of another.
LEMMA MovesOver ==
  ASSUME NEW S, NEW s \in Seq(S), NEW t \in Seq(S), t # <<>>
  PROVE  /\ Append(s, Head(t)) \in Seq(S) /\ Tail(t) \in Seq(S)
         /\ Append(s, Head(t)) \o Tail(t) = s \o t
<1>1. Head(t) \in S /\ Tail(t) \in Seq(S) /\ <<Head(t)>> \in Seq(S)
  BY HeadTailProperties
<1>2. Append(s, Head(t)) = s \o <<Head(t)>> /\ Append(s, Head(t)) \in Seq(S)
  BY <1>1, AppendIsConcat, AppendProperties
<1>3. (s \o <<Head(t)>>) \o Tail(t) = s \o (<<Head(t)>> \o Tail(t))
  BY <1>1, ConcatAssociative
<1>4. <<Head(t)>> \o Tail(t) = t
  <2> DEFINE u == <<Head(t)>> \o Tail(t)
  <2>1. Len(t) \in Nat /\ Len(t) >= 1 /\ Len(Tail(t)) = Len(t) - 1 /\ Head(t) = t[1]
        /\ \A i \in 1..Len(Tail(t)) : Tail(t)[i] = t[i + 1]
    BY HeadTailProperties
  <2>2. /\ u \in Seq(S) /\ Len(u) = Len(<<Head(t)>>) + Len(Tail(t))
        /\ \A i \in 1..Len(<<Head(t)>>) : u[i] = <<Head(t)>>[i]
        /\ \A i \in 1..Len(Tail(t)) : u[Len(<<Head(t)>>) + i] = Tail(t)[i]
    <3>1. <<Head(t)>> \in Seq(S) /\ Tail(t) \in Seq(S)
      BY <1>1
    <3> QED BY <3>1, ConcatShape
  <2>3. Len(<<Head(t)>>) = 1 /\ <<Head(t)>>[1] = t[1]
    BY <2>1
  <2> HIDE DEF u
  <2>4. Len(u) = Len(t)
    BY <2>1, <2>2, <2>3
  <2>5. ASSUME NEW i \in 1..Len(t)
        PROVE  u[i] = t[i]
    <3>1. CASE i = 1
      BY <2>2, <2>3, <3>1
    <3>2. CASE i # 1
      <4>1. i - 1 \in 1..Len(Tail(t)) /\ 1 + (i - 1) = i /\ (i - 1) + 1 = i
        BY <2>1, <3>2
      <4>2. Tail(t)[i - 1] = t[i]
        BY <2>1, <4>1
      <4>3. u[1 + (i - 1)] = Tail(t)[i - 1]
        BY <2>2, <2>3, <4>1
      <4> QED BY <4>1, <4>2, <4>3
    <3> QED BY <3>1, <3>2
  <2>6. u = t
    BY <2>2, <2>4, <2>5, SeqEqual
  <2> QED BY <2>6 DEF u
<1> QED BY <1>1, <1>2, <1>3, <1>4

\* What follows the same is the same.
LEMMA CancelFront ==
  ASSUME NEW S, NEW s \in Seq(S), NEW t \in Seq(S), NEW u \in Seq(S), s \o t = s \o u
  PROVE  t = u
<1> DEFINE v == s \o t
<1>1. /\ Len(v) = Len(s) + Len(t) /\ Len(v) = Len(s) + Len(u)
      /\ \A i \in 1..Len(t) : v[Len(s) + i] = t[i]
      /\ \A i \in 1..Len(u) : v[Len(s) + i] = u[i]
  <2>1. /\ Len(s \o t) = Len(s) + Len(t)
        /\ \A i \in 1..Len(t) : (s \o t)[Len(s) + i] = t[i]
    BY ConcatShape
  <2>2. /\ Len(s \o u) = Len(s) + Len(u)
        /\ \A i \in 1..Len(u) : (s \o u)[Len(s) + i] = u[i]
    BY ConcatShape
  <2> QED BY <2>1, <2>2
<1> HIDE DEF v
<1>2. Len(s) \in Nat /\ Len(t) \in Nat /\ Len(u) \in Nat
  OBVIOUS
<1>3. Len(t) = Len(u)
  BY <1>1, <1>2
<1>4. \A i \in 1..Len(t) : t[i] = u[i]
  BY <1>1, <1>3
<1> QED BY <1>3, <1>4, SeqEqual

\* Of two beginnings of a sequence the shorter one begins the other.
LEMMA Overlap ==
  ASSUME NEW S, NEW s \in Seq(S), NEW t \in Seq(S), NEW u \in Seq(S), NEW v \in Seq(S),
         s \o t = u \o v, Len(s) <= Len(u)
  PROVE  IsPrefix(s, u)
<1> DEFINE w == s \o t
<1>1. Len(s) \in Nat /\ Len(u) \in Nat
  OBVIOUS
<1>2. \A i \in 1..Len(s) : w[i] = s[i]
  BY ConcatShape
<1>3. \A i \in 1..Len(u) : (u \o v)[i] = u[i]
  BY ConcatShape
<1>4. w = u \o v
  OBVIOUS
<1> HIDE DEF w
<1>5. \A i \in 1..Len(s) : s[i] = u[i]
  <2>1. \A i \in 1..Len(s) : i \in 1..Len(u)
    BY <1>1
  <2> QED BY <1>2, <1>3, <1>4, <2>1
<1>6. SubSeq(s, 1, Len(s)) = s
  BY SubSeqFull
<1>7. /\ SubSeq(u, 1, Len(s)) \in Seq(S) /\ Len(SubSeq(u, 1, Len(s))) = Len(s)
      /\ \A i \in 1..Len(s) : SubSeq(u, 1, Len(s))[i] = u[i]
  BY <1>1
<1>8. SubSeq(u, 1, Len(s)) = s
  BY <1>5, <1>7, SeqEqual
<1> QED BY <1>6, <1>8 DEF IsPrefix

\* Whoever leaves the queue of the mutex leaves its first one where it is.
LEMMA LeavingTheQueue ==
  ASSUME NEW S, NEW q \in Seq(S), NEW x
  PROVE  /\ RemoveFirst(q, x) \in Seq(S)
         /\ q # <<>> /\ Head(q) # x => RemoveFirst(q, x) # <<>> /\ Head(RemoveFirst(q, x)) = Head(q)
<1> DEFINE I == {i \in 1..Len(q) : q[i] = x}
           k == SelectInSeq(q, LAMBDA v : v = x)
           r == RemoveAt(q, k)
<1>1. RemoveFirst(q, x) = IF \E i \in 1..Len(q) : q[i] = x THEN r ELSE q
  BY DEF RemoveFirst
<1>2. CASE ~\E i \in 1..Len(q) : q[i] = x
  BY <1>1, <1>2
<1>3. CASE \E i \in 1..Len(q) : q[i] = x
  <2>1. I \in SUBSET Nat /\ I # {} /\ k = IF I # {} THEN Min(I) ELSE 0
    BY <1>3 DEF SelectInSeq
  <2>2. k \in I
    <3> HIDE DEF I, k
    <3> QED BY <2>1, LeastPosition
  <2>3. k \in 1..Len(q) /\ q[k] = x
    BY <2>2
  <2> HIDE DEF I, k
  <2>4. /\ r \in Seq(S) /\ Len(r) = Len(q) - 1
        /\ \A i \in 1..Len(q) - 1 : r[i] = IF i < k THEN q[i] ELSE q[i + 1]
    BY <2>3, RemoveAtProperties
  <2> HIDE DEF r
  <2>5. ASSUME q # <<>>, Head(q) # x
        PROVE  r # <<>> /\ Head(r) = Head(q)
    <3>1. Head(q) = q[1] /\ Len(q) \in Nat
      BY <2>5
    <3>2. k # 1
      BY <2>3, <2>5, <3>1
    <3>3. 1 \in 1..Len(q) - 1 /\ 1 < k
      BY <2>3, <3>1, <3>2
    <3>4. r[1] = q[1]
      BY <2>4, <3>3
    <3>5. Len(r) # 0
      BY <2>4, <3>1, <3>3
    <3>6. r # <<>>
      BY <3>5
    <3> QED BY <2>4, <3>1, <3>4, <3>6, HeadTailProperties
  <2> QED BY <1>1, <1>3, <2>4, <2>5
<1> QED BY <1>2, <1>3

\* More of what is longer does not change what it begins with.
LEMMA PrefixExtends ==
  ASSUME NEW S, NEW s \in Seq(S), NEW t \in Seq(S), NEW u \in Seq(S), IsPrefix(s, t)
  PROVE  IsPrefix(s, t \o u)
<1> DEFINE r == SubSeq(t, Len(s) + 1, Len(t))
<1>1. t = s \o r /\ r \in Seq(S)
  BY PrefixIs
<1> HIDE DEF r
<1>2. (s \o r) \o u = s \o (r \o u)
  BY <1>1, ConcatAssociative
<1>3. r \o u \in Seq(S)
  BY <1>1, ConcatShape
<1>4. IsPrefix(s, s \o (r \o u))
  BY <1>3, ConcatPrefix
<1> QED BY <1>1, <1>2, <1>4
=================================================================================
