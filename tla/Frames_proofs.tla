----------------------------- MODULE Frames_proofs -----------------------------
(***************************************************************************)
(* Proofs about the frame codec, the reader and the framed transport, for  *)
(* every base, cap, document and number of senders.                        *)
(*                                                                         *)
(* The digits of a number read back as the number and no other digits do,  *)
(* so that take_frame finds the frame a buffer begins with and waits while *)
(* it holds only a part of one; push therefore takes all of the frames and *)
(* leaves a rest without any (PushIs).                                     *)
(*                                                                         *)
(* A reader over any bytes: what it returned, has ready and keeps is what  *)
(* it read (ReadInv).                                                      *)
(*                                                                         *)
(* A framed transport: what is written is a row of frames, of which the    *)
(* last may still lack what its sender has not written (Underway). A       *)
(* stream decodes in one way (Decodes), so the reader's frames are the     *)
(* first of the writer's.                                                  *)
(***************************************************************************)
EXTENDS FrameReading, FramedStream, Lemmas, SequenceTheorems, TLAPS

-----------------------------------------------------------------------------
(* Numbers and their digits. *)

IsDecimalTable(n, f) ==
  f = [k \in 0..n |-> IF k < Base THEN <<k>> ELSE Append(f[k \div Base], k % Base)]

LEMMA DivMod ==
  ASSUME NEW k \in Nat, k >= Base
  PROVE  /\ k \div Base \in 1..(k - 1)
         /\ k % Base \in Digits
         /\ k = (k \div Base) * Base + (k % Base)
<1> USE FramingAssumption
<1>1. k \div Base \in Int /\ k % Base \in 0..(Base - 1) /\ k = (k \div Base) * Base + (k % Base)
  OBVIOUS
<1>2. k \div Base >= 1
  <2> SUFFICES ASSUME k \div Base <= 0 PROVE FALSE
    BY <1>1
  <2>1. (k \div Base) * Base <= 0
    BY <1>1
  <2> QED BY <1>1, <2>1
<1>3. k \div Base < k
  <2>1. (k \div Base) * Base >= (k \div Base) * 2
    BY <1>1, <1>2
  <2> QED BY <1>1, <1>2, <2>1
<1> QED BY <1>1, <1>2, <1>3 DEF Digits

\* A multiple that is smaller than what it is a multiple of.
LEMMA SmallMultiple ==
  ASSUME NEW r \in Int, NEW base \in Nat \ {0}, r * base < base, r * base > -base
  PROVE  r = 0
<1>1. CASE r >= 1
  <2>1. r * base >= base
    BY <1>1
  <2> QED BY <2>1
<1>2. CASE r <= -1
  <2>1. -r \in Nat /\ -r >= 1
    BY <1>2
  <2>2. (-r) * base >= base
    BY <2>1
  <2>3. (-r) * base = -(r * base)
    OBVIOUS
  <2> QED BY <2>2, <2>3
<1> QED BY <1>1, <1>2

LEMMA DivModUnique ==
  ASSUME NEW q \in Nat, NEW d \in Digits, q >= 1
  PROVE  /\ q * Base + d >= Base
         /\ (q * Base + d) \div Base = q
         /\ (q * Base + d) % Base = d
<1> USE FramingAssumption DEF Digits
<1> DEFINE k == q * Base + d
<1>1. k \in Nat /\ k >= Base
  <2>1. q * Base >= Base /\ q * Base \in Nat
    OBVIOUS
  <2> QED BY <2>1
<1>2. k \div Base \in Nat /\ k % Base \in 0..(Base - 1) /\ k = (k \div Base) * Base + (k % Base)
  BY <1>1, DivMod
<1>3. k \div Base = q
  <2> DEFINE p == k \div Base
  <2>1. (p - q) * Base = d - (k % Base)
    BY <1>2
  <2>2. d - (k % Base) < Base /\ d - (k % Base) > -Base
    BY <1>2
  <2>3. p - q \in Int /\ (p - q) * Base < Base /\ (p - q) * Base > -Base
    BY <1>2, <2>1, <2>2
  <2> HIDE DEF p
  <2>4. p - q = 0
    BY <2>3, SmallMultiple
  <2>5. p \in Nat
    BY <1>2 DEF p
  <2> QED BY <2>4, <2>5 DEF p
<1>4. k % Base = d
  BY <1>2, <1>3
<1> QED BY <1>1, <1>3, <1>4

LEMMA DecimalTable ==
  ASSUME NEW n \in Nat
  PROVE  \E f \in [0..n -> Seq(Digits)] : IsDecimalTable(n, f)
<1> USE FramingAssumption
<1> DEFINE S == {m \in 0..n : \E f \in [0..m -> Seq(Digits)] : IsDecimalTable(m, f)}
<1>1. 0 \in S
  <2> DEFINE f == [k \in 0..0 |-> <<k>>]
  <2>1. f \in [0..0 -> Seq(Digits)]
    <3>1. \A k \in 0..0 : k \in Digits
      BY DEF Digits
    <3> QED BY <3>1
  <2>2. IsDecimalTable(0, f)
    <3>1. \A k \in 0..0 : k < Base
      OBVIOUS
    <3> QED BY <3>1 DEF IsDecimalTable
  <2> HIDE DEF f
  <2>3. 0 \in 0..n
    OBVIOUS
  <2> QED BY <2>1, <2>2, <2>3
<1>2. ASSUME NEW m \in 0..(n - 1), m \in S
      PROVE  m + 1 \in S
  <2>1. PICK f \in [0..m -> Seq(Digits)] : IsDecimalTable(m, f)
    BY <1>2
  <2> DEFINE k == m + 1
             last == IF k < Base THEN <<k>> ELSE Append(f[k \div Base], k % Base)
             g == [j \in 0..k |-> IF j = k THEN last ELSE f[j]]
  <2>2. last \in Seq(Digits)
    <3>1. CASE k < Base
      BY <3>1 DEF Digits
    <3>2. CASE k >= Base
      <4>0. k \in Nat
        OBVIOUS
      <4>1. k \div Base \in 1..(k - 1) /\ k % Base \in Digits
        BY <3>2, <4>0, DivMod
      <4>2. f[k \div Base] \in Seq(Digits)
        BY <4>1
      <4> QED BY <3>2, <4>1, <4>2
    <3> QED BY <3>1, <3>2
  <2> HIDE DEF last
  <2>3. g \in [0..k -> Seq(Digits)]
    BY <2>2
  <2>4. g[k] = last /\ \A j \in 0..m : g[j] = f[j]
    OBVIOUS
  <2> HIDE DEF g
  <2>5. ASSUME NEW j \in 0..k
        PROVE  g[j] = IF j < Base THEN <<j>> ELSE Append(g[j \div Base], j % Base)
    <3>1. j >= Base => j \div Base \in 0..m /\ j \div Base \in 0..(j - 1)
      <4>1. j \in Nat
        OBVIOUS
      <4>2. j >= Base => j \div Base \in 1..(j - 1)
        BY <4>1, DivMod
      <4> QED BY <4>2
    <3>2. j >= Base => g[j \div Base] = f[j \div Base]
      BY <2>4, <3>1
    <3>3. CASE j = k
      BY <2>4, <3>2, <3>3 DEF last
    <3>4. CASE j # k
      <4>1. j \in 0..m
        BY <3>4
      <4>2. f[j] = IF j < Base THEN <<j>> ELSE Append(f[j \div Base], j % Base)
        BY <2>1, <4>1 DEF IsDecimalTable
      <4>3. g[j] = f[j]
        BY <2>4, <4>1
      <4> QED BY <3>2, <4>2, <4>3
    <3> QED BY <3>3, <3>4
  <2>6. IsDecimalTable(k, g)
    BY <2>3, <2>5 DEF IsDecimalTable
  <2> QED BY <2>3, <2>6
<1> HIDE DEF S
<1>3. 0..n \subseteq S
  BY <1>1, <1>2, UpToInduction
<1>4. n \in 0..n
  OBVIOUS
<1> QED BY <1>3, <1>4 DEF S

LEMMA DecimalTablesAgree ==
  ASSUME NEW n \in Nat, NEW m \in 0..n, NEW f, IsDecimalTable(n, f), NEW g, IsDecimalTable(m, g)
  PROVE  f[m] = g[m]
<1> USE FramingAssumption
<1> DEFINE S == {i \in 0..m : \A k \in 0..i : f[k] = g[k]}
<1>0. /\ \A k \in 0..n : f[k] = IF k < Base THEN <<k>> ELSE Append(f[k \div Base], k % Base)
      /\ \A k \in 0..m : g[k] = IF k < Base THEN <<k>> ELSE Append(g[k \div Base], k % Base)
  BY DEF IsDecimalTable
<1>1. 0 \in S
  <2>0. 0 \in 0..n /\ 0 \in 0..m /\ 0 < Base
    OBVIOUS
  <2>1. f[0] = <<0>> /\ g[0] = <<0>>
    BY <1>0, <2>0
  <2> QED BY <2>1
<1>2. ASSUME NEW i \in 0..(m - 1), i \in S
      PROVE  i + 1 \in S
  <2>1. \A k \in 0..i : f[k] = g[k]
    BY <1>2
  <2> DEFINE k == i + 1
  <2>2. k \in 0..m /\ k \in 0..n /\ k \in Nat
    OBVIOUS
  <2>3. f[k] = g[k]
    <3>1. k >= Base => k \div Base \in 1..(k - 1)
      BY <2>2, DivMod
    <3>2. k >= Base => k \div Base \in 0..i
      BY <3>1
    <3> HIDE DEF k
    <3>3. k >= Base => f[k \div Base] = g[k \div Base]
      BY <2>1, <3>2
    <3>4. /\ f[k] = IF k < Base THEN <<k>> ELSE Append(f[k \div Base], k % Base)
          /\ g[k] = IF k < Base THEN <<k>> ELSE Append(g[k \div Base], k % Base)
      BY <1>0, <2>2
    <3>5. CASE k < Base
      BY <3>4, <3>5
    <3>6. CASE k >= Base
      <4>1. ~(k < Base)
        BY <2>2, <3>6
      <4> QED BY <3>3, <3>4, <3>6, <4>1
    <3> QED BY <2>2, <3>5, <3>6
  <2> QED BY <2>1, <2>2, <2>3
<1> HIDE DEF S
<1>3. 0..m \subseteq S
  BY <1>1, <1>2, UpToInduction
<1>4. m \in 0..m
  OBVIOUS
<1> QED BY <1>3, <1>4 DEF S

\* What Decimal computes, one digit after the other.
LEMMA DecimalStep ==
  ASSUME NEW n \in Nat
  PROVE  /\ Decimal(n) \in Seq(Digits)
         /\ Decimal(n) = IF n < Base THEN <<n>> ELSE Append(Decimal(n \div Base), n % Base)
<1> USE FramingAssumption
<1> DEFINE table(m) == CHOOSE f : IsDecimalTable(m, f)
<1>1. ASSUME NEW m \in Nat
      PROVE  IsDecimalTable(m, table(m)) /\ table(m) \in [0..m -> Seq(Digits)]
  <2>1. \E f : IsDecimalTable(m, f)
    BY DecimalTable
  <2>2. IsDecimalTable(m, table(m))
    BY <2>1
  <2>3. PICK f \in [0..m -> Seq(Digits)] : IsDecimalTable(m, f)
    BY DecimalTable
  <2> HIDE DEF table
  <2>4. ASSUME NEW k \in 0..m
        PROVE  table(m)[k] = f[k]
    <3>1. k \in Nat
      OBVIOUS
    <3>2. PICK g : IsDecimalTable(k, g)
      BY <3>1, DecimalTable
    <3>3. f[k] = g[k] /\ table(m)[k] = g[k]
      BY <2>2, <2>3, <3>2, DecimalTablesAgree
    <3> QED BY <3>3
  <2>5. table(m) = [k \in 0..m |-> f[k]]
    <3>1. DOMAIN table(m) = 0..m /\ table(m) = [k \in DOMAIN table(m) |-> table(m)[k]]
      BY <2>2 DEF IsDecimalTable
    <3> QED BY <2>4, <3>1
  <2> QED BY <2>2, <2>3, <2>5
<1>2. \A m \in Nat : Decimal(m) = table(m)[m]
  BY DEF Decimal, IsDecimalTable
<1> HIDE DEF table
<1>3. n \in 0..n
  OBVIOUS
<1>4. Decimal(n) \in Seq(Digits)
  <2>1. table(n) \in [0..n -> Seq(Digits)]
    BY <1>1
  <2>2. table(n)[n] \in Seq(Digits)
    BY <1>3, <2>1
  <2> QED BY <1>2, <2>2
<1>5. table(n)[n] = IF n < Base THEN <<n>> ELSE Append(table(n)[n \div Base], n % Base)
  BY <1>1, <1>3 DEF IsDecimalTable
<1>6. CASE n >= Base
  <2>1. n \div Base \in 0..n /\ n \div Base \in Nat
    BY <1>6, DivMod
  <2>2. table(n)[n \div Base] = table(n \div Base)[n \div Base]
    BY <1>1, <2>1, DecimalTablesAgree
  <2> QED BY <1>2, <1>4, <1>5, <1>6, <2>1, <2>2
<1>7. CASE n < Base
  BY <1>2, <1>4, <1>5, <1>7
<1> QED BY <1>6, <1>7

LEMMA NumberLoop ==
  ASSUME NEW s \in Seq(Digits)
  PROVE  \E f \in [0..Len(s) -> Nat] :
           f[0] = 0 /\ (\A i \in 1..Len(s) : f[i] = f[i - 1] * Base + s[i]) /\ Number(s) = f[Len(s)]
<1> USE FramingAssumption
<1> DEFINE n == Len(s)
           body == [i \in 1..n |-> [v \in Nat |-> v * Base + s[i]]]
           f == CHOOSE f : f = [i \in 0..n |-> IF i = 0 THEN 0 ELSE f[i - 1] * Base + s[i]]
<1>0. n \in Nat /\ \A i \in 1..n : s[i] \in Nat
  BY DEF Digits
<1> HIDE DEF n
<1>1. body \in [1..n -> [Nat -> Nat]]
  <2>1. ASSUME NEW i \in 1..n, NEW v \in Nat PROVE v * Base + s[i] \in Nat
    BY <1>0
  <2> QED BY <2>1
<1>2. PICK g \in [0..n -> Nat] : g[0] = 0 /\ \A i \in 1..n : g[i] = body[i][g[i - 1]]
  <2> HIDE DEF body
  <2>1. HasLoop(n, Nat, 0, body)
    BY <1>0, <1>1, LoopExists
  <2> QED BY <2>1 DEF HasLoop
<1>3. \A i \in 1..n : g[i - 1] \in Nat /\ g[i] = g[i - 1] * Base + s[i]
  <2> SUFFICES ASSUME NEW i \in 1..n PROVE g[i - 1] \in Nat /\ g[i] = g[i - 1] * Base + s[i]
    OBVIOUS
  <2>1. g[i - 1] \in Nat
    <3>1. i - 1 \in 0..n
      BY <1>0
    <3> QED BY <1>2, <3>1
  <2> QED BY <1>2, <2>1
<1> HIDE DEF body
<1>4. g = [i \in 0..n |-> IF i = 0 THEN 0 ELSE g[i - 1] * Base + s[i]]
  <2>1. \A i \in 0..n : i # 0 => i \in 1..n
    BY <1>0
  <2>2. \A i \in 0..n : g[i] = IF i = 0 THEN 0 ELSE g[i - 1] * Base + s[i]
    BY <1>2, <1>3, <2>1
  <2> QED BY <1>2, <2>2
<1>5. f = [i \in 0..n |-> IF i = 0 THEN 0 ELSE f[i - 1] * Base + s[i]]
  BY <1>4
<1>6. Number(s) = f[n]
  BY DEF Number, n
<1> HIDE DEF f
<1>7. f[0] = 0 /\ \A i \in 1..n : f[i] = f[i - 1] * Base + s[i]
  <2>1. 0 \in 0..n /\ \A i \in 1..n : i \in 0..n /\ i # 0
    BY <1>0
  <2> QED BY <1>5, <2>1
<1>8. \A m \in 0..n : f[m] = g[m]
  <2> SUFFICES ASSUME NEW m \in 0..n PROVE f[m] = g[m]
    OBVIOUS
  <2>1. m \in Nat /\ \A i \in 1..m : i \in 1..n
    BY <1>0
  <2>2. \A i \in 1..m : f[i - 1] = g[i - 1] => f[i] = g[i]
    BY <1>3, <1>7, <2>1
  <2>3. f[0] = g[0]
    BY <1>2, <1>7
  <2>4. m \in Nat
    BY <2>1
  <2> QED BY <2>2, <2>3, <2>4, LoopsAgree, Zenon
<1>9. n \in 0..n
  BY <1>0
<1> QED BY <1>2, <1>3, <1>6, <1>8, <1>9 DEF n

\* What Number computes, one digit after the other.
LEMMA NumberStep ==
  /\ Number(<<>>) = 0
  /\ \A s \in Seq(Digits) : Number(s) \in Nat
  /\ \A s \in Seq(Digits), d \in Digits : Number(Append(s, d)) = Number(s) * Base + d
<1>1. Number(<<>>) = 0
  <2>1. <<>> \in Seq(Digits) /\ Len(<<>>) = 0
    OBVIOUS
  <2> QED BY <2>1, NumberLoop
<1>2. ASSUME NEW s \in Seq(Digits)
      PROVE  Number(s) \in Nat
  <2>1. Len(s) \in 0..Len(s)
    OBVIOUS
  <2> QED BY <2>1, NumberLoop
<1>3. ASSUME NEW s \in Seq(Digits), NEW d \in Digits
      PROVE  Number(Append(s, d)) = Number(s) * Base + d
  <2> DEFINE t == Append(s, d)
             n == Len(s)
  <2>1. /\ t \in Seq(Digits) /\ Len(t) = n + 1 /\ n \in Nat /\ t[n + 1] = d
        /\ \A i \in 1..n : t[i] = s[i]
    BY AppendProperties
  <2> HIDE DEF t, n
  <2>2. PICK f \in [0..n -> Nat] :
          f[0] = 0 /\ (\A i \in 1..n : f[i] = f[i - 1] * Base + s[i]) /\ Number(s) = f[n]
    BY NumberLoop DEF n
  <2>3. PICK g \in [0..(n + 1) -> Nat] :
          g[0] = 0 /\ (\A i \in 1..(n + 1) : g[i] = g[i - 1] * Base + t[i]) /\ Number(t) = g[n + 1]
    BY <2>1, NumberLoop
  <2>4. \A i \in 1..n : i \in 1..(n + 1)
    BY <2>1
  <2>5. \A i \in 1..n : f[i - 1] = g[i - 1] => f[i] = g[i]
    BY <2>1, <2>2, <2>3, <2>4
  <2>6. f[n] = g[n]
    <3>1. n \in Nat /\ f[0] = g[0]
      BY <2>1, <2>2, <2>3
    <3> QED BY <2>5, <3>1, LoopsAgree, Zenon
  <2>7. g[n + 1] = g[(n + 1) - 1] * Base + t[n + 1] /\ (n + 1) - 1 = n
    BY <2>1, <2>3
  <2> QED BY <2>1, <2>2, <2>3, <2>6, <2>7 DEF t
<1> QED BY <1>1, <1>2, <1>3

\* A length header as the grammar has it: digits without a leading zero.
Canonical(s) == s \in Seq(Digits) /\ s # <<>> /\ (Len(s) > 1 => s[1] # 0)

LEMMA NumberOfOne ==
  ASSUME NEW d \in Digits
  PROVE  Number(<<d>>) = d
<1> USE FramingAssumption
<1>1. <<d>> = Append(<<>>, d) /\ <<>> \in Seq(Digits) /\ d \in Int
  BY DEF Digits
<1>2. Number(Append(<<>>, d)) = 0 * Base + d
  BY <1>1, NumberStep
<1>3. 0 * Base = 0
  OBVIOUS
<1> QED BY <1>1, <1>2, <1>3

\* What is written as decimal digits is read as the number it was.
LEMMA DecimalReadsBack ==
  ASSUME NEW n \in Nat
  PROVE  Canonical(Decimal(n)) /\ Number(Decimal(n)) = n
<1> USE FramingAssumption
<1> DEFINE Good(k) == /\ Decimal(k) \in Seq(Digits) /\ Decimal(k) # <<>>
                      /\ k = 0 => Len(Decimal(k)) = 1
                      /\ k # 0 => Decimal(k)[1] # 0
                      /\ Number(Decimal(k)) = k
           S == {i \in 0..n : \A k \in 0..i : Good(k)}
<1>1. ASSUME NEW k \in Nat, k < Base
      PROVE  Good(k)
  <2>1. Decimal(k) = <<k>> /\ k \in Digits
    BY <1>1, DecimalStep DEF Digits
  <2>2. Number(<<k>>) = k
    BY <2>1, NumberOfOne
  <2>3. <<k>> \in Seq(Digits) /\ <<k>> # <<>> /\ Len(<<k>>) = 1 /\ <<k>>[1] = k
    BY <2>1
  <2> QED BY <2>1, <2>2, <2>3
<1>2. ASSUME NEW k \in Nat, k >= Base, Good(k \div Base)
      PROVE  Good(k)
  <2> DEFINE q == k \div Base
             d == k % Base
             t == Decimal(q)
  <2>1. q \in Nat /\ q # 0 /\ d \in Digits /\ k = q * Base + d
    <3>1. q \in 1..(k - 1) /\ d \in Digits /\ k = q * Base + d
      BY <1>2, DivMod
    <3> HIDE DEF q, d
    <3> QED BY <3>1
  <2>2. t \in Seq(Digits) /\ t # <<>> /\ t[1] # 0 /\ Number(t) = q
    BY <1>2, <2>1
  <2>3. Decimal(k) = Append(t, d)
    <3>1. ~(k < Base)
      BY <1>2
    <3> QED BY <3>1, DecimalStep
  <2> HIDE DEF q, d, t
  <2>4. Number(Append(t, d)) = k
    BY <2>1, <2>2, NumberStep
  <2>5. Append(t, d) \in Seq(Digits) /\ Append(t, d) # <<>> /\ Append(t, d)[1] = t[1]
    <3>1. Len(t) >= 1
      BY <2>2
    <3> QED BY <2>1, <2>2, <3>1, AppendProperties
  <2>6. k # 0
    BY <1>2
  <2> QED BY <2>2, <2>3, <2>4, <2>5, <2>6
<1>3. 0 \in S
  <2>1. Good(0)
    BY <1>1
  <2> HIDE DEF Good
  <2> QED BY <2>1
<1>4. ASSUME NEW i \in 0..(n - 1), i \in S
      PROVE  i + 1 \in S
  <2> DEFINE k == i + 1
  <2>1. k \in Nat /\ k \in 0..n /\ \A j \in 0..k : j = k \/ j \in 0..i
    OBVIOUS
  <2>2. \A j \in 0..i : Good(j)
    BY <1>4
  <2>3. k >= Base => k \div Base \in 1..(k - 1)
    BY <2>1, DivMod
  <2>4. k >= Base => k \div Base \in 0..i
    BY <2>3
  <2> HIDE DEF Good, k
  <2>5. Good(k)
    <3>1. CASE k < Base
      BY <1>1, <2>1, <3>1
    <3>2. CASE k >= Base
      BY <1>2, <2>1, <2>2, <2>4, <3>2
    <3> QED BY <2>1, <3>1, <3>2
  <2>6. \A j \in 0..k : Good(j)
    BY <2>1, <2>2, <2>5
  <2> QED BY <2>1, <2>6 DEF k
<1> HIDE DEF S
<1>5. 0..n \subseteq S
  BY <1>3, <1>4, UpToInduction
<1>6. Good(n)
  <2>1. n \in 0..n
    OBVIOUS
  <2> HIDE DEF Good
  <2> QED BY <1>5, <2>1 DEF S
<1>7. Len(Decimal(n)) > 1 => Decimal(n)[1] # 0
  <2>1. /\ n = 0 => Len(Decimal(n)) = 1
        /\ n # 0 => Decimal(n)[1] # 0
    BY <1>6
  <2>2. ~(1 > 1)
    OBVIOUS
  <2> QED BY <2>1, <2>2
<1>8. Decimal(n) \in Seq(Digits) /\ Decimal(n) # <<>> /\ Number(Decimal(n)) = n
  BY <1>6
<1> QED BY <1>7, <1>8 DEF Canonical

\* And a header is the digits of the number it is read as.
LEMMA NumberWritesBack ==
  ASSUME NEW s, Canonical(s)
  PROVE  Decimal(Number(s)) = s
<1> USE FramingAssumption
<1> DEFINE Good(t) == Decimal(Number(t)) = t /\ (t[1] # 0 => Number(t) >= 1)
           S == {i \in Nat : \A t \in Seq(Digits) : Canonical(t) /\ Len(t) = i + 1 => Good(t)}
<1>1. 0 \in S
  <2> SUFFICES ASSUME NEW t \in Seq(Digits), Len(t) = 1 PROVE Good(t)
    OBVIOUS
  <2>1. t = <<t[1]>> /\ t[1] \in Digits
    <3>1. t[1] \in Digits
      OBVIOUS
    <3>2. <<t[1]>> \in Seq(Digits) /\ Len(<<t[1]>>) = 1 /\ <<t[1]>>[1] = t[1]
      BY <3>1
    <3>3. \A j \in 1..1 : t[j] = <<t[1]>>[j]
      BY <3>2
    <3> QED BY <3>1, <3>2, <3>3, SeqEqual
  <2>2. Number(t) = t[1]
    BY <2>1, NumberOfOne
  <2>3. t[1] \in Nat /\ t[1] < Base
    BY <2>1 DEF Digits
  <2>4. Decimal(t[1]) = <<t[1]>>
    BY <2>3, DecimalStep
  <2> QED BY <2>1, <2>2, <2>3, <2>4
<1>2. ASSUME NEW i \in Nat, i \in S
      PROVE  i + 1 \in S
  <2> SUFFICES ASSUME NEW t \in Seq(Digits), Canonical(t), Len(t) = i + 2 PROVE Good(t)
    OBVIOUS
  <2>1. PICK u \in Seq(Digits), d \in Digits : t = Append(u, d)
    <3>1. t # <<>>
      BY DEF Canonical
    <3> QED BY <3>1, SequenceEmptyOrAppend
  <2>2. Len(u) = i + 1 /\ u # <<>> /\ t[1] = u[1]
    <3>1. Len(t) = Len(u) + 1 /\ Len(u) \in Nat /\ (Len(u) >= 1 => t[1] = u[1])
      BY <2>1, AppendProperties
    <3> QED BY <3>1
  <2>3. t[1] # 0
    BY DEF Canonical
  <2>4. Canonical(u)
    BY <2>2, <2>3 DEF Canonical
  <2>5. Decimal(Number(u)) = u /\ Number(u) >= 1
    BY <1>2, <2>2, <2>3, <2>4
  <2>6. Number(t) = Number(u) * Base + d /\ Number(u) \in Nat
    BY <2>1, NumberStep
  <2> DEFINE q == Number(u)
             k == Number(t)
  <2>7. k >= Base /\ k \div Base = q /\ k % Base = d
    BY <2>5, <2>6, DivModUnique
  <2>8. k \in Nat
    BY NumberStep
  <2>9. Decimal(k) = Append(Decimal(k \div Base), k % Base)
    <3> HIDE DEF k
    <3>1. ~(k < Base)
      BY <2>7, <2>8
    <3> QED BY <2>8, <3>1, DecimalStep
  <2>10. Decimal(k) = t
    BY <2>1, <2>5, <2>7, <2>9
  <2>11. k >= 1
    BY <2>7, <2>8
  <2> QED BY <2>10, <2>11
<1> HIDE DEF S
<1>3. Nat \subseteq S
  BY <1>1, <1>2, SetInduction
<1>4. s \in Seq(Digits) /\ Len(s) - 1 \in Nat
  BY DEF Canonical
<1>5. Len(s) - 1 \in S
  BY <1>3, <1>4
<1>6. Len(s) = (Len(s) - 1) + 1
  BY <1>4
<1> QED BY <1>4, <1>5, <1>6 DEF S

-----------------------------------------------------------------------------
(* Frames. *)

LEMMA DigitsAreBytes ==
  Digits \subseteq Bytes /\ LF \in Bytes /\ LF \notin Digits
BY FramingAssumption DEF Bytes, Digits

LEMMA PayloadsAre ==
  Payloads = {d \in Seq(Bytes) : Len(d) <= MaxFrameBytes}
<1>1. ASSUME NEW d \in Payloads
      PROVE  d \in Seq(Bytes) /\ Len(d) <= MaxFrameBytes
  <2>1. PICK m \in 0..MaxFrameBytes : d \in [1..m -> Bytes]
    BY FramingAssumption DEF Payloads, BoundedSeq, SeqOf
  <2> QED BY <2>1, FramingAssumption
<1>2. ASSUME NEW d \in Seq(Bytes), Len(d) <= MaxFrameBytes
      PROVE  d \in Payloads
  <2>1. Len(d) \in 0..MaxFrameBytes /\ d \in [1..Len(d) -> Bytes]
    BY <1>2, FramingAssumption
  <2> QED BY <2>1 DEF Payloads, BoundedSeq, SeqOf
<1> QED BY <1>1, <1>2

\* The header ends at the first line feed.
LEMMA TerminatorIs ==
  ASSUME NEW b \in Seq(Bytes)
  PROVE  /\ Terminator(b) \in 0..Len(b)
         /\ Terminator(b) = 0 => \A i \in 1..Len(b) : b[i] # LF
         /\ Terminator(b) # 0 => /\ b[Terminator(b)] = LF
                                 /\ \A i \in 1..(Terminator(b) - 1) : b[i] # LF
<1> DEFINE I == {i \in 1..Len(b) : b[i] = LF}
<1>1. Terminator(b) = IF I # {} THEN Min(I) ELSE 0
  BY DEF Terminator, SelectInSeq
<1>2. I \in SUBSET Nat /\ Len(b) \in Nat
  OBVIOUS
<1>3. CASE I = {}
  <2>1. Terminator(b) = 0
    BY <1>1, <1>3
  <2>2. \A i \in 1..Len(b) : b[i] # LF
    BY <1>3
  <2> QED BY <1>2, <2>1, <2>2
<1>4. CASE I # {}
  <2>1. Min(I) \in I /\ \A j \in I : Min(I) <= j
    <3> HIDE DEF I
    <3> QED BY <1>2, <1>4, LeastPosition
  <2> DEFINE t == Min(I)
  <2>2. t \in 1..Len(b) /\ b[t] = LF
    BY <2>1
  <2>3. ASSUME NEW i \in 1..(t - 1)
        PROVE  b[i] # LF
    <3>1. i \in 1..Len(b) /\ ~(t <= i)
      BY <2>2
    <3> QED BY <2>1, <3>1
  <2> HIDE DEF I
  <2> QED BY <1>1, <1>4, <2>2, <2>3
<1> QED BY <1>3, <1>4

LEMMA TerminatorFound ==
  ASSUME NEW b \in Seq(Bytes), NEW k \in 1..Len(b), b[k] = LF, \A i \in 1..(k - 1) : b[i] # LF
  PROVE  Terminator(b) = k
<1> DEFINE t == Terminator(b)
<1>1. t \in 0..Len(b) /\ (t = 0 => b[k] # LF) /\ (t # 0 => b[t] = LF /\ ~(k \in 1..(t - 1)))
  BY TerminatorIs
<1> HIDE DEF t
<1>2. ~(t \in 1..(k - 1))
  BY <1>1
<1> QED BY <1>1, <1>2 DEF t

LEMMA FrameShape ==
  ASSUME NEW d \in Payloads
  PROVE  LET h == Decimal(Len(d))
             n == Len(h)
             frame == EncodeFrame(d)
         IN  /\ h \in Seq(Digits) /\ n \in 1..MaxLengthDigits /\ ~BadHeader(h) /\ Number(h) = Len(d)
             /\ d \in Seq(Bytes)
             /\ frame \in Seq(Bytes) /\ Len(frame) = n + 2 + Len(d)
             /\ \A i \in 1..n : frame[i] = h[i] /\ frame[i] # LF
             /\ frame[n + 1] = LF
             /\ \A i \in 1..Len(d) : frame[n + 1 + i] = d[i]
             /\ frame[n + 2 + Len(d)] = LF
<1> DEFINE h == Decimal(Len(d))
           n == Len(h)
           frame == EncodeFrame(d)
<1>1. d \in Seq(Bytes) /\ Len(d) \in 0..MaxFrameBytes /\ Len(d) \in Nat
  BY PayloadsAre, FramingAssumption
<1>2. h \in Seq(Digits) /\ Canonical(h) /\ Number(h) = Len(d)
  BY <1>1, DecimalReadsBack DEF Canonical
<1>3. n \in 1..MaxLengthDigits
  <2>1. n <= MaxLengthDigits
    BY <1>1, CapAssumption
  <2> HIDE DEF h
  <2>2. n \in Nat \ {0}
    BY <1>2, EmptySeq DEF Canonical
  <2> QED BY <2>1, <2>2, FramingAssumption
<1> HIDE DEF h
<1>4. ~BadHeader(h)
  <2>1. \A i \in DOMAIN h : h[i] \in Digits
    BY <1>2
  <2>2. ~(Number(h) > MaxFrameBytes) /\ ~(Len(h) > MaxLengthDigits)
    BY <1>1, <1>2, <1>3, FramingAssumption
  <2>3. h # <<>> /\ (Len(h) > 1 => h[1] # 0)
    BY <1>2 DEF Canonical
  <2> QED BY <2>1, <2>2, <2>3 DEF BadHeader
<1>5. h \in Seq(Bytes) /\ <<LF>> \in Seq(Bytes) /\ Len(<<LF>>) = 1 /\ <<LF>>[1] = LF
  BY <1>2, DigitsAreBytes
<1> DEFINE f1 == h \o <<LF>>
           f2 == f1 \o d
<1>6. f1 \in Seq(Bytes) /\ Len(f1) = n + 1 /\ (\A i \in 1..n : f1[i] = h[i]) /\ f1[n + 1] = LF
  BY <1>2, <1>5, ConcatProperties
<1> HIDE DEF f1
<1>7. /\ f2 \in Seq(Bytes) /\ Len(f2) = n + 1 + Len(d)
      /\ \A i \in 1..(n + 1) : f2[i] = f1[i]
      /\ \A i \in 1..Len(d) : f2[n + 1 + i] = d[i]
  <2>1. /\ f2 \in Seq(Bytes) /\ Len(f2) = Len(f1) + Len(d)
        /\ \A i \in 1..Len(f1) : f2[i] = f1[i]
        /\ \A i \in 1..Len(d) : f2[Len(f1) + i] = d[i]
    <3>1. f1 \in Seq(Bytes) /\ d \in Seq(Bytes)
      BY <1>1, <1>6
    <3> QED BY <3>1, ConcatShape
  <2> HIDE DEF f2
  <2> QED BY <1>6, <2>1
<1> HIDE DEF f2
<1>8. /\ frame \in Seq(Bytes) /\ Len(frame) = n + 2 + Len(d)
      /\ \A i \in 1..(n + 1 + Len(d)) : frame[i] = f2[i]
      /\ frame[n + 2 + Len(d)] = LF
  <2>1. frame = f2 \o <<LF>>
    BY DEF EncodeFrame, f2, f1, h
  <2> HIDE DEF frame
  <2>2. /\ frame \in Seq(Bytes) /\ Len(frame) = Len(f2) + Len(<<LF>>)
        /\ \A i \in 1..Len(f2) : frame[i] = f2[i]
        /\ \A i \in 1..Len(<<LF>>) : frame[Len(f2) + i] = <<LF>>[i]
    <3>1. f2 \in Seq(Bytes) /\ <<LF>> \in Seq(Bytes)
      BY <1>5, <1>7
    <3> QED BY <2>1, <3>1, ConcatShape
  <2>3. Len(f2) = n + 1 + Len(d) /\ n + 1 + Len(d) + 1 = n + 2 + Len(d)
    BY <1>1, <1>3, <1>7
  <2>4. 1 \in 1..Len(<<LF>>)
    BY <1>5
  <2>5. frame[Len(f2) + 1] = LF
    BY <1>5, <2>2, <2>4
  <2> QED BY <1>5, <2>2, <2>3, <2>5
<1> HIDE DEF frame
<1>9. ASSUME NEW i \in 1..n
      PROVE  frame[i] = h[i] /\ frame[i] # LF
  <2>1. frame[i] = h[i]
    BY <1>1, <1>3, <1>6, <1>7, <1>8
  <2>2. h[i] \in Digits
    BY <1>2
  <2> QED BY <2>1, <2>2, DigitsAreBytes
<1>10. frame[n + 1] = LF
  BY <1>1, <1>3, <1>6, <1>7, <1>8
<1>11. \A i \in 1..Len(d) : frame[n + 1 + i] = d[i]
  BY <1>1, <1>3, <1>6, <1>7, <1>8
<1> QED BY <1>1, <1>2, <1>3, <1>4, <1>8, <1>9, <1>10, <1>11 DEF h, frame

\* Once the header of a frame is there, the decoder waits for the rest of it.
LEMMA HeaderRead ==
  ASSUME NEW d \in Payloads, NEW b \in Seq(Bytes),
         Len(b) >= Len(Decimal(Len(d))) + 1,
         \A i \in 1..(Len(Decimal(Len(d))) + 1) : b[i] = EncodeFrame(d)[i]
  PROVE  LET start == Len(Decimal(Len(d))) + 2
             end == start + Len(d)
         IN  TakeFrame(b) = IF Len(b) < end THEN NeedMore
                            ELSE IF b[end] # LF THEN Violation
                            ELSE Frame(SubSeq(b, start, end - 1), SubSeq(b, end + 1, Len(b)))
<1> DEFINE h == Decimal(Len(d))
           n == Len(h)
           start == n + 2
           end == start + Len(d)
<1>1. /\ h \in Seq(Digits) /\ n \in 1..MaxLengthDigits /\ ~BadHeader(h) /\ Number(h) = Len(d)
      /\ (\A i \in 1..n : EncodeFrame(d)[i] = h[i] /\ EncodeFrame(d)[i] # LF)
      /\ EncodeFrame(d)[n + 1] = LF
      /\ d \in Seq(Bytes) /\ Len(d) \in Nat
  BY FrameShape
<1>2. Len(b) >= n + 1 /\ \A i \in 1..(n + 1) : b[i] = EncodeFrame(d)[i]
  OBVIOUS
<1> HIDE DEF h
<1>3. n \in Nat /\ n >= 1 /\ Len(b) \in Nat
  BY <1>1, FramingAssumption
<1>4. Terminator(b) = n + 1
  <2>1. n + 1 \in 1..Len(b) /\ b[n + 1] = LF
    BY <1>1, <1>2, <1>3
  <2>2. \A i \in 1..((n + 1) - 1) : b[i] # LF
    BY <1>1, <1>2, <1>3
  <2> QED BY <2>1, <2>2, TerminatorFound
<1>5. SubSeq(b, 1, n) = h
  <2>1. \A i \in 1..n : b[i] = h[i] /\ i \in 1..Len(b)
    BY <1>1, <1>2, <1>3
  <2>2. SubSeq(b, 1, n) \in Seq(Bytes) /\ Len(SubSeq(b, 1, n)) = n
    BY <1>2, <1>3
  <2>3. \A i \in 1..n : SubSeq(b, 1, n)[i] = b[i]
    BY <1>2, <1>3
  <2>4. h \in Seq(Bytes)
    BY <1>1, DigitsAreBytes
  <2> QED BY <2>1, <2>2, <2>3, <2>4, SeqEqual
<1>6. /\ SubSeq(b, 1, Terminator(b) - 1) = h /\ Terminator(b) # 0
      /\ Terminator(b) + 1 + Number(h) = end /\ Terminator(b) + 1 = start
  <2>1. (n + 1) - 1 = n /\ n + 1 # 0 /\ (n + 1) + 1 + Len(d) = end /\ (n + 1) + 1 = start
    BY <1>1, <1>3
  <2> QED BY <1>1, <1>4, <1>5, <2>1
<1>7. TakeFrame(b) = IF Len(b) < end THEN NeedMore
                     ELSE IF b[end] # LF THEN Violation
                     ELSE Frame(SubSeq(b, start, end - 1), SubSeq(b, end + 1, Len(b)))
  <2> HIDE DEF start, end
  <2> QED BY <1>1, <1>6 DEF TakeFrame
<1> QED BY <1>7 DEF h

\* A frame in front of the buffer is what is taken.
LEMMA TakesFrame ==
  ASSUME NEW d \in Payloads, NEW r \in Seq(Bytes)
  PROVE  TakeFrame(EncodeFrame(d) \o r) = Frame(d, r)
<1> DEFINE n == Len(Decimal(Len(d)))
           frame == EncodeFrame(d)
           b == frame \o r
           end == n + 2 + Len(d)
<1>1. /\ n \in Nat /\ n >= 1 /\ frame \in Seq(Bytes) /\ Len(frame) = end
      /\ \A i \in 1..Len(d) : frame[n + 1 + i] = d[i]
      /\ frame[end] = LF
      /\ d \in Seq(Bytes) /\ Len(d) \in Nat
  BY FrameShape, FramingAssumption
<1> HIDE DEF n, frame
<1>2. /\ b \in Seq(Bytes) /\ Len(b) = end + Len(r)
      /\ \A i \in 1..end : b[i] = frame[i]
      /\ \A i \in 1..Len(r) : b[end + i] = r[i]
  <2>1. frame \in Seq(Bytes) /\ r \in Seq(Bytes)
    BY <1>1
  <2>2. /\ b \in Seq(Bytes) /\ Len(b) = Len(frame) + Len(r)
        /\ \A i \in 1..Len(frame) : b[i] = frame[i]
        /\ \A i \in 1..Len(r) : b[Len(frame) + i] = r[i]
    BY <2>1, ConcatShape
  <2> HIDE DEF b, end
  <2> QED BY <1>1, <2>2
<1>3. Len(r) \in Nat /\ end \in Nat
  BY <1>1
<1> HIDE DEF b
<1>4. TakeFrame(b) = IF Len(b) < end THEN NeedMore
                     ELSE IF b[end] # LF THEN Violation
                     ELSE Frame(SubSeq(b, n + 2, end - 1), SubSeq(b, end + 1, Len(b)))
  <2>1. Len(b) >= n + 1 /\ \A i \in 1..(n + 1) : b[i] = frame[i]
    BY <1>1, <1>2, <1>3
  <2>2. b \in Seq(Bytes)
    BY <1>2
  <2> QED BY <2>1, <2>2, HeaderRead DEF n, frame
<1>5. ~(Len(b) < end) /\ b[end] = LF
  BY <1>1, <1>2, <1>3
<1>6. SubSeq(b, n + 2, end - 1) = d
  <2>1. \A i \in 1..Len(d) : n + 1 + i \in 1..end /\ n + 1 + i \in 1..Len(b)
    BY <1>1, <1>2, <1>3
  <2>2. \A i \in 1..Len(d) : b[n + 1 + i] = d[i]
    BY <1>1, <1>2, <2>1
  <2>3. /\ SubSeq(b, n + 2, end - 1) \in Seq(Bytes)
        /\ Len(SubSeq(b, n + 2, end - 1)) = Len(d)
        /\ \A i \in 1..Len(d) : SubSeq(b, n + 2, end - 1)[i] = b[n + 1 + i]
    <3>1. \A i \in (n + 2)..(end - 1) : b[i] \in Bytes
      <4>1. \A i \in (n + 2)..(end - 1) : i \in 1..Len(b)
        BY <1>1, <1>2, <1>3
      <4> QED BY <1>2, <4>1
    <3>2. n + 2 \in Int /\ end - 1 \in Int
      BY <1>1
    <3>3. /\ SubSeq(b, n + 2, end - 1) \in Seq(Bytes)
          /\ Len(SubSeq(b, n + 2, end - 1)) = IF n + 2 <= end - 1 THEN (end - 1) - (n + 2) + 1 ELSE 0
          /\ \A i \in 1..((end - 1) - (n + 2) + 1) : SubSeq(b, n + 2, end - 1)[i] = b[(n + 2) + i - 1]
      BY <3>1, <3>2, SubSeqProperties
    <3>4. Len(SubSeq(b, n + 2, end - 1)) = Len(d)
      BY <1>1, <3>3
    <3>5. ASSUME NEW i \in 1..Len(d) PROVE SubSeq(b, n + 2, end - 1)[i] = b[n + 1 + i]
      <4>1. i \in 1..((end - 1) - (n + 2) + 1) /\ (n + 2) + i - 1 = n + 1 + i
        BY <1>1
      <4> QED BY <3>3, <4>1
    <3> QED BY <3>3, <3>4, <3>5
  <2> QED BY <1>1, <2>2, <2>3, SeqEqual
<1>7. SubSeq(b, end + 1, Len(b)) = r
  <2>1. /\ SubSeq(b, end + 1, Len(b)) \in Seq(Bytes)
        /\ Len(SubSeq(b, end + 1, Len(b))) = Len(r)
        /\ \A i \in 1..Len(r) : SubSeq(b, end + 1, Len(b))[i] = b[end + i]
    BY <1>1, <1>2, <1>3
  <2> QED BY <1>2, <2>1, SeqEqual
<1>8. TakeFrame(b) = Frame(d, r)
  <2> HIDE DEF end
  <2> QED BY <1>4, <1>5, <1>6, <1>7
<1> QED BY <1>8 DEF b, frame

\* A frame that is not complete makes the decoder wait.
LEMMA WaitsForFrame ==
  ASSUME NEW d \in Payloads, NEW p \in Seq(Bytes), NEW q \in Seq(Bytes),
         q # <<>>, p \o q = EncodeFrame(d)
  PROVE  TakeFrame(p) = NeedMore
<1> DEFINE n == Len(Decimal(Len(d)))
           frame == EncodeFrame(d)
           end == n + 2 + Len(d)
<1>1. /\ n \in 1..MaxLengthDigits /\ Len(frame) = end
      /\ \A i \in 1..n : frame[i] # LF
      /\ Len(d) \in Nat
  <2>1. /\ n \in 1..MaxLengthDigits /\ d \in Seq(Bytes) /\ Len(frame) = end
        /\ \A i \in 1..n : frame[i] = Decimal(Len(d))[i] /\ frame[i] # LF
    BY FrameShape
  <2> QED BY <2>1
<1>2. /\ Len(frame) = Len(p) + Len(q)
      /\ \A i \in 1..Len(p) : frame[i] = p[i]
  BY ConcatShape
<1>3. n \in Nat /\ Len(p) \in Nat /\ Len(q) \in Nat /\ Len(q) # 0 /\ MaxLengthDigits \in Nat
  BY <1>1, FramingAssumption
<1> HIDE DEF n, frame
<1>4. Len(p) < end
  BY <1>1, <1>2, <1>3
<1>5. CASE Len(p) <= n
  <2>1. \A i \in 1..Len(p) : p[i] # LF
    BY <1>1, <1>2, <1>3, <1>5
  <2>2. Terminator(p) = 0
    BY <2>1, TerminatorIs
  <2>3. ~(Len(p) > MaxLengthDigits)
    BY <1>1, <1>3, <1>5
  <2> QED BY <2>2, <2>3 DEF TakeFrame
<1>6. CASE Len(p) >= n + 1
  <2>1. \A i \in 1..(n + 1) : p[i] = frame[i]
    BY <1>2, <1>3, <1>6
  <2>2. Len(p) < (n + 2) + Len(d)
    BY <1>4
  <2> QED BY <1>6, <2>1, <2>2, HeaderRead DEF n, frame
<1> QED BY <1>3, <1>5, <1>6

LEMMA TakesNothing == TakeFrame(<<>>) = NeedMore
<1>1. <<>> \in Seq(Bytes) /\ Len(<<>>) = 0 /\ 0..0 = {0}
  OBVIOUS
<1>2. Terminator(<<>>) = 0
  <2>1. Terminator(<<>>) \in 0..Len(<<>>)
    BY <1>1, TerminatorIs
  <2> QED BY <1>1, <2>1
<1>3. ~(0 > MaxLengthDigits)
  BY FramingAssumption
<1> QED BY <1>1, <1>2, <1>3 DEF TakeFrame

\* Whatever is taken was a frame.
LEMMA TakeFrameIs ==
  ASSUME NEW b \in Seq(Bytes), TakeFrame(b) # NeedMore, TakeFrame(b) # Violation
  PROVE  \E d \in Payloads, r \in Seq(Bytes) :
           b = EncodeFrame(d) \o r /\ TakeFrame(b) = Frame(d, r)
<1> DEFINE lf == Terminator(b)
           h == SubSeq(b, 1, lf - 1)
           n == Number(h)
           end == lf + 1 + n
           d == SubSeq(b, lf + 1, end - 1)
           r == SubSeq(b, end + 1, Len(b))
<1>1. /\ lf # 0 /\ ~BadHeader(h) /\ ~(Len(b) < end) /\ b[end] = LF
      /\ TakeFrame(b) = Frame(d, r)
  BY DEF TakeFrame
<1>2. lf \in 1..Len(b) /\ b[lf] = LF /\ Len(b) \in Nat
  <2>1. lf \in 0..Len(b) /\ (lf # 0 => b[lf] = LF)
    BY TerminatorIs
  <2>2. lf # 0
    BY <1>1
  <2> HIDE DEF lf
  <2> QED BY <2>1, <2>2
<1> HIDE DEF lf
<1>3. h \in Seq(Bytes) /\ Len(h) = lf - 1 /\ \A i \in 1..(lf - 1) : h[i] = b[i]
  BY <1>2
<1> HIDE DEF h
<1>4. Canonical(h) /\ n <= MaxFrameBytes
  <2>1. \A i \in DOMAIN h : h[i] \in Digits
    BY <1>1 DEF BadHeader
  <2>2. h \in Seq(Digits)
    BY <1>3, <2>1
  <2>3. h # <<>> /\ (Len(h) > 1 => h[1] # 0) /\ ~(n > MaxFrameBytes)
    BY <1>1 DEF BadHeader
  <2>4. n \in Nat
    BY <2>2, NumberStep
  <2> HIDE DEF n
  <2> QED BY <2>2, <2>3, <2>4, FramingAssumption DEF Canonical
<1>5. Decimal(n) = h /\ n \in Nat
  BY <1>4, NumberWritesBack, NumberStep DEF Canonical
<1> HIDE DEF n
<1>6. end \in 1..Len(b) /\ end = lf + 1 + n
  BY <1>1, <1>2, <1>5
<1> HIDE DEF end
<1>7. d \in Seq(Bytes) /\ Len(d) = n /\ \A i \in 1..n : d[i] = b[lf + i]
  BY <1>2, <1>5, <1>6
<1>8. d \in Payloads
  BY <1>4, <1>7, PayloadsAre
<1>9. r \in Seq(Bytes) /\ Len(r) = Len(b) - end /\ \A i \in 1..Len(r) : r[i] = b[end + i]
  <2>1. end + 1 \in 1..(Len(b) + 1) /\ Len(b) \in ((end + 1) - 1)..Len(b)
    BY <1>2, <1>6
  <2>2. /\ r \in Seq(Bytes) /\ Len(r) = Len(b) - (end + 1) + 1
        /\ \A i \in 1..(Len(b) - (end + 1) + 1) : r[i] = b[(end + 1) + i - 1]
    BY <2>1, SubSeqProperties
  <2> HIDE DEF r
  <2>3. Len(r) = Len(b) - end /\ \A i \in 1..Len(r) : (end + 1) + i - 1 = end + i
    BY <1>2, <1>6, <2>2
  <2> QED BY <2>2, <2>3
<1> HIDE DEF d, r
<1>10. EncodeFrame(d) \o r = b
  <2> DEFINE frame == EncodeFrame(d)
  <2>1. /\ frame \in Seq(Bytes) /\ Len(frame) = Len(h) + 2 + n
        /\ \A i \in 1..Len(h) : frame[i] = h[i]
        /\ frame[Len(h) + 1] = LF
        /\ \A i \in 1..n : frame[Len(h) + 1 + i] = d[i]
        /\ frame[Len(h) + 2 + n] = LF
    BY <1>5, <1>7, <1>8, FrameShape
  <2> HIDE DEF frame
  <2>2. Len(frame) = end /\ Len(h) + 1 = lf
    BY <1>2, <1>3, <1>5, <1>6, <2>1
  <2>3. ASSUME NEW i \in 1..end
        PROVE  frame[i] = b[i]
    <3>1. CASE i \in 1..(lf - 1)
      BY <1>3, <2>1, <3>1
    <3>2. CASE i = lf
      BY <1>2, <2>1, <2>2, <3>2
    <3>3. CASE i \in (lf + 1)..(lf + n)
      <4>1. i - lf \in 1..n /\ lf + (i - lf) = i
        BY <1>2, <1>5, <3>3
      <4> QED BY <1>7, <2>1, <2>2, <4>1
    <3>4. CASE i = end
      <4>1. Len(h) + 2 + n = end
        BY <1>2, <1>3, <1>5, <1>6
      <4> QED BY <1>1, <2>1, <3>4, <4>1
    <3> QED BY <1>2, <1>5, <1>6, <3>1, <3>2, <3>3, <3>4
  <2> DEFINE c == frame \o r
  <2>4. /\ c \in Seq(Bytes) /\ Len(c) = end + Len(r)
        /\ \A i \in 1..end : c[i] = frame[i]
        /\ \A i \in 1..Len(r) : c[end + i] = r[i]
    <3>1. frame \in Seq(Bytes) /\ r \in Seq(Bytes)
      BY <1>9, <2>1
    <3>2. /\ c \in Seq(Bytes) /\ Len(c) = Len(frame) + Len(r)
          /\ \A i \in 1..Len(frame) : c[i] = frame[i]
          /\ \A i \in 1..Len(r) : c[Len(frame) + i] = r[i]
      BY <3>1, ConcatShape
    <3> HIDE DEF c
    <3> QED BY <2>2, <3>2
  <2> HIDE DEF c
  <2>5. Len(c) = Len(b)
    BY <1>2, <1>6, <1>9, <2>4
  <2>6. ASSUME NEW i \in 1..Len(c)
        PROVE  c[i] = b[i]
    <3>1. CASE i \in 1..end
      BY <2>3, <2>4, <3>1
    <3>2. CASE i \in (end + 1)..Len(b)
      <4>1. i - end \in 1..Len(r) /\ end + (i - end) = i
        BY <1>2, <1>6, <1>9, <3>2
      <4> QED BY <1>9, <2>4, <4>1
    <3> QED BY <1>2, <1>6, <2>5, <3>1, <3>2
  <2>7. c = b
    BY <2>4, <2>5, <2>6, SeqEqual
  <2> QED BY <2>7 DEF c, frame
<1> QED BY <1>1, <1>8, <1>9, <1>10 DEF d, r

-----------------------------------------------------------------------------
(* The stream of some documents, and the documents of a stream. *)

LEMMA EncodeAllLoop ==
  ASSUME NEW s \in Seq(Payloads)
  PROVE  \E f \in [0..Len(s) -> Seq(Bytes)] :
           /\ f[0] = <<>>
           /\ \A i \in 1..Len(s) : f[i] = f[i - 1] \o EncodeFrame(s[i])
           /\ EncodeAll(s) = f[Len(s)]
<1> DEFINE n == Len(s)
           body == [i \in 1..n |-> [v \in Seq(Bytes) |-> v \o EncodeFrame(s[i])]]
           f == CHOOSE f : f = [i \in 0..n |-> IF i = 0 THEN <<>> ELSE f[i - 1] \o EncodeFrame(s[i])]
<1>0. n \in Nat /\ \A i \in 1..n : EncodeFrame(s[i]) \in Seq(Bytes)
  <2>1. n \in Nat /\ \A i \in 1..n : s[i] \in Payloads
    OBVIOUS
  <2>2. ASSUME NEW i \in 1..n
        PROVE  EncodeFrame(s[i]) \in Seq(Bytes)
    <3>1. s[i] \in Payloads
      BY <2>1
    <3> QED BY <3>1, FrameShape
  <2> QED BY <2>1, <2>2
<1> HIDE DEF n
<1>1. body \in [1..n -> [Seq(Bytes) -> Seq(Bytes)]]
  <2>1. ASSUME NEW i \in 1..n, NEW v \in Seq(Bytes) PROVE v \o EncodeFrame(s[i]) \in Seq(Bytes)
    BY <1>0
  <2> QED BY <2>1
<1>2. PICK g \in [0..n -> Seq(Bytes)] : g[0] = <<>> /\ \A i \in 1..n : g[i] = body[i][g[i - 1]]
  <2> HIDE DEF body
  <2>0. <<>> \in Seq(Bytes)
    OBVIOUS
  <2>1. HasLoop(n, Seq(Bytes), <<>>, body)
    BY <1>0, <1>1, <2>0, LoopExists
  <2> QED BY <2>1 DEF HasLoop
<1>3. \A i \in 1..n : g[i] = g[i - 1] \o EncodeFrame(s[i])
  <2> SUFFICES ASSUME NEW i \in 1..n PROVE g[i] = g[i - 1] \o EncodeFrame(s[i])
    OBVIOUS
  <2>1. g[i - 1] \in Seq(Bytes)
    <3>1. i - 1 \in 0..n
      BY <1>0
    <3> QED BY <1>2, <3>1
  <2>2. body[i][g[i - 1]] = g[i - 1] \o EncodeFrame(s[i])
    BY <2>1
  <2> HIDE DEF body
  <2> QED BY <1>2, <2>2
<1> HIDE DEF body
<1>4. g = [i \in 0..n |-> IF i = 0 THEN <<>> ELSE g[i - 1] \o EncodeFrame(s[i])]
  <2>1. \A i \in 0..n : i # 0 => i \in 1..n
    BY <1>0
  <2>2. \A i \in 0..n : g[i] = IF i = 0 THEN <<>> ELSE g[i - 1] \o EncodeFrame(s[i])
    BY <1>2, <1>3, <2>1
  <2> QED BY <1>2, <2>2
<1>5. f = [i \in 0..n |-> IF i = 0 THEN <<>> ELSE f[i - 1] \o EncodeFrame(s[i])]
  BY <1>4
<1>6. EncodeAll(s) = f[n]
  BY DEF EncodeAll, n
<1> HIDE DEF f
<1>7. f[0] = <<>> /\ \A i \in 1..n : f[i] = f[i - 1] \o EncodeFrame(s[i])
  <2>1. 0 \in 0..n /\ \A i \in 1..n : i \in 0..n /\ i # 0
    BY <1>0
  <2> QED BY <1>5, <2>1
<1>8. f[n] = g[n]
  <2>1. f[0] = g[0] /\ n \in Nat
    BY <1>0, <1>2, <1>7
  <2>2. \A i \in 1..n : f[i - 1] = g[i - 1] => f[i] = g[i]
    BY <1>3, <1>7
  <2> QED BY <2>1, <2>2, LoopsAgree, Zenon
<1> QED BY <1>2, <1>3, <1>6, <1>8 DEF n

LEMMA EncodeAllStep ==
  /\ EncodeAll(<<>>) = <<>>
  /\ \A s \in Seq(Payloads) : EncodeAll(s) \in Seq(Bytes)
  /\ \A s \in Seq(Payloads), d \in Payloads :
       EncodeAll(Append(s, d)) = EncodeAll(s) \o EncodeFrame(d)
<1>1. EncodeAll(<<>>) = <<>>
  <2>1. <<>> \in Seq(Payloads) /\ Len(<<>>) = 0
    OBVIOUS
  <2> QED BY <2>1, EncodeAllLoop
<1>2. ASSUME NEW s \in Seq(Payloads)
      PROVE  EncodeAll(s) \in Seq(Bytes)
  <2>1. Len(s) \in 0..Len(s)
    OBVIOUS
  <2> QED BY <2>1, EncodeAllLoop
<1>3. ASSUME NEW s \in Seq(Payloads), NEW d \in Payloads
      PROVE  EncodeAll(Append(s, d)) = EncodeAll(s) \o EncodeFrame(d)
  <2> DEFINE t == Append(s, d)
             n == Len(s)
  <2>1. /\ t \in Seq(Payloads) /\ Len(t) = n + 1 /\ n \in Nat /\ t[n + 1] = d
        /\ \A i \in 1..n : t[i] = s[i]
    BY AppendProperties
  <2> HIDE DEF t, n
  <2>2. PICK f \in [0..n -> Seq(Bytes)] :
          /\ f[0] = <<>>
          /\ \A i \in 1..n : f[i] = f[i - 1] \o EncodeFrame(s[i])
          /\ EncodeAll(s) = f[n]
    BY EncodeAllLoop DEF n
  <2>3. PICK g \in [0..(n + 1) -> Seq(Bytes)] :
          /\ g[0] = <<>>
          /\ \A i \in 1..(n + 1) : g[i] = g[i - 1] \o EncodeFrame(t[i])
          /\ EncodeAll(t) = g[n + 1]
    BY <2>1, EncodeAllLoop
  <2>4. \A i \in 1..n : i \in 1..(n + 1)
    BY <2>1
  <2>5. \A i \in 1..n : f[i - 1] = g[i - 1] => f[i] = g[i]
    BY <2>1, <2>2, <2>3, <2>4
  <2>6. f[n] = g[n]
    <3>1. n \in Nat /\ f[0] = g[0]
      BY <2>1, <2>2, <2>3
    <3> QED BY <2>5, <3>1, LoopsAgree, Zenon
  <2>7. g[n + 1] = g[n] \o EncodeFrame(d)
    <3>1. (n + 1) - 1 = n /\ n + 1 \in 1..(n + 1)
      BY <2>1
    <3> QED BY <2>1, <2>3, <3>1
  <2> QED BY <2>2, <2>3, <2>6, <2>7 DEF t
<1> QED BY <1>1, <1>2, <1>3

\* The stream of some documents and those behind them.
LEMMA EncodeAllConcat ==
  ASSUME NEW s \in Seq(Payloads), NEW w \in Seq(Payloads)
  PROVE  EncodeAll(s \o w) = EncodeAll(s) \o EncodeAll(w)
<1> DEFINE S == {n \in Nat : \A t \in Seq(Payloads) : Len(t) = n =>
                   EncodeAll(s \o t) = EncodeAll(s) \o EncodeAll(t)}
<1>0. EncodeAll(s) \in Seq(Bytes)
  BY EncodeAllStep
<1>1. 0 \in S
  <2> SUFFICES ASSUME NEW t \in Seq(Payloads), Len(t) = 0
               PROVE  EncodeAll(s \o t) = EncodeAll(s) \o EncodeAll(t)
    OBVIOUS
  <2>1. t = <<>> /\ s \o t = s
    OBVIOUS
  <2>2. EncodeAll(s) \o <<>> = EncodeAll(s)
    BY <1>0, ConcatEmptySeq
  <2> QED BY <2>1, <2>2, EncodeAllStep
<1>2. ASSUME NEW n \in Nat, n \in S
      PROVE  n + 1 \in S
  <2> SUFFICES ASSUME NEW t \in Seq(Payloads), Len(t) = n + 1
               PROVE  EncodeAll(s \o t) = EncodeAll(s) \o EncodeAll(t)
    OBVIOUS
  <2>1. PICK u \in Seq(Payloads), e \in Payloads : t = Append(u, e)
    <3>1. t # <<>>
      OBVIOUS
    <3> QED BY <3>1, SequenceEmptyOrAppend
  <2>2. Len(u) = n
    BY <2>1, AppendProperties
  <2>3. EncodeAll(s \o u) = EncodeAll(s) \o EncodeAll(u)
    BY <1>2, <2>2
  <2>4. s \o t = Append(s \o u, e) /\ s \o u \in Seq(Payloads)
    <3>1. t = u \o <<e>> /\ <<e>> \in Seq(Payloads) /\ s \o u \in Seq(Payloads)
      BY <2>1, AppendIsConcat
    <3>2. Append(s \o u, e) = (s \o u) \o <<e>>
      BY <3>1, AppendIsConcat
    <3>3. (s \o u) \o <<e>> = s \o (u \o <<e>>)
      <4>1. Associates(s, u, <<e>>)
        BY <3>1, JoinsAssociate
      <4> QED BY <4>1 DEF Associates
    <3> QED BY <3>1, <3>2, <3>3
  <2>5. EncodeAll(s \o t) = (EncodeAll(s) \o EncodeAll(u)) \o EncodeFrame(e)
    BY <2>3, <2>4, EncodeAllStep
  <2>6. EncodeAll(t) = EncodeAll(u) \o EncodeFrame(e)
    BY <2>1, EncodeAllStep
  <2>7. EncodeAll(u) \in Seq(Bytes) /\ EncodeFrame(e) \in Seq(Bytes)
    BY EncodeAllStep, FrameShape
  <2>8. (EncodeAll(s) \o EncodeAll(u)) \o EncodeFrame(e) = EncodeAll(s) \o (EncodeAll(u) \o EncodeFrame(e))
    <3>1. Associates(EncodeAll(s), EncodeAll(u), EncodeFrame(e))
      BY <1>0, <2>7, JoinsAssociate
    <3> QED BY <3>1 DEF Associates
  <2> QED BY <2>5, <2>6, <2>8
<1> HIDE DEF S
<1>3. Nat \subseteq S
  BY <1>1, <1>2, SetInduction
<1>4. Len(w) \in Nat
  OBVIOUS
<1> QED BY <1>3, <1>4 DEF S

LEMMA EncodeAllOne ==
  ASSUME NEW d \in Payloads
  PROVE  EncodeAll(<<d>>) = EncodeFrame(d)
<1>1. <<d>> = Append(<<>>, d) /\ <<>> \in Seq(Payloads)
  OBVIOUS
<1>2. EncodeFrame(d) \in Seq(Bytes)
  BY FrameShape
<1>3. EncodeAll(Append(<<>>, d)) = <<>> \o EncodeFrame(d)
  BY <1>1, EncodeAllStep
<1>4. <<>> \o EncodeFrame(d) = EncodeFrame(d)
  BY <1>2, ConcatEmptySeq
<1> QED BY <1>1, <1>3, <1>4

\* A frame is three bytes at least: its length, and two line feeds.
LEMMA EncodeAllLong ==
  ASSUME NEW w \in Seq(Payloads)
  PROVE  Len(EncodeAll(w)) >= 3 * Len(w)
<1> DEFINE S == {n \in Nat : \A t \in Seq(Payloads) : Len(t) = n => Len(EncodeAll(t)) >= 3 * n}
<1>1. 0 \in S
  <2> SUFFICES ASSUME NEW t \in Seq(Payloads) PROVE Len(EncodeAll(t)) >= 3 * 0
    OBVIOUS
  <2>1. EncodeAll(t) \in Seq(Bytes)
    BY EncodeAllStep
  <2>2. Len(EncodeAll(t)) \in Nat
    BY <2>1
  <2> QED BY <2>2
<1>2. ASSUME NEW n \in Nat, n \in S
      PROVE  n + 1 \in S
  <2> SUFFICES ASSUME NEW t \in Seq(Payloads), Len(t) = n + 1
               PROVE  Len(EncodeAll(t)) >= 3 * (n + 1)
    OBVIOUS
  <2>1. PICK u \in Seq(Payloads), e \in Payloads : t = Append(u, e)
    <3>1. t # <<>>
      OBVIOUS
    <3> QED BY <3>1, SequenceEmptyOrAppend
  <2>2. Len(u) = n
    BY <2>1, AppendProperties
  <2>3. Len(EncodeAll(u)) >= 3 * n
    BY <1>2, <2>2
  <2>4. EncodeAll(t) = EncodeAll(u) \o EncodeFrame(e) /\ EncodeAll(u) \in Seq(Bytes)
    BY <2>1, EncodeAllStep
  <2>5. EncodeFrame(e) \in Seq(Bytes) /\ Len(EncodeFrame(e)) >= 3
    <3>1. /\ Len(Decimal(Len(e))) \in 1..MaxLengthDigits /\ e \in Seq(Bytes)
          /\ EncodeFrame(e) \in Seq(Bytes)
          /\ Len(EncodeFrame(e)) = Len(Decimal(Len(e))) + 2 + Len(e)
      BY FrameShape
    <3>2. Len(e) \in Nat
      BY <3>1
    <3> QED BY <3>1, <3>2, FramingAssumption
  <2>6. /\ Len(EncodeAll(t)) = Len(EncodeAll(u)) + Len(EncodeFrame(e))
        /\ Len(EncodeAll(u)) \in Nat /\ Len(EncodeFrame(e)) \in Nat
    BY <2>4, <2>5
  <2> QED BY <2>3, <2>5, <2>6
<1> HIDE DEF S
<1>3. Nat \subseteq S
  BY <1>1, <1>2, SetInduction
<1>4. Len(w) \in Nat
  OBVIOUS
<1> QED BY <1>3, <1>4 DEF S

\* What a round of the loop does: nothing, take a frame, or fail.
LEMMA TakeNextIs ==
  ASSUME NEW t \in Taken
  PROVE  /\ TakeNext(t) \in Taken
         /\ \/ TakeFrame(t.rest) = NeedMore /\ TakeNext(t) = t
            \/ /\ TakeFrame(t.rest) = Violation
               /\ TakeNext(t).failed /\ TakeNext(t).documents = <<>> /\ TakeNext(t).rest = <<>>
            \/ \E d \in Payloads, r \in Seq(Bytes) :
                 /\ t.rest = EncodeFrame(d) \o r
                 /\ TakeNext(t).documents = Append(t.documents, d)
                 /\ TakeNext(t).rest = r
                 /\ TakeNext(t).failed = t.failed
<1>0. t.rest \in Seq(Bytes) /\ t.documents \in Seq(Payloads) /\ t.failed \in BOOLEAN
  BY DEF Taken
<1>1. CASE TakeFrame(t.rest) = NeedMore
  <2>1. TakeNext(t) = t
    BY <1>1 DEF TakeNext, NeedMore
  <2> QED BY <1>1, <2>1
<1>2. CASE TakeFrame(t.rest) = Violation
  <2>1. TakeNext(t) = [documents |-> <<>>, rest |-> <<>>, failed |-> TRUE]
    BY <1>2 DEF TakeNext, Violation
  <2>2. TakeNext(t) \in Taken
    BY <2>1 DEF Taken
  <2> QED BY <1>2, <2>1, <2>2
<1>3. CASE TakeFrame(t.rest) # NeedMore /\ TakeFrame(t.rest) # Violation
  <2>1. PICK d \in Payloads, r \in Seq(Bytes) :
          t.rest = EncodeFrame(d) \o r /\ TakeFrame(t.rest) = Frame(d, r)
    BY <1>0, <1>3, TakeFrameIs
  <2>2. TakeNext(t) = [t EXCEPT !.documents = Append(t.documents, d), !.rest = r]
    BY <2>1 DEF TakeNext, Frame
  <2>3. t = [documents |-> t.documents, rest |-> t.rest, failed |-> t.failed]
    BY DEF Taken
  <2>4. TakeNext(t) = [documents |-> Append(t.documents, d), rest |-> r, failed |-> t.failed]
    BY <2>2, <2>3
  <2>5. Append(t.documents, d) \in Seq(Payloads)
    BY <1>0
  <2>6. TakeNext(t) \in Taken
    BY <1>0, <2>4, <2>5 DEF Taken
  <2>7. /\ TakeNext(t).documents = Append(t.documents, d)
        /\ TakeNext(t).rest = r
        /\ TakeNext(t).failed = t.failed
    BY <2>4
  <2> HIDE DEF Taken
  <2> QED BY <2>1, <2>6, <2>7
<1> QED BY <1>1, <1>2, <1>3

PushBase(b) == [documents |-> <<>>, rest |-> b, failed |-> FALSE]

\* The drains of ever more rounds.
LEMMA PushLoop ==
  ASSUME NEW b \in Seq(Bytes)
  PROVE  \E f \in [0..Len(b) -> [Taken -> Taken]] :
           /\ \A t \in Taken : f[0][t] = t
           /\ \A i \in 1..Len(b), t \in Taken : f[i][t] = f[i - 1][TakeNext(t)]
           /\ PushBase(b) \in Taken /\ Push(b) = f[Len(b)][PushBase(b)]
<1> DEFINE n == Len(b)
           T == [Taken -> Taken]
           base == [t \in Taken |-> t]
           body == [i \in 1..n |-> [v \in T |-> [t \in Taken |-> v[TakeNext(t)]]]]
           f == CHOOSE f : f = [i \in 0..n |->
                  [t \in Taken |-> IF i = 0 THEN t ELSE f[i - 1][TakeNext(t)]]]
<1>0. n \in Nat /\ PushBase(b) \in Taken
  <2>1. <<>> \in Seq(Payloads)
    OBVIOUS
  <2> QED BY <2>1 DEF PushBase, Taken
<1>a. \A t \in Taken : TakeNext(t) \in Taken
  BY TakeNextIs
<1> HIDE DEF n
<1>1. base \in T /\ body \in [1..n -> [T -> T]]
  BY <1>a
<1>2. PICK g \in [0..n -> T] : g[0] = base /\ \A i \in 1..n : g[i] = body[i][g[i - 1]]
  <2> HIDE DEF body, base, T
  <2>1. HasLoop(n, T, base, body)
    BY <1>0, <1>1, LoopExists
  <2> QED BY <2>1 DEF HasLoop
<1>3. \A i \in 1..n : g[i] = [t \in Taken |-> g[i - 1][TakeNext(t)]]
  <2> SUFFICES ASSUME NEW i \in 1..n PROVE g[i] = [t \in Taken |-> g[i - 1][TakeNext(t)]]
    OBVIOUS
  <2>1. g[i - 1] \in T
    <3>1. i - 1 \in 0..n
      BY <1>0
    <3> HIDE DEF T
    <3> QED BY <1>2, <3>1
  <2>2. body[i][g[i - 1]] = [t \in Taken |-> g[i - 1][TakeNext(t)]]
    BY <2>1
  <2> HIDE DEF body
  <2> QED BY <1>2, <2>2
<1> HIDE DEF body
<1>4. g = [i \in 0..n |-> [t \in Taken |-> IF i = 0 THEN t ELSE g[i - 1][TakeNext(t)]]]
  <2>1. \A i \in 0..n : i # 0 => i \in 1..n
    BY <1>0
  <2>2. ASSUME NEW i \in 0..n
        PROVE  g[i] = [t \in Taken |-> IF i = 0 THEN t ELSE g[i - 1][TakeNext(t)]]
    <3>1. CASE i = 0
      <4>1. g[i] = [t \in Taken |-> t]
        BY <1>2, <3>1
      <4>2. [t \in Taken |-> t] = [t \in Taken |-> IF i = 0 THEN t ELSE g[i - 1][TakeNext(t)]]
        BY <3>1
      <4> QED BY <4>1, <4>2
    <3>2. CASE i # 0
      <4>1. g[i] = [t \in Taken |-> g[i - 1][TakeNext(t)]]
        BY <1>3, <2>1, <3>2
      <4>2. [t \in Taken |-> g[i - 1][TakeNext(t)]]
              = [t \in Taken |-> IF i = 0 THEN t ELSE g[i - 1][TakeNext(t)]]
        BY <3>2
      <4> QED BY <4>1, <4>2
    <3> QED BY <3>1, <3>2
  <2> QED BY <1>2, <2>2
<1>5. f = [i \in 0..n |-> [t \in Taken |-> IF i = 0 THEN t ELSE f[i - 1][TakeNext(t)]]]
  BY <1>4
<1>6. Push(b) = f[n][PushBase(b)]
  BY DEF Push, PushBase, n
<1> HIDE DEF f
<1>7. f[0] = base /\ \A i \in 1..n : f[i] = [t \in Taken |-> f[i - 1][TakeNext(t)]]
  <2>1. 0 \in 0..n /\ \A i \in 1..n : i \in 0..n /\ i # 0
    BY <1>0
  <2>2. f[0] = [t \in Taken |-> t]
    BY <1>5, <2>1
  <2>3. ASSUME NEW i \in 1..n
        PROVE  f[i] = [t \in Taken |-> f[i - 1][TakeNext(t)]]
    BY <1>5, <2>1
  <2> QED BY <2>2, <2>3
<1>8. f[n] = g[n]
  <2>1. f[0] = g[0] /\ n \in Nat
    BY <1>0, <1>2, <1>7
  <2>2. ASSUME NEW i \in 1..n, f[i - 1] = g[i - 1]
        PROVE  f[i] = g[i]
    <3>1. f[i] = [t \in Taken |-> f[i - 1][TakeNext(t)]] /\ g[i] = [t \in Taken |-> g[i - 1][TakeNext(t)]]
      BY <1>3, <1>7
    <3> QED BY <2>2, <3>1
  <2>3. \A i \in 1..n : f[i - 1] = g[i - 1] => f[i] = g[i]
    BY <2>2
  <2> QED BY <2>1, <2>3, LoopsAgree, Zenon
<1>9. \A t \in Taken : g[0][t] = t
  <2>1. g[0] = [t \in Taken |-> t]
    BY <1>2
  <2> QED BY <2>1
<1>10. ASSUME NEW i \in 1..n, NEW t \in Taken
       PROVE  g[i][t] = g[i - 1][TakeNext(t)]
  <2>1. g[i] = [u \in Taken |-> g[i - 1][TakeNext(u)]]
    BY <1>3
  <2> QED BY <2>1
<1> QED BY <1>0, <1>2, <1>6, <1>8, <1>9, <1>10 DEF n

\* Where taking leads: the frames taken and the rest are the bytes there were, and
\* what fails has met a place where no frame is.
TakenFrom(b, t) ==
  /\ t \in Taken
  /\ ~t.failed => b = EncodeAll(t.documents) \o t.rest
  /\ t.failed =>
       /\ t.documents = <<>> /\ t.rest = <<>>
       /\ \E more \in Seq(Payloads), rest \in Seq(Bytes) :
            b = EncodeAll(more) \o rest /\ TakeFrame(rest) = Violation

LEMMA TakeNextKeeps ==
  ASSUME NEW b \in Seq(Bytes), NEW t, TakenFrom(b, t)
  PROVE  /\ TakenFrom(b, TakeNext(t))
         /\ \/ TakeFrame(t.rest) = NeedMore /\ TakeNext(t) = t
            \/ TakeFrame(TakeNext(t).rest) = NeedMore
            \/ Len(TakeNext(t).rest) < Len(t.rest)
<1> DEFINE u == TakeNext(t)
<1>0. t \in Taken /\ u \in Taken
  BY TakeNextIs DEF TakenFrom
<1>a. /\ t.rest \in Seq(Bytes) /\ t.documents \in Seq(Payloads) /\ t.failed \in BOOLEAN
      /\ u.rest \in Seq(Bytes) /\ u.documents \in Seq(Payloads)
  BY <1>0 DEF Taken
<1>1. CASE TakeFrame(t.rest) = NeedMore /\ u = t
  BY <1>1
<1>2. CASE TakeFrame(t.rest) = Violation /\ u.failed /\ u.documents = <<>> /\ u.rest = <<>>
  <2>1. ~t.failed
    <3>1. TakeFrame(<<>>) # Violation
      BY TakesNothing DEF NeedMore, Violation
    <3> QED BY <1>2, <3>1 DEF TakenFrom
  <2>2. b = EncodeAll(t.documents) \o t.rest
    BY <2>1 DEF TakenFrom
  <2>3. TakeFrame(u.rest) = NeedMore
    BY <1>2, TakesNothing
  <2>4. TakenFrom(b, u)
    BY <1>0, <1>a, <1>2, <2>2 DEF TakenFrom
  <2> QED BY <2>3, <2>4
<1>3. ASSUME NEW d \in Payloads, NEW r \in Seq(Bytes), t.rest = EncodeFrame(d) \o r,
             u.documents = Append(t.documents, d), u.rest = r, u.failed = t.failed
      PROVE  TakenFrom(b, u) /\ Len(u.rest) < Len(t.rest)
  <2>1. EncodeFrame(d) \in Seq(Bytes) /\ Len(EncodeFrame(d)) >= 1
    <3>1. /\ Len(Decimal(Len(d))) \in 1..MaxLengthDigits /\ d \in Seq(Bytes)
          /\ EncodeFrame(d) \in Seq(Bytes)
          /\ Len(EncodeFrame(d)) = Len(Decimal(Len(d))) + 2 + Len(d)
      BY FrameShape
    <3>2. Len(d) \in Nat
      BY <3>1
    <3> QED BY <3>1, <3>2, FramingAssumption
  <2>2. Len(u.rest) < Len(t.rest)
    <3>1. Len(t.rest) = Len(EncodeFrame(d)) + Len(r)
      BY <1>3, <2>1
    <3>2. Len(r) \in Nat /\ Len(EncodeFrame(d)) \in Nat
      BY <2>1
    <3> QED BY <1>3, <2>1, <3>1, <3>2
  <2>3. ~t.failed
    <3>1. SUFFICES ASSUME t.failed PROVE FALSE
      BY <1>a
    <3>2. t.rest = <<>> /\ EncodeFrame(d) # <<>>
      BY <2>1, <3>1 DEF TakenFrom
    <3>3. EncodeFrame(d) \o r # <<>>
      BY <2>1, <3>2, ConcatEqualIffEmpty
    <3> QED BY <1>3, <3>2, <3>3
  <2>4. b = EncodeAll(t.documents) \o (EncodeFrame(d) \o r)
    BY <1>3, <2>3 DEF TakenFrom
  <2>5. EncodeAll(t.documents) \in Seq(Bytes)
    BY <1>a, EncodeAllStep
  <2>6. EncodeAll(t.documents) \o (EncodeFrame(d) \o r) = (EncodeAll(t.documents) \o EncodeFrame(d)) \o r
    <3>1. EncodeFrame(d) \in Seq(Bytes)
      BY <2>1
    <3> DEFINE x == EncodeAll(t.documents)
               y == EncodeFrame(d)
    <3>2. x \in Seq(Bytes) /\ y \in Seq(Bytes)
      BY <2>5, <3>1
    <3> HIDE DEF x, y
    <3>3. (x \o y) \o r = x \o (y \o r)
      <4>1. Associates(x, y, r)
        BY <3>2, JoinsAssociate
      <4> QED BY <4>1 DEF Associates
    <3> QED BY <3>3 DEF x, y
  <2>7. EncodeAll(u.documents) = EncodeAll(t.documents) \o EncodeFrame(d)
    BY <1>3, <1>a, EncodeAllStep
  <2>8. b = EncodeAll(u.documents) \o u.rest
    BY <1>3, <2>4, <2>6, <2>7
  <2> HIDE DEF u
  <2> QED BY <1>0, <1>3, <2>2, <2>3, <2>8 DEF TakenFrom
<1>4. \/ TakeFrame(t.rest) = NeedMore /\ u = t
      \/ TakeFrame(t.rest) = Violation /\ u.failed /\ u.documents = <<>> /\ u.rest = <<>>
      \/ \E d \in Payloads, r \in Seq(Bytes) :
           /\ t.rest = EncodeFrame(d) \o r
           /\ u.documents = Append(t.documents, d)
           /\ u.rest = r
           /\ u.failed = t.failed
  BY <1>0, TakeNextIs
<1> HIDE DEF u
<1>5. /\ TakenFrom(b, u)
      /\ \/ TakeFrame(t.rest) = NeedMore /\ u = t
         \/ TakeFrame(u.rest) = NeedMore
         \/ Len(u.rest) < Len(t.rest)
  <2>1. CASE TakeFrame(t.rest) = NeedMore /\ u = t
    BY <2>1
  <2>2. CASE TakeFrame(t.rest) = Violation /\ u.failed /\ u.documents = <<>> /\ u.rest = <<>>
    BY <1>2, <2>2 DEF u
  <2>3. CASE \E d \in Payloads, r \in Seq(Bytes) :
               /\ t.rest = EncodeFrame(d) \o r
               /\ u.documents = Append(t.documents, d)
               /\ u.rest = r
               /\ u.failed = t.failed
    BY <1>3, <2>3
  <2> QED BY <1>4, <2>1, <2>2, <2>3
<1> QED BY <1>5 DEF u

\* Enough rounds leave nothing to take.
Drains(b, drain, rounds) ==
  \A t \in Taken :
    TakenFrom(b, t) /\ (TakeFrame(t.rest) = NeedMore \/ Len(t.rest) <= rounds) =>
      TakenFrom(b, drain[t]) /\ TakeFrame(drain[t].rest) = NeedMore

LEMMA TakeNextShortens ==
  ASSUME NEW b \in Seq(Bytes), NEW t \in Taken, TakenFrom(b, t), NEW i \in Nat,
         TakeFrame(t.rest) = NeedMore \/ Len(t.rest) <= i + 1
  PROVE  /\ TakeNext(t) \in Taken /\ TakenFrom(b, TakeNext(t))
         /\ TakeFrame(TakeNext(t).rest) = NeedMore \/ Len(TakeNext(t).rest) <= i
<1> DEFINE u == TakeNext(t)
<1>1. /\ TakenFrom(b, u)
      /\ \/ TakeFrame(t.rest) = NeedMore /\ u = t
         \/ TakeFrame(u.rest) = NeedMore
         \/ Len(u.rest) < Len(t.rest)
  BY TakeNextKeeps
<1>2. TakeFrame(t.rest) = NeedMore => u = t
  BY DEF TakeNext, NeedMore
<1> HIDE DEF u
<1>3. u \in Taken /\ Len(u.rest) \in Nat /\ Len(t.rest) \in Nat
  BY <1>1 DEF TakenFrom, Taken
<1> DEFINE shorter == Len(u.rest)
           longer == Len(t.rest)
<1>4. shorter \in Nat /\ longer \in Nat
  BY <1>3
<1>5. longer <= i + 1 /\ shorter < longer => shorter <= i
  <2> HIDE DEF shorter, longer
  <2> QED BY <1>4
<1>6. CASE TakeFrame(t.rest) = NeedMore
  BY <1>1, <1>2, <1>3, <1>6 DEF u
<1>7. CASE Len(t.rest) <= i + 1
  BY <1>1, <1>2, <1>3, <1>5, <1>7 DEF u
<1> QED BY <1>6, <1>7

\* What push gives: every frame that was complete, and nothing that is not one.
LEMMA PushIs ==
  ASSUME NEW b \in Seq(Bytes)
  PROVE  TakenFrom(b, Push(b)) /\ TakeFrame(Push(b).rest) = NeedMore
<1> DEFINE n == Len(b)
<1>0. n \in Nat
  OBVIOUS
<1>1. PICK f \in [0..n -> [Taken -> Taken]] :
        /\ \A t \in Taken : f[0][t] = t
        /\ \A i \in 1..n, t \in Taken : f[i][t] = f[i - 1][TakeNext(t)]
        /\ PushBase(b) \in Taken /\ Push(b) = f[n][PushBase(b)]
  BY PushLoop
<1> DEFINE S == {i \in 0..n : Drains(b, f[i], i)}
<1> HIDE DEF n
<1>2. 0 \in S
  <2>1. ASSUME NEW t \in Taken, TakenFrom(b, t), TakeFrame(t.rest) = NeedMore \/ Len(t.rest) <= 0
        PROVE  TakenFrom(b, f[0][t]) /\ TakeFrame(f[0][t].rest) = NeedMore
    <3>1. f[0][t] = t /\ t.rest \in Seq(Bytes)
      BY <1>1 DEF Taken
    <3>2. CASE Len(t.rest) <= 0
      <4>1. t.rest = <<>>
        BY <3>1, <3>2
      <4> QED BY <2>1, <3>1, <4>1, TakesNothing
    <3> QED BY <2>1, <3>1, <3>2
  <2>2. 0 \in 0..n
    BY <1>0
  <2> QED BY <2>1, <2>2 DEF Drains
<1>3. ASSUME NEW i \in 0..(n - 1), i \in S
      PROVE  i + 1 \in S
  <2>1. i + 1 \in 1..n /\ i + 1 \in 0..n /\ (i + 1) - 1 = i /\ i \in Nat
    BY <1>0
  <2>2. ASSUME NEW t \in Taken, TakenFrom(b, t), TakeFrame(t.rest) = NeedMore \/ Len(t.rest) <= i + 1
        PROVE  TakenFrom(b, f[i + 1][t]) /\ TakeFrame(f[i + 1][t].rest) = NeedMore
    <3>1. /\ TakeNext(t) \in Taken /\ TakenFrom(b, TakeNext(t))
          /\ TakeFrame(TakeNext(t).rest) = NeedMore \/ Len(TakeNext(t).rest) <= i
      BY <2>1, <2>2, TakeNextShortens
    <3>2. f[i + 1][t] = f[i][TakeNext(t)]
      BY <1>1, <2>1
    <3>3. Drains(b, f[i], i)
      BY <1>3
    <3> QED BY <3>1, <3>2, <3>3 DEF Drains
  <2> QED BY <2>1, <2>2 DEF Drains
<1> HIDE DEF S
<1>4. Drains(b, f[n], n)
  <2>1. 0..n \subseteq S
    BY <1>0, <1>2, <1>3, UpToInduction
  <2>2. n \in 0..n
    BY <1>0
  <2> QED BY <2>1, <2>2 DEF S
<1>5. TakenFrom(b, PushBase(b)) /\ Len(PushBase(b).rest) <= n
  <2>1. PushBase(b).rest = b /\ PushBase(b).documents = <<>> /\ ~PushBase(b).failed
    BY DEF PushBase
  <2>2. b = EncodeAll(<<>>) \o b
    BY EncodeAllStep, ConcatEmptySeq
  <2>3. Len(b) <= n
    BY <1>0 DEF n
  <2> QED BY <1>1, <2>1, <2>2, <2>3 DEF TakenFrom
<1> QED BY <1>1, <1>4, <1>5 DEF Drains

-----------------------------------------------------------------------------
(* A reader of whatever stream. *)

\* A place where the decoder fails is the beginning of no frame.
LEMMA NotViable ==
  ASSUME NEW b \in Seq(Bytes), TakeFrame(b) = Violation
  PROVE  ~Viable(b)
<1> SUFFICES ASSUME NEW d \in Payloads,
                    IsPrefix(b, EncodeFrame(d)) \/ IsPrefix(EncodeFrame(d), b)
             PROVE  FALSE
  BY DEF Viable
<1> DEFINE frame == EncodeFrame(d)
<1>1. frame \in Seq(Bytes)
  BY FrameShape
<1>2. TakeFrame(b) # NeedMore /\ \A e \in Payloads, r \in Seq(Bytes) : TakeFrame(b) # Frame(e, r)
  BY DEF Violation, NeedMore, Frame
<1> HIDE DEF frame
<1>3. ASSUME NEW r \in Seq(Bytes), b = frame \o r
      PROVE  FALSE
  BY <1>2, <1>3, TakesFrame DEF frame
<1>4. CASE IsPrefix(frame, b)
  <2>1. b = frame \o SubSeq(b, Len(frame) + 1, Len(b)) /\ SubSeq(b, Len(frame) + 1, Len(b)) \in Seq(Bytes)
    BY <1>1, <1>4, PrefixIs
  <2> QED BY <1>3, <2>1
<1>5. CASE IsPrefix(b, frame)
  <2> DEFINE r == SubSeq(frame, Len(b) + 1, Len(frame))
  <2>1. frame = b \o r /\ r \in Seq(Bytes)
    BY <1>1, <1>5, PrefixIs
  <2> HIDE DEF r
  <2>2. CASE r = <<>>
    <3>1. frame = b /\ b = frame \o <<>> /\ <<>> \in Seq(Bytes)
      BY <1>1, <2>1, <2>2, ConcatEmptySeq
    <3> QED BY <1>3, <3>1
  <2>3. CASE r # <<>>
    BY <1>2, <2>1, <2>3, WaitsForFrame DEF frame
  <2> QED BY <2>2, <2>3
<1> QED BY <1>4, <1>5 DEF frame

\* The stream up to where it was read holds the frames of the documents there are
\* and what is kept, or a place where no frame is.
Reassembled ==
  status \in {"open", "ended"} =>
    /\ Received = EncodeAll(delivered \o ready) \o buffer
    /\ TakeFrame(buffer) = NeedMore
    /\ status = "ended" => ready = <<>> /\ buffer = <<>> /\ at = Len(input)
Refused ==
  status \in {"violation", "truncated"} =>
    \E more \in Seq(Payloads), rest \in Seq(Bytes) :
      /\ Received = EncodeAll(delivered \o more) \o rest
      /\ status = "truncated" => rest # <<>> /\ at = Len(input)
      /\ status = "violation" => TakeFrame(rest) = Violation
ReadInv == ReadingTypeOK /\ Reassembled /\ Refused

LEMMA ReadInitEstablishes ==
  ASSUME MaxInput \in Nat, ReadingInit
  PROVE  ReadInv
<1> USE DEF ReadingInit, ReaderInit
<1>1. ReadingTypeOK
  <2>1. PICK m \in 0..MaxInput : input \in [1..m -> Bytes]
    BY DEF BoundedSeq, SeqOf
  <2>2. input \in Seq(Bytes) /\ Len(input) <= MaxInput
    BY <2>1
  <2>3. 0 \in 0..Len(input) /\ <<>> \in Seq(Bytes) /\ <<>> \in Seq(Payloads)
    BY <2>2
  <2> QED BY <2>2, <2>3 DEF ReadingTypeOK, ReaderTypeOK
<1>2. Received = <<>>
  BY DEF Received
<1>3. EncodeAll(<<>> \o <<>>) \o <<>> = <<>>
  <2>1. <<>> \o <<>> = <<>> /\ <<>> \in Seq(Bytes)
    OBVIOUS
  <2> QED BY <2>1, EncodeAllStep
<1> QED BY <1>1, <1>2, <1>3, TakesNothing DEF ReadInv, Reassembled, Refused

LEMMA ReadChunkKeeps ==
  ASSUME MaxInput \in Nat, ReadInv, NEW size \in 1..MaxInput, NextChunk(size)
  PROVE  ReadInv'
<1> DEFINE chunk == SubSeq(input, at + 1, at + size)
           b == buffer \o chunk
           pushed == Push(b)
<1>1. /\ status = "open" /\ ready = <<>> /\ at + size <= Len(input) /\ at' = at + size
      /\ buffer' = pushed.rest /\ ready' = pushed.documents
      /\ status' = IF pushed.failed THEN "violation" ELSE "open"
      /\ delivered' = delivered /\ input' = input
  BY DEF NextChunk, Take, AsksForMore
<1>2. /\ input \in Seq(Bytes) /\ Len(input) <= MaxInput /\ at \in 0..Len(input)
      /\ buffer \in Seq(Bytes) /\ delivered \in Seq(Payloads)
      /\ Received = EncodeAll(delivered \o ready) \o buffer
  BY <1>1 DEF ReadInv, ReadingTypeOK, ReaderTypeOK, Reassembled
<1>3. at \in Nat /\ size \in Nat /\ size >= 1 /\ at' \in 0..Len(input) /\ Len(input) \in Nat
  BY <1>1, <1>2
<1>4. chunk \in Seq(Bytes) /\ Received' = Received \o chunk /\ Received \in Seq(Bytes)
  <2>1. chunk \in Seq(Bytes) /\ Received \in Seq(Bytes)
    BY <1>1, <1>2, <1>3 DEF Received
  <2>2. SubSeq(input, 1, at) \o SubSeq(input, at + 1, at + size) = SubSeq(input, 1, at + size)
    <3>1. 1 \in 1..(Len(input) + 1) /\ at \in (1 - 1)..Len(input) /\ at + size \in at..Len(input)
      BY <1>1, <1>2, <1>3
    <3> QED BY <1>2, <3>1, ConcatAdjacentSubSeq
  <2> QED BY <1>1, <2>1, <2>2 DEF Received
<1> HIDE DEF chunk
<1>5. b \in Seq(Bytes)
  BY <1>2, <1>4
<1>6. TakenFrom(b, pushed) /\ TakeFrame(pushed.rest) = NeedMore
  BY <1>5, PushIs
<1>7. Received' = EncodeAll(delivered) \o b /\ EncodeAll(delivered) \in Seq(Bytes)
  <2>1. delivered \o ready = delivered /\ EncodeAll(delivered) \in Seq(Bytes)
    BY <1>1, <1>2, EncodeAllStep
  <2>2. (EncodeAll(delivered) \o buffer) \o chunk = EncodeAll(delivered) \o (buffer \o chunk)
    <3> DEFINE x == EncodeAll(delivered)
    <3>1. x \in Seq(Bytes) /\ buffer \in Seq(Bytes) /\ chunk \in Seq(Bytes)
      BY <1>2, <1>4, <2>1
    <3> HIDE DEF x
    <3>2. (x \o buffer) \o chunk = x \o (buffer \o chunk)
      <4>1. Associates(x, buffer, chunk)
        BY <3>1, JoinsAssociate
      <4> QED BY <4>1 DEF Associates
    <3> QED BY <3>2 DEF x
  <2> QED BY <1>2, <1>4, <2>1, <2>2
<1> HIDE DEF b
<1>8. ASSUME NEW more \in Seq(Payloads), NEW rest \in Seq(Bytes), b = EncodeAll(more) \o rest
      PROVE  Received' = EncodeAll(delivered \o more) \o rest
  <2>1. EncodeAll(delivered \o more) = EncodeAll(delivered) \o EncodeAll(more)
    BY <1>2, EncodeAllConcat
  <2>2. EncodeAll(more) \in Seq(Bytes)
    BY EncodeAllStep
  <2>3. (EncodeAll(delivered) \o EncodeAll(more)) \o rest = EncodeAll(delivered) \o (EncodeAll(more) \o rest)
    <3>1. Associates(EncodeAll(delivered), EncodeAll(more), rest)
      BY <1>7, <2>2, JoinsAssociate
    <3> QED BY <3>1 DEF Associates
  <2> QED BY <1>7, <1>8, <2>1, <2>3
<1>9. pushed \in Taken
  BY <1>6 DEF TakenFrom
<1> HIDE DEF pushed
<1>10. ReadingTypeOK'
  BY <1>1, <1>2, <1>3, <1>9 DEF ReadingTypeOK, ReaderTypeOK, Taken
<1>11. CASE pushed.failed
  <2>1. status' = "violation" /\ delivered' = delivered
    BY <1>1, <1>11
  <2>2. PICK more \in Seq(Payloads), rest \in Seq(Bytes) :
          b = EncodeAll(more) \o rest /\ TakeFrame(rest) = Violation
    BY <1>6, <1>11 DEF TakenFrom
  <2>3. Received' = EncodeAll(delivered \o more) \o rest
    BY <1>8, <2>2
  <2>4. Reassembled'
    BY <2>1 DEF Reassembled
  <2>5. Refused'
    BY <2>1, <2>2, <2>3 DEF Refused
  <2> QED BY <1>10, <2>4, <2>5 DEF ReadInv
<1>12. CASE ~pushed.failed
  <2>1. status' = "open" /\ delivered' = delivered /\ buffer' = pushed.rest /\ ready' = pushed.documents
    BY <1>1, <1>12
  <2>2. b = EncodeAll(pushed.documents) \o pushed.rest
    BY <1>6, <1>12 DEF TakenFrom
  <2>3. pushed.documents \in Seq(Payloads) /\ pushed.rest \in Seq(Bytes)
    BY <1>9 DEF Taken
  <2>4. Received' = EncodeAll(delivered \o pushed.documents) \o pushed.rest
    BY <1>8, <2>2, <2>3
  <2>5. Reassembled'
    BY <1>6, <2>1, <2>4 DEF Reassembled
  <2>6. Refused'
    BY <2>1 DEF Refused
  <2> QED BY <1>10, <2>5, <2>6 DEF ReadInv
<1> QED BY <1>11, <1>12

LEMMA ReadNextKeeps ==
  ASSUME MaxInput \in Nat, ReadInv, [ReadingNext]_readingVars
  PROVE  ReadInv'
<1>0. ReadingTypeOK /\ Reassembled /\ Refused
  BY DEF ReadInv
<1>1. ASSUME ReturnReady, UNCHANGED <<input, at>>
      PROVE  ReadInv'
  <2>1. /\ status = "open" /\ ready # <<>> /\ delivered' = Append(delivered, Head(ready))
        /\ ready' = Tail(ready) /\ buffer' = buffer /\ status' = status /\ input' = input /\ at' = at
    BY <1>1 DEF ReturnReady
  <2>2. ready \in Seq(Payloads) /\ delivered \in Seq(Payloads)
    BY <1>0 DEF ReadingTypeOK, ReaderTypeOK
  <2>3. /\ Append(delivered, Head(ready)) \in Seq(Payloads) /\ Tail(ready) \in Seq(Payloads)
        /\ Append(delivered, Head(ready)) \o Tail(ready) = delivered \o ready
    BY <2>1, <2>2, MovesOver
  <2>4. ReadingTypeOK'
    BY <1>0, <2>1, <2>3 DEF ReadingTypeOK, ReaderTypeOK
  <2>5. Received' = Received
    BY <2>1 DEF Received
  <2>6. Reassembled'
    BY <1>0, <2>1, <2>3, <2>5 DEF Reassembled
  <2>7. Refused'
    BY <2>1 DEF Refused
  <2> QED BY <2>4, <2>6, <2>7 DEF ReadInv
<1>2. ASSUME NEW size \in 1..MaxInput, NextChunk(size)
      PROVE  ReadInv'
  BY <1>2, ReadChunkKeeps
<1>3. ASSUME at = Len(input), Finish, UNCHANGED <<input, at>>
      PROVE  ReadInv'
  <2>1. /\ status = "open" /\ ready = <<>>
        /\ status' = IF buffer = <<>> THEN "ended" ELSE "truncated"
        /\ buffer' = <<>> /\ ready' = ready /\ delivered' = delivered /\ input' = input /\ at' = at
    BY <1>3 DEF Finish, AsksForMore
  <2>2. ReadingTypeOK'
    <3>1. <<>> \in Seq(Bytes)
      OBVIOUS
    <3> QED BY <1>0, <2>1, <3>1 DEF ReadingTypeOK, ReaderTypeOK
  <2>3. Received' = Received /\ Received = EncodeAll(delivered \o ready) \o buffer /\ TakeFrame(buffer) = NeedMore
    BY <1>0, <2>1 DEF Received, Reassembled
  <2>4. CASE buffer = <<>>
    <3>1. status' = "ended"
      BY <2>1, <2>4
    <3>2. Reassembled'
      BY <1>3, <2>1, <2>3, <2>4, <3>1 DEF Reassembled
    <3>3. Refused'
      BY <3>1 DEF Refused
    <3> QED BY <2>2, <3>2, <3>3 DEF ReadInv
  <2>5. CASE buffer # <<>>
    <3>1. status' = "truncated"
      BY <2>1, <2>5
    <3>2. ready \in Seq(Payloads) /\ buffer \in Seq(Bytes)
      BY <1>0 DEF ReadingTypeOK, ReaderTypeOK
    <3>3. Reassembled'
      BY <3>1 DEF Reassembled
    <3>4. Refused'
      BY <1>3, <2>1, <2>3, <2>5, <3>1, <3>2 DEF Refused
    <3> QED BY <2>2, <3>3, <3>4 DEF ReadInv
  <2> QED BY <2>4, <2>5
<1>4. ASSUME Break, UNCHANGED <<input, at>>
      PROVE  ReadInv'
  <2>1. /\ status' = "broken" /\ buffer' = buffer /\ ready' = ready /\ delivered' = delivered
        /\ input' = input /\ at' = at
    BY <1>4 DEF Break
  <2> QED BY <1>0, <2>1 DEF ReadInv, ReadingTypeOK, ReaderTypeOK, Reassembled, Refused
<1>5. ASSUME UNCHANGED readingVars
      PROVE  ReadInv'
  BY <1>0, <1>5 DEF ReadInv, readingVars, reader, ReadingTypeOK, ReaderTypeOK, Reassembled, Refused, Received
<1> QED BY <1>1, <1>2, <1>3, <1>4, <1>5 DEF ReadingNext

\* The invariant says what the properties do.
LEMMA ReadInvImplies ==
  ASSUME MaxInput \in Nat, ReadInv
  PROVE  ReassemblesTheStream /\ RefusesOnlyBadStreams
<1>0. /\ input \in Seq(Bytes) /\ Len(input) <= MaxInput /\ at \in 0..Len(input)
      /\ buffer \in Seq(Bytes) /\ ready \in Seq(Payloads) /\ delivered \in Seq(Payloads)
  BY DEF ReadInv, ReadingTypeOK, ReaderTypeOK
<1>1. Received \in Seq(Bytes) /\ Len(Received) = at /\ at \in Nat /\ Len(input) \in Nat
  BY <1>0 DEF Received
<1>2. ReassemblesTheStream
  <2> SUFFICES ASSUME status \in {"open", "ended"}
               PROVE  /\ Received = EncodeAll(delivered \o ready) \o buffer
                      /\ ~\E d \in Payloads : IsPrefix(EncodeFrame(d), buffer)
                      /\ status = "ended" => input = EncodeAll(delivered)
    BY DEF ReassemblesTheStream
  <2>1. /\ Received = EncodeAll(delivered \o ready) \o buffer
        /\ TakeFrame(buffer) = NeedMore
        /\ status = "ended" => ready = <<>> /\ buffer = <<>> /\ at = Len(input)
    BY DEF ReadInv, Reassembled
  <2>2. ASSUME NEW d \in Payloads, IsPrefix(EncodeFrame(d), buffer)
        PROVE  FALSE
    <3>1. EncodeFrame(d) \in Seq(Bytes)
      BY FrameShape
    <3> DEFINE r == SubSeq(buffer, Len(EncodeFrame(d)) + 1, Len(buffer))
    <3>2. buffer = EncodeFrame(d) \o r /\ r \in Seq(Bytes)
      BY <1>0, <2>2, <3>1, PrefixIs
    <3> HIDE DEF r
    <3>3. TakeFrame(buffer) = Frame(d, r)
      BY <3>2, TakesFrame
    <3> QED BY <2>1, <3>3 DEF NeedMore, Frame
  <2>3. ASSUME status = "ended"
        PROVE  input = EncodeAll(delivered)
    <3>1. Received = input
      BY <1>0, <2>1, <2>3, SubSeqFull DEF Received
    <3>2. delivered \o ready = delivered /\ EncodeAll(delivered) \in Seq(Bytes)
      BY <1>0, <2>1, <2>3, ConcatEmptySeq, EncodeAllStep
    <3>3. EncodeAll(delivered) \o buffer = EncodeAll(delivered)
      BY <2>1, <2>3, <3>2, ConcatEmptySeq
    <3> QED BY <2>1, <3>1, <3>2, <3>3
  <2> QED BY <2>1, <2>2, <2>3
<1>3. RefusesOnlyBadStreams
  <2> SUFFICES ASSUME status \in {"violation", "truncated"}
               PROVE  \E more \in BoundedSeq(Payloads, MaxInput \div 3) :
                        LET read == EncodeAll(delivered \o more)
                            rest == SubSeq(Received, Len(read) + 1, at)
                        IN  /\ IsPrefix(read, Received)
                            /\ IF status = "truncated" THEN rest # <<>> /\ at = Len(input) ELSE ~Viable(rest)
    BY DEF RefusesOnlyBadStreams
  <2>1. PICK more \in Seq(Payloads), rest \in Seq(Bytes) :
          /\ Received = EncodeAll(delivered \o more) \o rest
          /\ status = "truncated" => rest # <<>> /\ at = Len(input)
          /\ status = "violation" => TakeFrame(rest) = Violation
    BY DEF ReadInv, Refused
  <2> DEFINE read == EncodeAll(delivered \o more)
  <2>2. /\ read \in Seq(Bytes) /\ delivered \o more \in Seq(Payloads)
        /\ Len(delivered \o more) = Len(delivered) + Len(more)
    <3>1. /\ delivered \o more \in Seq(Payloads)
          /\ Len(delivered \o more) = Len(delivered) + Len(more)
      BY <1>0
    <3> QED BY <3>1, EncodeAllStep
  <2>3. Len(read) >= 3 * (Len(delivered) + Len(more))
    BY <2>2, EncodeAllLong
  <2> HIDE DEF read
  <2>4. IsPrefix(read, Received)
    BY <2>1, <2>2, ConcatPrefix DEF read
  <2>5. Len(Received) = Len(read) + Len(rest)
    BY <2>1, <2>2 DEF read
  <2>6. Len(read) \in Nat /\ Len(rest) \in Nat /\ Len(more) \in Nat /\ Len(delivered) \in Nat
    BY <1>0, <2>2
  <2>7. Len(more) \in 0..(MaxInput \div 3)
    BY <1>0, <1>1, <2>3, <2>5, <2>6
  <2>8. more \in BoundedSeq(Payloads, MaxInput \div 3)
    <3>1. more \in [1..Len(more) -> Payloads]
      OBVIOUS
    <3> QED BY <2>7, <3>1 DEF BoundedSeq, SeqOf
  <2>9. SubSeq(Received, Len(read) + 1, at) = rest
    <3>1. read \o SubSeq(Received, Len(read) + 1, Len(Received)) = read \o rest
      BY <1>1, <2>1, <2>2, <2>4, PrefixIs DEF read
    <3>2. SubSeq(Received, Len(read) + 1, Len(Received)) \in Seq(Bytes)
      BY <1>1, <2>2, <2>4, PrefixIs
    <3>3. SubSeq(Received, Len(read) + 1, Len(Received)) = rest
      BY <2>2, <3>1, <3>2, CancelFront
    <3> QED BY <1>1, <3>3
  <2>10. IF status = "truncated" THEN rest # <<>> /\ at = Len(input) ELSE ~Viable(rest)
    BY <2>1, NotViable
  <2> QED BY <2>4, <2>8, <2>9, <2>10 DEF read
<1> QED BY <1>2, <1>3

\* framing.rs, transport.rs: a reader of whatever bytes, cut into whatever reads,
\* has at any time the documents whose frames it read and what follows them, and
\* refuses a stream only where no frame can be or where it ends inside of one.
THEOREM ReaderReadsFrames ==
  ASSUME MaxInput \in Nat
  PROVE  ReadingSpec => []ReadsTheFramesSent
<1>1. ReadingInit => ReadInv
  BY ReadInitEstablishes
<1>2. ReadInv /\ [ReadingNext]_readingVars => ReadInv'
  BY ReadNextKeeps
<1>3. ReadInv => ReadsTheFramesSent
  BY ReadInvImplies DEF ReadsTheFramesSent
<1> QED BY <1>1, <1>2, <1>3, PTL DEF ReadingSpec

-----------------------------------------------------------------------------
(* A stream has one reading: the documents in front of it are the ones sent. *)

\* The bytes of a frame that is not complete.
Partly(part) ==
  part \in Seq(Bytes) /\ \E d \in Payloads, q \in Seq(Bytes) : q # <<>> /\ part \o q = EncodeFrame(d)

\* The first document of a stream, and the stream behind it.
LEMMA EncodeAllFirst ==
  ASSUME NEW v \in Seq(Payloads), v # <<>>, NEW x \in Seq(Bytes)
  PROVE  /\ Head(v) \in Payloads /\ Tail(v) \in Seq(Payloads) /\ v = <<Head(v)>> \o Tail(v)
         /\ EncodeAll(Tail(v)) \o x \in Seq(Bytes)
         /\ EncodeAll(v) \o x = EncodeFrame(Head(v)) \o (EncodeAll(Tail(v)) \o x)
<1> DEFINE e == Head(v)
           w == Tail(v)
<1>1. e \in Payloads /\ w \in Seq(Payloads) /\ <<e>> \in Seq(Payloads)
  BY HeadTailProperties
<1>2. v = <<e>> \o w
  <2>1. <<>> \in Seq(Payloads)
    OBVIOUS
  <2>2. Append(<<>>, e) \o w = <<>> \o v
    BY <2>1, MovesOver
  <2> QED BY <1>1, <2>2, ConcatEmptySeq
<1> HIDE DEF e, w
<1>3. EncodeAll(v) = EncodeFrame(e) \o EncodeAll(w)
  BY <1>1, <1>2, EncodeAllConcat, EncodeAllOne
<1>4. EncodeFrame(e) \in Seq(Bytes) /\ EncodeAll(w) \in Seq(Bytes)
  BY <1>1, FrameShape, EncodeAllStep
<1> DEFINE f == EncodeFrame(e)
           a == EncodeAll(w)
<1>5. f \in Seq(Bytes) /\ a \in Seq(Bytes)
  BY <1>4
<1>6. EncodeAll(v) = f \o a
  BY <1>3
<1> HIDE DEF f, a
<1>7. a \o x \in Seq(Bytes)
  BY <1>5, ConcatShape
<1>8. Associates(f, a, x)
  BY <1>5, JoinsAssociate
<1> QED BY <1>1, <1>2, <1>6, <1>7, <1>8 DEF e, w, f, a, Associates

\* One frame in front tells the first document.
FirstIs(d, x, v, part) ==
  \E u \in Seq(Payloads) : v = <<d>> \o u /\ x = EncodeAll(u) \o part

LEMMA DecodesOne ==
  ASSUME NEW d \in Payloads, NEW x \in Seq(Bytes), NEW v \in Seq(Payloads), NEW part, Partly(part),
         EncodeFrame(d) \o x = EncodeAll(v) \o part
  PROVE  FirstIs(d, x, v, part)
<1>1. part \in Seq(Bytes) /\ TakeFrame(part) = NeedMore
  BY WaitsForFrame DEF Partly
<1>2. TakeFrame(EncodeAll(v) \o part) = Frame(d, x)
  BY TakesFrame
<1>3. v # <<>>
  <2> SUFFICES ASSUME v = <<>> PROVE FALSE
    OBVIOUS
  <2>1. EncodeAll(v) \o part = part
    BY <1>1, EncodeAllStep, ConcatEmptySeq
  <2>2. Frame(d, x) = NeedMore
    BY <1>1, <1>2, <2>1
  <2> QED BY <2>2 DEF NeedMore, Frame
<1> DEFINE e == Head(v)
           w == Tail(v)
           y == EncodeAll(w) \o part
<1>4. /\ e \in Payloads /\ w \in Seq(Payloads) /\ v = <<e>> \o w
      /\ y \in Seq(Bytes) /\ EncodeAll(v) \o part = EncodeFrame(e) \o y
  BY <1>1, <1>3, EncodeAllFirst
<1> HIDE DEF y
<1>5. TakeFrame(EncodeAll(v) \o part) = Frame(e, y)
  BY <1>4, TakesFrame
<1>6. d = e /\ x = y
  BY <1>2, <1>5 DEF Frame
<1> QED BY <1>4, <1>6 DEF y, FirstIs

\* Whatever has the frames of s in front and is the stream of w has s in front of w.
DecodesFront(s, w, part) ==
  \A x \in Seq(Bytes) : EncodeAll(s) \o x = EncodeAll(w) \o part =>
    \E v \in Seq(Payloads) : w = s \o v /\ x = EncodeAll(v) \o part

LEMMA Decodes ==
  ASSUME NEW w \in Seq(Payloads), NEW part, Partly(part)
  PROVE  \A s \in Seq(Payloads) : DecodesFront(s, w, part)
<1> DEFINE S == {n \in Nat : \A t \in Seq(Payloads) : Len(t) = n => DecodesFront(t, w, part)}
<1>1. 0 \in S
  <2> SUFFICES ASSUME NEW t \in Seq(Payloads), Len(t) = 0 PROVE DecodesFront(t, w, part)
    OBVIOUS
  <2>1. t = <<>>
    OBVIOUS
  <2>2. ASSUME NEW y \in Seq(Bytes), EncodeAll(t) \o y = EncodeAll(w) \o part
        PROVE  \E v \in Seq(Payloads) : w = t \o v /\ y = EncodeAll(v) \o part
    <3>1. EncodeAll(t) \o y = y
      BY <2>1, EncodeAllStep, ConcatEmptySeq
    <3>2. w = t \o w
      BY <2>1, ConcatEmptySeq
    <3> QED BY <2>2, <3>1, <3>2
  <2> QED BY <2>2 DEF DecodesFront
<1>2. ASSUME NEW n \in Nat, n \in S
      PROVE  n + 1 \in S
  <2> SUFFICES ASSUME NEW t \in Seq(Payloads), Len(t) = n + 1 PROVE DecodesFront(t, w, part)
    OBVIOUS
  <2> HIDE DEF S
  <2>1. PICK u \in Seq(Payloads), d \in Payloads : t = Append(u, d)
    <3>1. t # <<>>
      OBVIOUS
    <3> QED BY <3>1, SequenceEmptyOrAppend
  <2>2. Len(u) = n
    BY <2>1, AppendProperties
  <2>3. DecodesFront(u, w, part)
    BY <1>2, <2>2 DEF S
  <2>4. ASSUME NEW y \in Seq(Bytes), EncodeAll(t) \o y = EncodeAll(w) \o part
        PROVE  \E v \in Seq(Payloads) : w = t \o v /\ y = EncodeAll(v) \o part
    <3> DEFINE a == EncodeAll(u)
               f == EncodeFrame(d)
    <3>1. a \in Seq(Bytes) /\ f \in Seq(Bytes) /\ EncodeAll(t) = a \o f
      BY <2>1, EncodeAllStep, FrameShape
    <3>2. (a \o f) \o y = a \o (f \o y) /\ f \o y \in Seq(Bytes)
      <4>1. a \in Seq(Bytes) /\ f \in Seq(Bytes) /\ y \in Seq(Bytes)
        BY <3>1
      <4> HIDE DEF a, f
      <4>2. (a \o f) \o y = a \o (f \o y)
        <5>1. Associates(a, f, y)
          BY <4>1, JoinsAssociate
        <5> QED BY <5>1 DEF Associates
      <4>3. f \o y \in Seq(Bytes)
        BY <4>1, ConcatShape
      <4> QED BY <4>2, <4>3
    <3>3. EncodeAll(u) \o (EncodeFrame(d) \o y) = EncodeAll(w) \o part /\ EncodeFrame(d) \o y \in Seq(Bytes)
      BY <2>4, <3>1, <3>2
    <3>4. PICK v \in Seq(Payloads) : w = u \o v /\ EncodeFrame(d) \o y = EncodeAll(v) \o part
      BY <2>3, <3>3 DEF DecodesFront
    <3> HIDE DEF a, f
    <3>5. FirstIs(d, y, v, part)
      <4>1. EncodeFrame(d) \o y = EncodeAll(v) \o part
        BY <3>4
      <4> QED BY <4>1, DecodesOne
    <3> DEFINE one == <<d>>
    <3>6. PICK r \in Seq(Payloads) : v = one \o r /\ y = EncodeAll(r) \o part
      BY <3>5 DEF FirstIs
    <3>7. one \in Seq(Payloads) /\ t = u \o one
      BY <2>1, AppendIsConcat
    <3> HIDE DEF one
    <3>8. u \o (one \o r) = (u \o one) \o r
      <4>1. Associates(u, one, r)
        BY <3>7, JoinsAssociate
      <4> QED BY <4>1 DEF Associates
    <3> QED BY <3>4, <3>6, <3>7, <3>8
  <2> QED BY <2>4 DEF DecodesFront
<1> HIDE DEF S
<1>3. Nat \subseteq S
  BY <1>1, <1>2, SetInduction
<1>4. \A s \in Seq(Payloads) : Len(s) \in Nat
  OBVIOUS
<1> QED BY <1>3, <1>4 DEF S

\* A frame in front, or a part of one, is never taken for a violation.
LEMMA FrameIsFine ==
  ASSUME NEW d \in Payloads, NEW x \in Seq(Bytes), NEW y \in Seq(Bytes), NEW z \in Seq(Bytes),
         x \o y = EncodeFrame(d) \o z
  PROVE  TakeFrame(x) # Violation
<1> DEFINE f == EncodeFrame(d)
<1>0. f \in Seq(Bytes) /\ Len(f) \in Nat /\ Len(x) \in Nat /\ x \o y = f \o z
  BY FrameShape
<1>1. ASSUME NEW r \in Seq(Bytes), x = f \o r
      PROVE  TakeFrame(x) # Violation
  <2>1. TakeFrame(x) = Frame(d, r)
    BY <1>1, TakesFrame
  <2> QED BY <2>1 DEF Frame, Violation
<1>2. ASSUME NEW r \in Seq(Bytes), r # <<>>, x \o r = f
      PROVE  TakeFrame(x) # Violation
  <2>1. TakeFrame(x) = NeedMore
    BY <1>2, WaitsForFrame
  <2> QED BY <2>1 DEF NeedMore, Violation
<1> HIDE DEF f
<1>3. CASE Len(f) <= Len(x)
  <2>1. IsPrefix(f, x)
    BY <1>0, <1>3, Overlap
  <2>2. /\ x = f \o SubSeq(x, Len(f) + 1, Len(x))
        /\ SubSeq(x, Len(f) + 1, Len(x)) \in Seq(Bytes)
    BY <1>0, <2>1, PrefixIs
  <2> QED BY <1>1, <2>2
<1>4. CASE Len(x) < Len(f)
  <2> DEFINE r == SubSeq(f, Len(x) + 1, Len(f))
  <2>1. IsPrefix(x, f)
    <3>1. Len(x) <= Len(f)
      BY <1>0, <1>4
    <3> QED BY <1>0, <3>1, Overlap
  <2>2. f = x \o r /\ r \in Seq(Bytes)
    BY <1>0, <2>1, PrefixIs
  <2> HIDE DEF r
  <2>3. r # <<>>
    <3> SUFFICES ASSUME r = <<>> PROVE FALSE
      OBVIOUS
    <3>1. f = x
      BY <2>2, ConcatEmptySeq
    <3> QED BY <1>0, <1>4, <3>1
  <2> QED BY <1>2, <2>2, <2>3
<1> QED BY <1>0, <1>3, <1>4

\* What is read of a stream of frames that may end inside the last one is never a violation.
LEMMA StreamIsFine ==
  ASSUME NEW v \in Seq(Payloads), NEW part, Partly(part), NEW x \in Seq(Bytes), NEW y \in Seq(Bytes)
  PROVE  x \o y = EncodeAll(v) \o part => TakeFrame(x) # Violation
<1>1. PICK d \in Payloads, q \in Seq(Bytes) : part \in Seq(Bytes) /\ part \o q = EncodeFrame(d)
  BY DEF Partly
<1> DEFINE f == EncodeFrame(d)
<1>2. /\ (x \o y) \o q = x \o (y \o q) /\ y \o q \in Seq(Bytes)
      /\ f \in Seq(Bytes) /\ part \o q = f
  <2>1. f \in Seq(Bytes) /\ part \o q = f
    BY <1>1, FrameShape
  <2>2. (x \o y) \o q = x \o (y \o q)
    <3>1. Associates(x, y, q)
      BY JoinsAssociate
    <3> QED BY <3>1 DEF Associates
  <2>3. y \o q \in Seq(Bytes)
    BY ConcatShape
  <2> QED BY <2>1, <2>2, <2>3
<1>3. ASSUME v = <<>>, x \o y = EncodeAll(v) \o part
      PROVE  TakeFrame(x) # Violation
  <2>1. EncodeAll(v) \o part = part
    BY <1>1, <1>3, EncodeAllStep, ConcatEmptySeq
  <2> HIDE DEF f
  <2>2. f \o <<>> = f /\ <<>> \in Seq(Bytes)
    BY <1>2, ConcatEmptySeq
  <2>3. x \o (y \o q) = f \o <<>>
    BY <1>2, <1>3, <2>1, <2>2
  <2> QED BY <1>2, <2>2, <2>3, FrameIsFine DEF f
<1>4. ASSUME v # <<>>, x \o y = EncodeAll(v) \o part
      PROVE  TakeFrame(x) # Violation
  <2> DEFINE z == EncodeAll(Tail(v)) \o part
  <2>1. /\ Head(v) \in Payloads /\ z \in Seq(Bytes)
        /\ EncodeAll(v) \o part = EncodeFrame(Head(v)) \o z
    BY <1>1, <1>4, EncodeAllFirst
  <2> HIDE DEF z
  <2> QED BY <1>4, <2>1, FrameIsFine
<1> QED BY <1>3, <1>4

-----------------------------------------------------------------------------
(* A stream between a writer and a reader. *)

\* The task that writes holds the mutex, and nobody has taken the writer.
Turns ==
  \A t \in Senders :
    /\ task[t] = "writing" => Holds(t) /\ writer = "open"
    /\ task[t] # "idle" => document[t] \in Messages

EndIsKnown == eof => writer = "taken" \/ link = "cut"

\* What was written of a frame is what its task has not left to write.
Writes(part) ==
  \/ \E t \in Senders :
       task[t] = "writing" /\ unsent[t] # <<>> /\ part \o unsent[t] = EncodeFrame(document[t])
  \/ part = <<>> /\ \A t \in Senders : task[t] = "writing" => unsent[t] = <<>>

\* Between the reader's documents and the last one accepted are those whose
\* frames are on the way, and at most a part of one more.
Behind(waiting, part) ==
  /\ accepted = (delivered \o ready) \o waiting
  /\ buffer \o wire = EncodeAll(waiting) \o part
  /\ Partly(part)
  /\ link = "up" => Writes(part)

Underway ==
  status = "open" =>
    /\ TakeFrame(buffer) = NeedMore
    /\ \E waiting \in Seq(Payloads), part \in Seq(Bytes) : Behind(waiting, part)

StreamInv == TypeOK /\ Turns /\ EndIsKnown /\ CarriesWholeDocuments /\ Underway

LEMMA FrameIsBytes ==
  ASSUME NEW d \in Payloads
  PROVE  EncodeFrame(d) \in Seq(Bytes) /\ EncodeFrame(d) # <<>> /\ <<>> \o EncodeFrame(d) = EncodeFrame(d)
<1> DEFINE f == EncodeFrame(d)
           n == Len(Decimal(Len(d)))
<1>1. f \in Seq(Bytes) /\ n \in 1..MaxLengthDigits /\ Len(f) = n + 2 + Len(d) /\ d \in Seq(Bytes)
  BY FrameShape
<1> HIDE DEF f, n
<1>2. Len(d) \in Nat /\ n \in Nat
  BY <1>1, FramingAssumption
<1>3. Len(f) # 0
  BY <1>1, <1>2
<1>4. f # <<>>
  BY <1>3
<1> QED BY <1>1, <1>4, ConcatEmptySeq DEF f

LEMMA StreamInitEstablishes == Init => StreamInv
<1> SUFFICES ASSUME Init PROVE StreamInv
  OBVIOUS
<1>1. /\ lock = <<>> /\ task = [t \in Senders |-> "idle"] /\ document = [t \in Senders |-> <<>>]
      /\ unsent = [t \in Senders |-> <<>>] /\ writer = "open" /\ closer = "idle" /\ link = "up"
      /\ wire = <<>> /\ eof = FALSE /\ accepted = <<>>
      /\ buffer = <<>> /\ ready = <<>> /\ delivered = <<>> /\ status = "open"
  BY DEF Init, ReaderInit
<1>2. /\ <<>> \in Seq(Senders \cup {Closer}) /\ <<>> \in Payloads /\ <<>> \in Seq(Bytes)
      /\ <<>> \in Seq(Messages) /\ <<>> \in Seq(Payloads) /\ Len(<<>>) = 0
  <2>1. <<>> \in Seq(Bytes) /\ Len(<<>>) <= MaxFrameBytes
    BY FramingAssumption
  <2>2. <<>> \in Payloads
    BY <2>1, PayloadsAre
  <2> QED BY <2>1, <2>2
<1>3. TypeOK
  <2>1. task \in [Senders -> {"idle", "locking", "writing", "sent", "cancelled", "refused", "failed"}]
    BY <1>1
  <2>2. document \in [Senders -> Payloads] /\ unsent \in [Senders -> Seq(Bytes)]
    BY <1>1, <1>2
  <2>3. wire \in Seq(Bytes) /\ Len(wire) <= PipeSize
    BY <1>1, <1>2, StreamAssumption
  <2>4. ReaderTypeOK
    BY <1>1, <1>2 DEF ReaderTypeOK
  <2> QED BY <1>1, <1>2, <2>1, <2>2, <2>3, <2>4 DEF TypeOK
<1>4. Turns /\ EndIsKnown
  BY <1>1 DEF Turns, EndIsKnown
<1>5. IsPrefix(<<>>, <<>>) /\ <<>> \o <<>> = <<>>
  <2>1. <<>> \o <<>> = <<>>
    BY <1>2, ConcatEmptySeq
  <2> QED BY <1>2, <2>1, ConcatPrefix
<1>6. CarriesWholeDocuments
  BY <1>1, <1>5 DEF CarriesWholeDocuments
<1>7. Partly(<<>>)
  <2>1. EncodeFrame(<<>>) \in Seq(Bytes) /\ <<>> \o EncodeFrame(<<>>) = EncodeFrame(<<>>) /\ EncodeFrame(<<>>) # <<>>
    BY <1>2, FrameIsBytes
  <2> QED BY <1>2, <2>1 DEF Partly
<1>8. Writes(<<>>)
  BY <1>1 DEF Writes
<1>9. Behind(<<>>, <<>>)
  BY <1>1, <1>5, <1>7, <1>8, EncodeAllStep DEF Behind
<1>10. Underway
  BY <1>1, <1>2, <1>9, TakesNothing DEF Underway
<1> QED BY <1>3, <1>4, <1>6, <1>10 DEF StreamInv

\* A step that moves nothing along the stream.
LEMMA ControlKeeps ==
  ASSUME StreamInv, UNCHANGED <<wire, accepted, reader>>, link' = link \/ link' = "cut",
         TypeOK', Turns', EndIsKnown',
         \A part \in Seq(Bytes) : Writes(part) /\ link' = "up" => Writes(part)'
  PROVE  StreamInv'
<1>1. /\ wire' = wire /\ accepted' = accepted /\ buffer' = buffer /\ ready' = ready
      /\ delivered' = delivered /\ status' = status
  BY DEF reader
<1>2. CarriesWholeDocuments'
  BY <1>1 DEF StreamInv, CarriesWholeDocuments
<1>3. ASSUME NEW waiting \in Seq(Payloads), NEW part \in Seq(Bytes), Behind(waiting, part)
      PROVE  Behind(waiting, part)'
  BY <1>1, <1>3 DEF Behind
<1>4. Underway'
  BY <1>1, <1>3 DEF StreamInv, Underway
<1> QED BY <1>2, <1>4 DEF StreamInv

\* Who writes is the first one at the mutex.
LEMMA OneWrites ==
  ASSUME Turns, NEW t \in Senders, Holds(t), NEW u \in Senders, task[u] = "writing"
  PROVE  u = t
BY DEF Turns, Holds

LEMMA SendKeeps ==
  ASSUME StreamInv, NEW t \in Senders, NEW d \in Messages, Send(t, d)
  PROVE  StreamInv'
<1>1. /\ task[t] = "idle"
      /\ task' = [task EXCEPT ![t] = "locking"]
      /\ document' = [document EXCEPT ![t] = d]
      /\ lock' = Append(lock, t)
      /\ unsent' = unsent /\ writer' = writer /\ closer' = closer /\ link' = link /\ wire' = wire
      /\ eof' = eof /\ accepted' = accepted /\ reader' = reader
  BY DEF Send
<1>2. /\ lock \in Seq(Senders \cup {Closer}) /\ task \in [Senders -> {"idle", "locking", "writing", "sent", "cancelled", "refused", "failed"}]
      /\ document \in [Senders -> Payloads]
  BY DEF StreamInv, TypeOK
<1>3. TypeOK'
  <2>1. lock' \in Seq(Senders \cup {Closer})
    BY <1>1, <1>2, AppendProperties
  <2>2. document' \in [Senders -> Payloads]
    BY <1>1, <1>2, StreamAssumption
  <2>3. task' \in [Senders -> {"idle", "locking", "writing", "sent", "cancelled", "refused", "failed"}]
    BY <1>1, <1>2
  <2> QED BY <1>1, <2>1, <2>2, <2>3 DEF StreamInv, TypeOK, ReaderTypeOK, reader
<1>4. \A u \in Senders \ {t} : task'[u] = task[u] /\ document'[u] = document[u]
  BY <1>1, <1>2
<1>5. task'[t] = "locking" /\ document'[t] = d
  BY <1>1, <1>2
<1>6. ASSUME NEW u \in Senders, Holds(u)
      PROVE  Holds(u)'
  <2>1. lock # <<>> /\ Head(lock) = u
    BY <1>6 DEF Holds
  <2>2. Append(lock, t) # <<>> /\ Head(Append(lock, t)) = Head(lock)
    BY <1>2, <2>1
  <2> QED BY <1>1, <2>1, <2>2 DEF Holds
<1>7. Turns'
  BY <1>1, <1>4, <1>5, <1>6 DEF StreamInv, Turns
<1>8. EndIsKnown'
  BY <1>1 DEF StreamInv, EndIsKnown
<1>9. ASSUME NEW part \in Seq(Bytes), Writes(part)
      PROVE  Writes(part)'
  BY <1>1, <1>4, <1>5, <1>9 DEF Writes
<1> QED BY <1>1, <1>3, <1>7, <1>8, <1>9, ControlKeeps

LEMMA StartWritingKeeps ==
  ASSUME StreamInv, NEW t \in Senders, StartWriting(t)
  PROVE  StreamInv'
<1>1. /\ task[t] = "locking" /\ Holds(t)
      /\ document' = document /\ writer' = writer /\ closer' = closer /\ link' = link
      /\ wire' = wire /\ eof' = eof /\ accepted' = accepted /\ reader' = reader
  BY DEF StartWriting
<1>2. /\ lock \in Seq(Senders \cup {Closer}) /\ task \in [Senders -> {"idle", "locking", "writing", "sent", "cancelled", "refused", "failed"}]
      /\ document \in [Senders -> Payloads] /\ unsent \in [Senders -> Seq(Bytes)]
      /\ lock # <<>>
  BY <1>1 DEF StreamInv, TypeOK, Holds
<1>3. \A u \in Senders : task[u] # "writing"
  BY <1>1, OneWrites DEF StreamInv
<1>4. ASSUME NEW part \in Seq(Bytes), Writes(part)
      PROVE  part = <<>>
  BY <1>3, <1>4 DEF Writes
<1>5. EndIsKnown'
  BY <1>1 DEF StreamInv, EndIsKnown
<1> DEFINE f == EncodeFrame(document[t])
<1>6. f \in Seq(Bytes) /\ f # <<>> /\ <<>> \o f = f
  <2>1. document[t] \in Payloads
    BY <1>2
  <2> QED BY <2>1, FrameIsBytes
<1>7. CASE writer = "open"
  <2>1. /\ task' = [task EXCEPT ![t] = "writing"] /\ unsent' = [unsent EXCEPT ![t] = f] /\ lock' = lock
    BY <1>7 DEF StartWriting
  <2> HIDE DEF f
  <2>2. TypeOK'
    <3>1. task' \in [Senders -> {"idle", "locking", "writing", "sent", "cancelled", "refused", "failed"}]
      BY <1>2, <2>1
    <3>2. unsent' \in [Senders -> Seq(Bytes)]
      BY <1>2, <1>6, <2>1
    <3> QED BY <1>1, <2>1, <3>1, <3>2 DEF StreamInv, TypeOK, ReaderTypeOK, reader
  <2>3. task'[t] = "writing" /\ unsent'[t] = f /\ \A u \in Senders \ {t} : task'[u] = task[u]
    BY <1>2, <2>1
  <2>4. Turns'
    BY <1>1, <1>3, <1>7, <2>1, <2>3 DEF StreamInv, Turns, Holds
  <2>5. Writes(<<>>)'
    BY <1>1, <1>6, <2>3 DEF Writes, f
  <2>6. \A part \in Seq(Bytes) : Writes(part) => Writes(part)'
    BY <1>4, <2>5
  <2> QED BY <1>1, <1>5, <2>2, <2>4, <2>6, ControlKeeps
<1>8. CASE writer # "open"
  <2>1. /\ task' = [task EXCEPT ![t] = "refused"] /\ unsent' = unsent /\ lock' = Tail(lock)
    BY <1>8 DEF StartWriting
  <2>2. TypeOK'
    <3>1. task' \in [Senders -> {"idle", "locking", "writing", "sent", "cancelled", "refused", "failed"}]
      BY <1>2, <2>1
    <3>2. lock' \in Seq(Senders \cup {Closer})
      BY <1>2, <2>1, HeadTailProperties
    <3> QED BY <1>1, <2>1, <3>1, <3>2 DEF StreamInv, TypeOK, ReaderTypeOK, reader
  <2>3. task'[t] = "refused" /\ \A u \in Senders \ {t} : task'[u] = task[u]
    BY <1>2, <2>1
  <2>4. Turns'
    BY <1>1, <1>3, <2>1, <2>3 DEF StreamInv, Turns
  <2>5. Writes(<<>>)'
    BY <1>3, <2>3 DEF Writes
  <2>6. \A part \in Seq(Bytes) : Writes(part) => Writes(part)'
    BY <1>4, <2>5
  <2> QED BY <1>1, <1>5, <2>2, <2>4, <2>6, ControlKeeps
<1> QED BY <1>7, <1>8

LEMMA FinishSendKeeps ==
  ASSUME StreamInv, NEW t \in Senders, FinishSend(t)
  PROVE  StreamInv'
<1>1. /\ task[t] = "writing"
      /\ task' \in {[task EXCEPT ![t] = "sent"], [task EXCEPT ![t] = "failed"]}
      /\ unsent[t] = <<>> \/ link = "cut"
      /\ lock' = Tail(lock)
      /\ document' = document /\ unsent' = unsent /\ writer' = writer /\ closer' = closer /\ link' = link
      /\ wire' = wire /\ eof' = eof /\ accepted' = accepted /\ reader' = reader
  BY DEF FinishSend
<1>2. /\ lock \in Seq(Senders \cup {Closer}) /\ task \in [Senders -> {"idle", "locking", "writing", "sent", "cancelled", "refused", "failed"}]
  BY DEF StreamInv, TypeOK
<1>3. Holds(t)
  BY <1>1 DEF StreamInv, Turns
<1>4. \A u \in Senders : task[u] = "writing" => u = t
  BY <1>3, OneWrites DEF StreamInv
<1>5. /\ task'[t] \in {"sent", "failed"}
      /\ \A u \in Senders \ {t} : task'[u] = task[u]
  BY <1>1, <1>2
<1>6. TypeOK'
  <2>1. task' \in [Senders -> {"idle", "locking", "writing", "sent", "cancelled", "refused", "failed"}]
    BY <1>1, <1>2
  <2>2. lock' \in Seq(Senders \cup {Closer})
    BY <1>1, <1>2, <1>3, HeadTailProperties DEF Holds
  <2> QED BY <1>1, <2>1, <2>2 DEF StreamInv, TypeOK, ReaderTypeOK, reader
<1>7. \A u \in Senders : task'[u] # "writing"
  BY <1>4, <1>5
<1>8. Turns'
  BY <1>1, <1>5, <1>7 DEF StreamInv, Turns
<1>9. EndIsKnown'
  BY <1>1 DEF StreamInv, EndIsKnown
<1>10. ASSUME NEW part \in Seq(Bytes), Writes(part), link' = "up"
       PROVE  Writes(part)'
  <2>1. unsent[t] = <<>>
    BY <1>1, <1>10
  <2>2. part = <<>>
    BY <1>4, <1>10, <2>1 DEF Writes
  <2> QED BY <1>7, <2>2 DEF Writes
<1> QED BY <1>1, <1>6, <1>8, <1>9, <1>10, ControlKeeps

LEMMA CancelKeeps ==
  ASSUME StreamInv, ~MayCancel, NEW t \in Senders, Cancel(t)
  PROVE  StreamInv'
<1>1. /\ task[t] = "locking"
      /\ task' = [task EXCEPT ![t] = "cancelled"]
      /\ lock' = RemoveFirst(lock, t)
      /\ document' = document /\ unsent' = unsent /\ writer' = writer /\ closer' = closer /\ link' = link
      /\ wire' = wire /\ eof' = eof /\ accepted' = accepted /\ reader' = reader
  BY DEF Cancel
<1>2. /\ lock \in Seq(Senders \cup {Closer}) /\ task \in [Senders -> {"idle", "locking", "writing", "sent", "cancelled", "refused", "failed"}]
  BY DEF StreamInv, TypeOK
<1>3. /\ task'[t] = "cancelled"
      /\ \A u \in Senders \ {t} : task'[u] = task[u]
  BY <1>1, <1>2
<1>4. TypeOK'
  <2>1. task' \in [Senders -> {"idle", "locking", "writing", "sent", "cancelled", "refused", "failed"}]
    BY <1>1, <1>2
  <2>2. lock' \in Seq(Senders \cup {Closer})
    BY <1>1, <1>2, LeavingTheQueue
  <2> QED BY <1>1, <2>1, <2>2 DEF StreamInv, TypeOK, ReaderTypeOK, reader
<1>5. ASSUME NEW u \in Senders \ {t}, Holds(u)
      PROVE  Holds(u)'
  BY <1>1, <1>2, <1>5, LeavingTheQueue DEF Holds
<1>6. Turns'
  BY <1>1, <1>3, <1>5 DEF StreamInv, Turns
<1>7. EndIsKnown'
  BY <1>1 DEF StreamInv, EndIsKnown
<1>8. ASSUME NEW part \in Seq(Bytes), Writes(part)
      PROVE  Writes(part)'
  BY <1>1, <1>3, <1>8 DEF Writes
<1> QED BY <1>1, <1>4, <1>6, <1>7, <1>8, ControlKeeps

LEMMA CloseKeeps ==
  ASSUME StreamInv, Close
  PROVE  StreamInv'
<1>1. /\ closer' = "locking" /\ lock' = Append(lock, Closer)
      /\ task' = task /\ document' = document /\ unsent' = unsent /\ writer' = writer /\ link' = link
      /\ wire' = wire /\ eof' = eof /\ accepted' = accepted /\ reader' = reader
  BY DEF Close
<1>2. lock \in Seq(Senders \cup {Closer})
  BY DEF StreamInv, TypeOK
<1>3. TypeOK'
  <2>1. lock' \in Seq(Senders \cup {Closer})
    BY <1>1, <1>2, AppendProperties
  <2> QED BY <1>1, <2>1 DEF StreamInv, TypeOK, ReaderTypeOK, reader
<1>4. ASSUME NEW u \in Senders, Holds(u)
      PROVE  Holds(u)'
  <2>1. lock # <<>> /\ Head(lock) = u
    BY <1>4 DEF Holds
  <2>2. Append(lock, Closer) # <<>> /\ Head(Append(lock, Closer)) = Head(lock)
    BY <1>2, <2>1
  <2> QED BY <1>1, <2>1, <2>2 DEF Holds
<1>5. Turns'
  BY <1>1, <1>4 DEF StreamInv, Turns
<1>6. EndIsKnown'
  BY <1>1 DEF StreamInv, EndIsKnown
<1>7. ASSUME NEW part \in Seq(Bytes), Writes(part)
      PROVE  Writes(part)'
  BY <1>1, <1>7 DEF Writes
<1> QED BY <1>1, <1>3, <1>5, <1>6, <1>7, ControlKeeps

LEMMA FinishCloseKeeps ==
  ASSUME StreamInv, FinishClose
  PROVE  StreamInv'
<1>1. /\ Holds(Closer) /\ closer' = "done" /\ writer' = "taken" /\ eof' = TRUE /\ lock' = Tail(lock)
      /\ task' = task /\ document' = document /\ unsent' = unsent /\ link' = link
      /\ wire' = wire /\ accepted' = accepted /\ reader' = reader
  BY DEF FinishClose
<1>2. lock \in Seq(Senders \cup {Closer}) /\ lock # <<>>
  BY <1>1 DEF StreamInv, TypeOK, Holds
<1>3. TypeOK'
  <2>1. lock' \in Seq(Senders \cup {Closer})
    BY <1>1, <1>2, HeadTailProperties
  <2> QED BY <1>1, <2>1 DEF StreamInv, TypeOK, ReaderTypeOK, reader
<1>4. \A u \in Senders : task[u] # "writing"
  BY <1>1, StreamAssumption DEF StreamInv, Turns, Holds
<1>5. Turns'
  BY <1>1, <1>4 DEF StreamInv, Turns
<1>6. EndIsKnown'
  BY <1>1 DEF EndIsKnown
<1>7. ASSUME NEW part \in Seq(Bytes), Writes(part)
      PROVE  Writes(part)'
  BY <1>1, <1>7 DEF Writes
<1> QED BY <1>1, <1>3, <1>5, <1>6, <1>7, ControlKeeps

LEMMA CutLinkKeeps ==
  ASSUME StreamInv, CutLink
  PROVE  StreamInv'
<1>1. /\ link' = "cut" /\ eof' \in {eof, TRUE}
      /\ lock' = lock /\ task' = task /\ document' = document /\ unsent' = unsent
      /\ writer' = writer /\ closer' = closer
      /\ wire' = wire /\ accepted' = accepted /\ reader' = reader
  BY DEF CutLink, sending
<1>2. TypeOK'
  BY <1>1 DEF StreamInv, TypeOK, ReaderTypeOK, reader
<1>3. Turns' /\ EndIsKnown'
  BY <1>1 DEF StreamInv, Turns, EndIsKnown, Holds
<1> QED BY <1>1, <1>2, <1>3, ControlKeeps

\* A piece of the frame is written; with the last one the document is accepted.
LEMMA WriteKeeps ==
  ASSUME StreamInv, NEW t \in Senders, NEW size \in 1..PipeSize, Write(t, size)
  PROVE  StreamInv'
<1> DEFINE left == unsent[t]
           piece == SubSeq(left, 1, size)
           more == SubSeq(left, size + 1, Len(left))
<1>0. PICK d : d = document[t]
  OBVIOUS
<1>1. /\ task[t] = "writing" /\ link = "up" /\ size <= Len(left) /\ Len(wire) + size <= PipeSize
      /\ wire' = wire \o piece
      /\ unsent' = [unsent EXCEPT ![t] = more]
      /\ accepted' = IF size = Len(left) THEN Append(accepted, d) ELSE accepted
      /\ lock' = lock /\ task' = task /\ document' = document /\ writer' = writer /\ closer' = closer
      /\ link' = link /\ eof' = eof
      /\ buffer' = buffer /\ ready' = ready /\ delivered' = delivered /\ status' = status
  BY <1>0 DEF Write, reader
<1>2. /\ left \in Seq(Bytes) /\ wire \in Seq(Bytes) /\ buffer \in Seq(Bytes)
      /\ accepted \in Seq(Messages) /\ delivered \in Seq(Payloads) /\ ready \in Seq(Payloads)
      /\ unsent \in [Senders -> Seq(Bytes)] /\ Len(wire) <= PipeSize
  BY DEF StreamInv, TypeOK, ReaderTypeOK
<1>3. d \in Messages /\ d \in Payloads /\ Holds(t)
  BY <1>0, <1>1, StreamAssumption DEF StreamInv, Turns
<1>4. accepted \in Seq(Payloads)
  BY <1>2, StreamAssumption
<1>5. size \in Nat /\ size >= 1 /\ Len(left) \in Nat
  BY <1>2, StreamAssumption
<1>6. /\ piece \in Seq(Bytes) /\ more \in Seq(Bytes) /\ Len(piece) = size
      /\ Len(more) = Len(left) - size
  <2>1. left \in Seq(Bytes) /\ size \in Nat /\ size >= 1 /\ size <= Len(left) /\ Len(left) \in Nat
    BY <1>1, <1>2, <1>5
  <2> HIDE DEF left
  <2> QED BY <2>1
<1>7. left = piece \o more
  <2>1. 1 \in 1..(Len(left) + 1) /\ size \in (1 - 1)..Len(left) /\ Len(left) \in size..Len(left)
    BY <1>1, <1>5
  <2>2. SubSeq(left, 1, size) \o SubSeq(left, size + 1, Len(left)) = SubSeq(left, 1, Len(left))
    BY <1>2, <2>1, ConcatAdjacentSubSeq
  <2> QED BY <1>2, <2>2, SubSeqFull
<1>8. \A u \in Senders : task[u] = "writing" => u = t
  BY <1>3, OneWrites DEF StreamInv
<1>9. unsent'[t] = more
  BY <1>1, <1>2
<1> HIDE DEF left, piece, more
<1>10. TypeOK'
  <2>1. wire' \in Seq(Bytes) /\ Len(wire') = Len(wire) + Len(piece)
    BY <1>1, <1>2, <1>6, ConcatShape
  <2>2. Len(wire') <= PipeSize
    BY <1>1, <1>6, <2>1
  <2>3. unsent' \in [Senders -> Seq(Bytes)]
    BY <1>1, <1>2, <1>6
  <2>4. accepted' \in Seq(Messages)
    BY <1>1, <1>2, <1>3, AppendProperties
  <2> QED BY <1>1, <2>1, <2>2, <2>3, <2>4 DEF StreamInv, TypeOK, ReaderTypeOK
<1>11. Turns' /\ EndIsKnown'
  BY <1>1 DEF StreamInv, Turns, EndIsKnown, Holds
<1>12. CarriesWholeDocuments'
  <2>1. IsPrefix(delivered \o ready, accepted)
    BY DEF StreamInv, CarriesWholeDocuments
  <2>2. <<d>> \in Seq(Payloads) /\ Append(accepted, d) = accepted \o <<d>> /\ delivered \o ready \in Seq(Payloads)
    BY <1>2, <1>3, <1>4, AppendIsConcat
  <2>3. IsPrefix(delivered \o ready, accepted \o <<d>>)
    <3> DEFINE s == delivered \o ready
               one == <<d>>
    <3>1. s \in Seq(Payloads) /\ one \in Seq(Payloads) /\ IsPrefix(s, accepted)
      BY <2>1, <2>2
    <3> HIDE DEF s, one
    <3>2. IsPrefix(s, accepted \o one)
      BY <1>4, <3>1, PrefixExtends
    <3> QED BY <3>2 DEF s, one
  <2>4. IsPrefix(delivered \o ready, accepted')
    BY <1>1, <2>1, <2>2, <2>3
  <2> QED BY <1>1, <2>4 DEF StreamInv, CarriesWholeDocuments
<1>13. ASSUME status = "open"
       PROVE  \E waiting \in Seq(Payloads), part \in Seq(Bytes) : Behind(waiting, part)'
  <2>1. PICK waiting \in Seq(Payloads), part \in Seq(Bytes) : Behind(waiting, part)
    BY <1>13 DEF StreamInv, Underway
  <2>2. /\ accepted = (delivered \o ready) \o waiting
        /\ buffer \o wire = EncodeAll(waiting) \o part /\ Writes(part)
    BY <1>1, <2>1 DEF Behind
  <2>3. left # <<>> /\ part \o left = EncodeFrame(d)
    <3>1. left # <<>>
      BY <1>1, <1>5
    <3> QED BY <1>0, <1>1, <1>8, <2>2, <3>1 DEF Writes, left
  <2> DEFINE e == EncodeAll(waiting)
             f == EncodeFrame(d)
  <2>4. e \in Seq(Bytes) /\ f \in Seq(Bytes) /\ buffer \o wire = e \o part /\ part \o left = f
    BY <1>3, <2>2, <2>3, EncodeAllStep, FrameShape
  <2>5. EncodeAll(Append(waiting, d)) = e \o f
    BY <1>3, EncodeAllStep
  <2> HIDE DEF e, f
  <2>6. buffer \o wire' = e \o (part \o piece) /\ part \o piece \in Seq(Bytes)
    <3>1. buffer \o (wire \o piece) = (buffer \o wire) \o piece
      <4>1. buffer \in Seq(Bytes) /\ wire \in Seq(Bytes) /\ piece \in Seq(Bytes)
        BY <1>2, <1>6
      <4>2. Associates(buffer, wire, piece)
        BY <4>1, JoinsAssociate
      <4> QED BY <4>2 DEF Associates
    <3>2. (e \o part) \o piece = e \o (part \o piece)
      <4>1. e \in Seq(Bytes) /\ piece \in Seq(Bytes)
        BY <1>6, <2>4
      <4>2. Associates(e, part, piece)
        BY <4>1, JoinsAssociate
      <4> QED BY <4>2 DEF Associates
    <3>3. part \o piece \in Seq(Bytes)
      BY <1>6, ConcatShape
    <3> QED BY <1>1, <2>4, <3>1, <3>2, <3>3
  <2>7. (part \o piece) \o more = f
    <3>1. (part \o piece) \o more = part \o (piece \o more)
      <4>1. Associates(part, piece, more)
        BY <1>6, JoinsAssociate
      <4> QED BY <4>1 DEF Associates
    <3> QED BY <1>7, <2>4, <3>1
  <2>8. CASE size = Len(left)
    <3>1. more = <<>>
      BY <1>6, <2>8
    <3>2. part \o piece = f
      BY <2>6, <2>7, <3>1, ConcatEmptySeq
    <3>0. PICK w : w = Append(waiting, d)
      OBVIOUS
    <3>3. w \in Seq(Payloads) /\ EncodeAll(w) = e \o f
      BY <1>3, <2>5, <3>0, AppendProperties
    <3>4. accepted' = (delivered \o ready) \o w
      <4> DEFINE s == delivered \o ready
      <4>1. s \in Seq(Payloads) /\ waiting \in Seq(Payloads) /\ accepted = s \o waiting
        BY <1>2, <2>2
      <4> HIDE DEF s
      <4>2. Append(s \o waiting, d) = s \o w
        <5>1. <<d>> \in Seq(Payloads) /\ s \o waiting \in Seq(Payloads)
          BY <1>3, <4>1, ConcatShape
        <5>2. Append(s \o waiting, d) = (s \o waiting) \o <<d>> /\ w = waiting \o <<d>>
          BY <1>3, <3>0, <5>1, AppendIsConcat
        <5> DEFINE one == <<d>>
        <5>3. one \in Seq(Payloads)
          BY <5>1
        <5> HIDE DEF one
        <5>4. (s \o waiting) \o one = s \o (waiting \o one)
          <6>1. Associates(s, waiting, one)
            BY <4>1, <5>3, JoinsAssociate
          <6> QED BY <6>1 DEF Associates
        <5> QED BY <5>2, <5>4 DEF one
      <4> QED BY <1>1, <2>8, <4>1, <4>2 DEF s
    <3>5. (e \o f) \o <<>> = e \o f
      BY <2>4, ConcatShape, ConcatEmptySeq
    <3>6. buffer' \o wire' = EncodeAll(w) \o <<>>
      BY <1>1, <2>6, <3>2, <3>3, <3>5
    <3>7. Partly(<<>>)
      <4>1. <<>> \in Seq(Bytes)
        OBVIOUS
      <4> QED BY <1>3, <4>1, FrameIsBytes DEF Partly
    <3>8. Writes(<<>>)'
      BY <1>1, <1>8, <1>9, <3>1 DEF Writes
    <3>9. Behind(w, <<>>)'
      BY <1>1, <3>4, <3>6, <3>7, <3>8 DEF Behind
    <3>10. <<>> \in Seq(Bytes)
      OBVIOUS
    <3> QED BY <3>3, <3>9, <3>10
  <2>9. CASE size # Len(left)
    <3>0. PICK p : p = part \o piece
      OBVIOUS
    <3>1. more # <<>>
      BY <1>5, <1>6, <2>9
    <3>2. p \in Seq(Bytes) /\ p \o more = f /\ buffer \o wire' = e \o p
      BY <2>6, <2>7, <3>0
    <3>3. Partly(p)
      BY <1>3, <1>6, <3>1, <3>2 DEF Partly, f
    <3>4. Writes(p)'
      BY <1>1, <1>9, <3>1, <3>2, <1>0 DEF Writes, f
    <3>5. Behind(waiting, p)'
      BY <1>1, <2>2, <2>9, <3>2, <3>3, <3>4 DEF Behind, e
    <3> QED BY <3>2, <3>5
  <2> QED BY <2>8, <2>9
<1>14. Underway'
  BY <1>1, <1>13 DEF StreamInv, Underway
<1> QED BY <1>10, <1>11, <1>12, <1>14 DEF StreamInv

LEMMA DeliverKeeps ==
  ASSUME StreamInv, Deliver
  PROVE  StreamInv'
<1>1. /\ status = "open" /\ ready # <<>> /\ delivered' = Append(delivered, Head(ready))
      /\ ready' = Tail(ready) /\ buffer' = buffer /\ status' = status
      /\ lock' = lock /\ task' = task /\ document' = document /\ unsent' = unsent /\ writer' = writer
      /\ closer' = closer /\ link' = link /\ wire' = wire /\ eof' = eof /\ accepted' = accepted
  BY DEF Deliver, ReturnReady, sending
<1>2. ready \in Seq(Payloads) /\ delivered \in Seq(Payloads)
  BY DEF StreamInv, TypeOK, ReaderTypeOK
<1>3. /\ delivered' \in Seq(Payloads) /\ ready' \in Seq(Payloads)
      /\ delivered' \o ready' = delivered \o ready
  BY <1>1, <1>2, MovesOver
<1>4. TypeOK'
  BY <1>1, <1>3 DEF StreamInv, TypeOK, ReaderTypeOK
<1>5. Turns' /\ EndIsKnown'
  BY <1>1 DEF StreamInv, Turns, EndIsKnown, Holds
<1>6. CarriesWholeDocuments'
  BY <1>1, <1>3 DEF StreamInv, CarriesWholeDocuments
<1>7. ASSUME NEW waiting \in Seq(Payloads), NEW part \in Seq(Bytes), Behind(waiting, part)
      PROVE  Behind(waiting, part)'
  BY <1>1, <1>3, <1>7 DEF Behind, Writes
<1>8. Underway'
  BY <1>1, <1>7 DEF StreamInv, Underway
<1> QED BY <1>4, <1>5, <1>6, <1>8 DEF StreamInv

\* Whatever piece of the stream is read, all the documents that are then whole
\* are ready, they are the next ones accepted, and no frame is found wrong.
LEMMA ChunkIs ==
  ASSUME StreamInv, NEW size \in 1..PipeSize, ReadChunk(size)
  PROVE  /\ status = "open" /\ ready = <<>> /\ status' = "open" /\ delivered' = delivered
         /\ wire' \in Seq(Bytes) /\ Len(wire') <= PipeSize
         /\ buffer' \in Seq(Bytes) /\ ready' \in Seq(Payloads) /\ TakeFrame(buffer') = NeedMore
         /\ \E waiting \in Seq(Payloads), part \in Seq(Bytes), w \in Seq(Payloads) :
              /\ Behind(waiting, part)
              /\ waiting = ready' \o w
              /\ buffer' \o wire' = EncodeAll(w) \o part
<1> DEFINE chunk == SubSeq(wire, 1, size)
           rest == SubSeq(wire, size + 1, Len(wire))
           b == buffer \o chunk
           pushed == Push(b)
<1>1. /\ status = "open" /\ ready = <<>> /\ size <= Len(wire) /\ wire' = rest
      /\ buffer' = pushed.rest /\ ready' = pushed.documents
      /\ status' = IF pushed.failed THEN "violation" ELSE "open"
      /\ delivered' = delivered
  BY DEF ReadChunk, Take, AsksForMore
<1>2. buffer \in Seq(Bytes) /\ wire \in Seq(Bytes) /\ Len(wire) <= PipeSize
  BY DEF StreamInv, TypeOK, ReaderTypeOK
<1>3. size \in Nat /\ size >= 1 /\ Len(wire) \in Nat /\ PipeSize \in Nat
  BY <1>2, StreamAssumption
<1>4. /\ chunk \in Seq(Bytes) /\ rest \in Seq(Bytes)
      /\ Len(rest) = Len(wire) - size
  BY <1>1, <1>2, <1>3
<1>5. chunk \o rest = wire
  <2>1. 1 \in 1..(Len(wire) + 1) /\ size \in (1 - 1)..Len(wire) /\ Len(wire) \in size..Len(wire)
    BY <1>1, <1>3
  <2>2. SubSeq(wire, 1, size) \o SubSeq(wire, size + 1, Len(wire)) = SubSeq(wire, 1, Len(wire))
    BY <1>2, <2>1, ConcatAdjacentSubSeq
  <2> QED BY <1>2, <2>2, SubSeqFull
<1>6. Len(rest) <= PipeSize
  BY <1>2, <1>3, <1>4
<1> HIDE DEF chunk, rest
<1>7. b \in Seq(Bytes)
  BY <1>2, <1>4, ConcatShape
<1>8. b \o rest = buffer \o wire
  <2>1. buffer \in Seq(Bytes) /\ chunk \in Seq(Bytes) /\ rest \in Seq(Bytes)
    BY <1>2, <1>4
  <2>2. (buffer \o chunk) \o rest = buffer \o (chunk \o rest)
    <3>1. Associates(buffer, chunk, rest)
      BY <2>1, JoinsAssociate
    <3> QED BY <3>1 DEF Associates
  <2> QED BY <1>5, <2>2
<1> HIDE DEF b
<1>9. TakenFrom(b, pushed) /\ TakeFrame(pushed.rest) = NeedMore
  BY <1>7, PushIs
<1>10. PICK waiting \in Seq(Payloads), part \in Seq(Bytes) : Behind(waiting, part)
  BY <1>1 DEF StreamInv, Underway
<1>11. b \o rest = EncodeAll(waiting) \o part /\ Partly(part)
  BY <1>8, <1>10 DEF Behind
<1>12. pushed \in Taken
  BY <1>9 DEF TakenFrom
<1>13. pushed.rest \in Seq(Bytes) /\ pushed.documents \in Seq(Payloads) /\ pushed.failed \in BOOLEAN
  BY <1>12 DEF Taken
<1> HIDE DEF pushed
<1>14. ASSUME NEW docs \in Seq(Payloads), NEW left \in Seq(Bytes), b = EncodeAll(docs) \o left
       PROVE  \E w \in Seq(Payloads) : waiting = docs \o w /\ left \o rest = EncodeAll(w) \o part
  <2> DEFINE e == EncodeAll(docs)
  <2>1. e \in Seq(Bytes) /\ left \in Seq(Bytes) /\ rest \in Seq(Bytes)
    BY <1>4, EncodeAllStep
  <2>2. b \o rest = (e \o left) \o rest
    BY <1>14
  <2> HIDE DEF e
  <2>3. (e \o left) \o rest = e \o (left \o rest) /\ left \o rest \in Seq(Bytes)
    <3>1. (e \o left) \o rest = e \o (left \o rest)
      <4>1. Associates(e, left, rest)
        BY <2>1, JoinsAssociate
      <4> QED BY <4>1 DEF Associates
    <3>2. left \o rest \in Seq(Bytes)
      BY <2>1, ConcatShape
    <3> QED BY <3>1, <3>2
  <2>4. e \o (left \o rest) = EncodeAll(waiting) \o part
    BY <1>11, <2>2, <2>3
  <2>5. DecodesFront(docs, waiting, part)
    BY <1>11, Decodes
  <2> QED BY <2>3, <2>4, <2>5 DEF DecodesFront, e
<1>15. ~pushed.failed
  <2> SUFFICES ASSUME pushed.failed PROVE FALSE
    OBVIOUS
  <2>1. PICK docs \in Seq(Payloads), left \in Seq(Bytes) :
          b = EncodeAll(docs) \o left /\ TakeFrame(left) = Violation
    BY <1>9 DEF TakenFrom
  <2>2. PICK w \in Seq(Payloads) : left \o rest = EncodeAll(w) \o part
    BY <1>14, <2>1
  <2>3. TakeFrame(left) # Violation
    BY <1>4, <1>11, <2>2, StreamIsFine
  <2> QED BY <2>1, <2>3
<1>16. b = EncodeAll(pushed.documents) \o pushed.rest
  BY <1>9, <1>15 DEF TakenFrom
<1>17. PICK w \in Seq(Payloads) :
         waiting = pushed.documents \o w /\ pushed.rest \o rest = EncodeAll(w) \o part
  BY <1>13, <1>14, <1>16
<1>18. /\ status' = "open" /\ wire' \in Seq(Bytes) /\ Len(wire') <= PipeSize
       /\ buffer' \in Seq(Bytes) /\ ready' \in Seq(Payloads) /\ TakeFrame(buffer') = NeedMore
  BY <1>1, <1>4, <1>6, <1>9, <1>13, <1>15
<1>19. waiting = ready' \o w /\ buffer' \o wire' = EncodeAll(w) \o part
  BY <1>1, <1>17
<1> QED BY <1>1, <1>10, <1>18, <1>19

LEMMA ChunkKeeps ==
  ASSUME StreamInv, NEW size \in 1..PipeSize, ReadChunk(size)
  PROVE  StreamInv'
<1>1. /\ status = "open" /\ ready = <<>> /\ status' = "open" /\ delivered' = delivered
      /\ wire' \in Seq(Bytes) /\ Len(wire') <= PipeSize
      /\ buffer' \in Seq(Bytes) /\ ready' \in Seq(Payloads) /\ TakeFrame(buffer') = NeedMore
  BY ChunkIs
<1>2. PICK waiting \in Seq(Payloads), part \in Seq(Bytes), w \in Seq(Payloads) :
        /\ Behind(waiting, part)
        /\ waiting = ready' \o w
        /\ buffer' \o wire' = EncodeAll(w) \o part
  BY ChunkIs
<1>3. /\ lock' = lock /\ task' = task /\ document' = document /\ unsent' = unsent /\ writer' = writer
      /\ closer' = closer /\ link' = link /\ eof' = eof /\ accepted' = accepted
  BY DEF ReadChunk, sending
<1>4. TypeOK'
  BY <1>1, <1>3 DEF StreamInv, TypeOK, ReaderTypeOK
<1>5. Turns' /\ EndIsKnown'
  BY <1>3 DEF StreamInv, Turns, EndIsKnown, Holds
<1>6. accepted' = (delivered' \o ready') \o w
  <2>0. PICK r : r = ready'
    OBVIOUS
  <2>1. delivered \in Seq(Payloads) /\ r \in Seq(Payloads)
    BY <1>1, <2>0 DEF StreamInv, TypeOK, ReaderTypeOK
  <2>2. accepted = (delivered \o ready) \o waiting
    BY <1>2 DEF Behind
  <2>3. delivered \o ready = delivered
    BY <1>1, <2>1, ConcatEmptySeq
  <2>4. accepted = delivered \o (r \o w)
    BY <1>2, <2>0, <2>2, <2>3
  <2>5. delivered \o (r \o w) = (delivered \o r) \o w
    <3>1. Associates(delivered, r, w)
      BY <2>1, JoinsAssociate
    <3> QED BY <3>1 DEF Associates
  <2> QED BY <1>1, <1>3, <2>0, <2>4, <2>5
<1>7. CarriesWholeDocuments'
  <2> DEFINE s == delivered' \o ready'
  <2>1. delivered' \in Seq(Payloads) /\ ready' \in Seq(Payloads)
    BY <1>1 DEF StreamInv, TypeOK, ReaderTypeOK
  <2>2. s \in Seq(Payloads) /\ accepted' = s \o w
    BY <1>6, <2>1, ConcatShape
  <2> HIDE DEF s
  <2>3. IsPrefix(s, accepted')
    BY <2>2, ConcatPrefix
  <2> QED BY <1>1, <2>3 DEF CarriesWholeDocuments, s
<1>8. Behind(w, part)'
  BY <1>2, <1>3, <1>6 DEF Behind, Writes
<1>9. Underway'
  BY <1>1, <1>8 DEF Underway
<1> QED BY <1>4, <1>5, <1>7, <1>9 DEF StreamInv

\* At the end of a stream whose writer is not cut off nothing is left.
LEMMA EndIs ==
  ASSUME StreamInv, ReadEnd
  PROVE  /\ status = "open" /\ ready = <<>> /\ ready' = ready /\ delivered' = delivered /\ buffer' = <<>>
         /\ \/ status' = "ended" /\ accepted = delivered
            \/ status' = "truncated" /\ link = "cut"
<1>1. /\ eof /\ wire = <<>> /\ status = "open" /\ ready = <<>>
      /\ status' = IF buffer = <<>> THEN "ended" ELSE "truncated"
      /\ buffer' = <<>> /\ ready' = ready /\ delivered' = delivered
  BY DEF ReadEnd, Finish, AsksForMore
<1>2. buffer \in Seq(Bytes) /\ delivered \in Seq(Payloads)
  BY DEF StreamInv, TypeOK, ReaderTypeOK
<1>3. PICK waiting \in Seq(Payloads), part \in Seq(Bytes) :
        /\ TakeFrame(buffer) = NeedMore
        /\ accepted = (delivered \o ready) \o waiting
        /\ buffer \o wire = EncodeAll(waiting) \o part
        /\ link = "up" => Writes(part)
  BY <1>1 DEF StreamInv, Underway, Behind
<1>4. buffer = EncodeAll(waiting) \o part
  BY <1>1, <1>2, <1>3, ConcatEmptySeq
<1>5. waiting = <<>>
  <2> SUFFICES ASSUME waiting # <<>> PROVE FALSE
    OBVIOUS
  <2> DEFINE z == EncodeAll(Tail(waiting)) \o part
  <2>1. /\ Head(waiting) \in Payloads /\ z \in Seq(Bytes)
        /\ EncodeAll(waiting) \o part = EncodeFrame(Head(waiting)) \o z
    BY EncodeAllFirst
  <2> HIDE DEF z
  <2>2. TakeFrame(buffer) = Frame(Head(waiting), z)
    BY <1>4, <2>1, TakesFrame
  <2>3. Frame(Head(waiting), z) = NeedMore
    BY <1>3, <2>2
  <2> QED BY <2>3 DEF Frame, NeedMore
<1>6. buffer = part /\ accepted = delivered
  <2>1. EncodeAll(waiting) = <<>>
    BY <1>5, EncodeAllStep
  <2>2. <<>> \o part = part
    BY ConcatEmptySeq
  <2>3. (delivered \o <<>>) \o <<>> = delivered
    BY <1>2, ConcatEmptySeq
  <2> QED BY <1>1, <1>3, <1>4, <1>5, <2>1, <2>2, <2>3
<1>7. ASSUME link # "cut"
      PROVE  part = <<>>
  <2>1. link = "up" /\ writer = "taken"
    BY <1>1, <1>7 DEF StreamInv, TypeOK, EndIsKnown
  <2>2. \A t \in Senders : task[t] # "writing"
    BY <2>1 DEF StreamInv, Turns
  <2> QED BY <1>3, <2>1, <2>2 DEF Writes
<1> QED BY <1>1, <1>6, <1>7

LEMMA EndKeeps ==
  ASSUME StreamInv, ReadEnd
  PROVE  StreamInv'
<1>1. /\ status = "open" /\ ready = <<>> /\ ready' = ready /\ delivered' = delivered /\ buffer' = <<>>
      /\ \/ status' = "ended" /\ accepted = delivered
         \/ status' = "truncated" /\ link = "cut"
  BY EndIs
<1>2. /\ lock' = lock /\ task' = task /\ document' = document /\ unsent' = unsent /\ writer' = writer
      /\ closer' = closer /\ link' = link /\ wire' = wire /\ eof' = eof /\ accepted' = accepted
  BY DEF ReadEnd, sending
<1>3. TypeOK'
  <2>1. <<>> \in Seq(Bytes)
    OBVIOUS
  <2> QED BY <1>1, <1>2, <2>1 DEF StreamInv, TypeOK, ReaderTypeOK
<1>4. Turns' /\ EndIsKnown'
  BY <1>2 DEF StreamInv, Turns, EndIsKnown, Holds
<1>5. CarriesWholeDocuments' /\ Underway'
  BY <1>1, <1>2 DEF StreamInv, CarriesWholeDocuments, Underway
<1> QED BY <1>3, <1>4, <1>5 DEF StreamInv

LEMMA FailKeeps ==
  ASSUME StreamInv, ReadFails
  PROVE  StreamInv'
<1>1. /\ status' = "broken" /\ buffer' = buffer /\ ready' = ready /\ delivered' = delivered
      /\ lock' = lock /\ task' = task /\ document' = document /\ unsent' = unsent /\ writer' = writer
      /\ closer' = closer /\ link' = link /\ wire' = wire /\ eof' = eof /\ accepted' = accepted
  BY DEF ReadFails, Break, sending
<1>2. TypeOK'
  BY <1>1 DEF StreamInv, TypeOK, ReaderTypeOK
<1>3. Turns' /\ EndIsKnown'
  BY <1>1 DEF StreamInv, Turns, EndIsKnown, Holds
<1>4. CarriesWholeDocuments' /\ Underway'
  BY <1>1 DEF StreamInv, CarriesWholeDocuments, Underway
<1> QED BY <1>2, <1>3, <1>4 DEF StreamInv

LEMMA StreamNextKeeps ==
  ASSUME StreamInv, [Next]_vars, ~MayCancel
  PROVE  StreamInv'
<1>1. ASSUME NEW t \in Senders, SendStep(t)
      PROVE  StreamInv'
  BY <1>1, SendKeeps, StartWritingKeeps, WriteKeeps, FinishSendKeeps, CancelKeeps DEF SendStep
<1>2. ASSUME Close \/ FinishClose \/ CutLink
      PROVE  StreamInv'
  BY <1>2, CloseKeeps, FinishCloseKeeps, CutLinkKeeps
<1>3. ASSUME ReadStep
      PROVE  StreamInv'
  BY <1>3, DeliverKeeps, ChunkKeeps, EndKeeps, FailKeeps DEF ReadStep
<1>4. ASSUME UNCHANGED vars
      PROVE  StreamInv'
  <2>1. /\ lock' = lock /\ task' = task /\ document' = document /\ unsent' = unsent /\ writer' = writer
        /\ closer' = closer /\ link' = link /\ wire' = wire /\ eof' = eof /\ accepted' = accepted
        /\ buffer' = buffer /\ ready' = ready /\ delivered' = delivered /\ status' = status /\ reader' = reader
    BY <1>4 DEF vars, sending, reader
  <2>2. TypeOK' /\ Turns' /\ EndIsKnown'
    BY <2>1 DEF StreamInv, TypeOK, ReaderTypeOK, Turns, EndIsKnown, Holds
  <2>3. \A part \in Seq(Bytes) : Writes(part) => Writes(part)'
    BY <2>1 DEF Writes
  <2> QED BY <2>1, <2>2, <2>3, ControlKeeps
<1> QED BY <1>1, <1>2, <1>3, <1>4 DEF Next

\* transport.rs:3, for any number of senders, documents, sizes of pieces and of
\* the stream: when no send is dropped while it writes, the reader gets whole
\* documents, the ones sent, in the order in which they were written; it never
\* finds a frame wrong, and the end inside of one only when the link was cut.
THEOREM StreamCarries ==
  ASSUME ~MayCancel
  PROVE  Spec => []CarriesWholeDocuments
<1>1. Init => StreamInv
  BY StreamInitEstablishes
<1>2. StreamInv /\ [Next]_vars => StreamInv'
  BY StreamNextKeeps
<1>3. StreamInv => CarriesWholeDocuments
  BY DEF StreamInv
<1> QED BY <1>1, <1>2, <1>3, PTL DEF Spec

-----------------------------------------------------------------------------
(* The stream is a channel of documents. *)

LEMMA ChannelInit == Init => Channel!Init
BY DEF Init, ReaderInit, Channel!Init

LEMMA ChannelStep ==
  ASSUME StreamInv, [Next]_vars
  PROVE  [Channel!Next]_(Channel!vars)
<1>1. ASSUME UNCHANGED <<accepted, delivered, eof, status>>
      PROVE  UNCHANGED Channel!vars
  BY <1>1 DEF Channel!vars
<1>2. ASSUME eof' = TRUE, UNCHANGED <<accepted, delivered, status>>
      PROVE  Channel!Next
  BY <1>2 DEF Channel!Next, Channel!Close
<1>3. ASSUME NEW t \in Senders, SendStep(t)
      PROVE  Channel!Next \/ UNCHANGED Channel!vars
  <2>1. ASSUME NEW size \in 1..PipeSize, Write(t, size)
        PROVE  Channel!Next \/ UNCHANGED Channel!vars
    <3>1. /\ task[t] = "writing" /\ link = "up"
          /\ eof' = eof /\ delivered' = delivered /\ status' = status
          /\ accepted' = Append(accepted, document[t]) \/ accepted' = accepted
      BY <2>1 DEF Write, reader
    <3>2. document[t] \in Messages /\ writer = "open"
      BY <3>1 DEF StreamInv, Turns
    <3>3. ~eof
      BY <3>1, <3>2 DEF StreamInv, EndIsKnown
    <3>4. CASE accepted' = Append(accepted, document[t])
      <4>1. Channel!Send(document[t])
        BY <3>1, <3>3, <3>4 DEF Channel!Send
      <4> QED BY <3>2, <4>1 DEF Channel!Next
    <3>5. CASE accepted' = accepted
      BY <1>1, <3>1, <3>5
    <3> QED BY <3>1, <3>4, <3>5
  <2>2. ASSUME \/ \E d \in Messages : Send(t, d)
               \/ StartWriting(t) \/ FinishSend(t) \/ Cancel(t)
        PROVE  UNCHANGED Channel!vars
    <3>1. UNCHANGED <<accepted, delivered, eof, status>>
      BY <2>2 DEF Send, StartWriting, FinishSend, Cancel, reader
    <3> QED BY <1>1, <3>1
  <2> QED BY <1>3, <2>1, <2>2 DEF SendStep
<1>4. ASSUME Close
      PROVE  UNCHANGED Channel!vars
  <2>1. UNCHANGED <<accepted, delivered, eof, status>>
    BY <1>4 DEF Close, reader
  <2> QED BY <1>1, <2>1
<1>5. ASSUME FinishClose
      PROVE  Channel!Next
  <2>1. eof' = TRUE /\ UNCHANGED <<accepted, delivered, status>>
    BY <1>5 DEF FinishClose, reader
  <2> QED BY <1>2, <2>1
<1>6. ASSUME CutLink
      PROVE  Channel!Next \/ UNCHANGED Channel!vars
  <2>1. eof' \in {eof, TRUE} /\ UNCHANGED <<accepted, delivered, status>>
    BY <1>6 DEF CutLink, reader
  <2> QED BY <1>1, <1>2, <2>1
<1>7. ASSUME Deliver
      PROVE  Channel!Next
  <2>1. /\ status = "open" /\ ready # <<>> /\ delivered' = Append(delivered, Head(ready))
        /\ status' = status /\ eof' = eof /\ accepted' = accepted
    BY <1>7 DEF Deliver, ReturnReady
  <2>2. ready \in Seq(Payloads) /\ delivered \in Seq(Payloads)
    BY DEF StreamInv, TypeOK, ReaderTypeOK
  <2>3. PICK waiting \in Seq(Payloads) : accepted = (delivered \o ready) \o waiting
    BY <2>1 DEF StreamInv, Underway, Behind
  <2> DEFINE s == delivered \o ready
  <2>4. /\ Len(delivered) \in Nat /\ Len(ready) \in Nat /\ Len(ready) >= 1 /\ Head(ready) = ready[1]
    BY <2>1, <2>2
  <2>5. /\ s \in Seq(Payloads) /\ Len(s) = Len(delivered) + Len(ready)
        /\ s[Len(delivered) + 1] = ready[1]
    <3>1. /\ s \in Seq(Payloads) /\ Len(s) = Len(delivered) + Len(ready)
          /\ \A i \in 1..Len(ready) : s[Len(delivered) + i] = ready[i]
      BY <2>2, ConcatShape
    <3> HIDE DEF s
    <3>2. 1 \in 1..Len(ready)
      BY <2>4
    <3> QED BY <3>1, <3>2
  <2>6. accepted = s \o waiting
    BY <2>3
  <2> HIDE DEF s
  <2>7. /\ Len(accepted) = Len(s) + Len(waiting) /\ Len(waiting) \in Nat
        /\ \A i \in 1..Len(s) : accepted[i] = s[i]
    <3>1. s \in Seq(Payloads)
      BY <2>5
    <3>2. /\ Len(s \o waiting) = Len(s) + Len(waiting)
          /\ \A i \in 1..Len(s) : (s \o waiting)[i] = s[i]
      BY <3>1, ConcatShape
    <3> QED BY <2>6, <3>2
  <2>8. Len(delivered) < Len(accepted) /\ accepted[Len(delivered) + 1] = Head(ready)
    <3>1. Len(delivered) + 1 \in 1..Len(s)
      BY <2>4, <2>5
    <3> QED BY <2>4, <2>5, <2>7, <3>1
  <2>9. Channel!Receive
    BY <2>1, <2>8 DEF Channel!Receive
  <2> QED BY <2>9 DEF Channel!Next
<1>8. ASSUME NEW size \in 1..PipeSize, ReadChunk(size)
      PROVE  UNCHANGED Channel!vars
  <2>1. status = "open" /\ status' = "open" /\ delivered' = delivered
    BY <1>8, ChunkIs
  <2>2. eof' = eof /\ accepted' = accepted
    BY <1>8 DEF ReadChunk
  <2> QED BY <1>1, <2>1, <2>2
<1>9. ASSUME ReadEnd
      PROVE  Channel!Next
  <2>1. /\ status = "open" /\ delivered' = delivered
        /\ \/ status' = "ended" /\ accepted = delivered
           \/ status' = "truncated"
    BY <1>9, EndIs
  <2>2. eof /\ eof' = eof /\ accepted' = accepted
    BY <1>9 DEF ReadEnd
  <2>3. eof = TRUE
    BY <2>2 DEF StreamInv, TypeOK
  <2> QED BY <2>1, <2>2, <2>3 DEF Channel!Next, Channel!End, Channel!Fail
<1>10. ASSUME ReadFails
       PROVE  Channel!Next
  <2>1. status = "open" /\ status' = "broken" /\ delivered' = delivered /\ eof' = eof /\ accepted' = accepted
    BY <1>10 DEF ReadFails, Break, AsksForMore
  <2> QED BY <2>1 DEF Channel!Next, Channel!Fail
<1>11. ASSUME UNCHANGED vars
       PROVE  UNCHANGED Channel!vars
  <2>1. UNCHANGED <<accepted, delivered, eof, status>>
    BY <1>11 DEF vars, reader
  <2> QED BY <1>1, <2>1
<1> QED BY <1>3, <1>4, <1>5, <1>6, <1>7, <1>8, <1>9, <1>10, <1>11 DEF Next, ReadStep

\* transport.rs:3 as a specification of its own: under the same assumption the
\* stream is the channel of whole documents, the pieces, the mutex and the
\* reader's buffer seen by nobody.
THEOREM StreamImplementsChannel ==
  ASSUME ~MayCancel
  PROVE  Spec => ImplementsChannel
<1>1. StreamInv /\ [Next]_vars => StreamInv'
  BY StreamNextKeeps
<1> QED BY <1>1, StreamInitEstablishes, ChannelInit, ChannelStep, PTL DEF Spec, ImplementsChannel, Channel!Spec
================================================================================
