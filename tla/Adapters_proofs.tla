--------------------------- MODULE Adapters_proofs ----------------------------
(***************************************************************************)
(* Proofs about the adapters: the runs the legacy ACP server retains, the  *)
(* MCP session over standard input and output, and the dual dialect        *)
(* stream, each for every value of its constants.                          *)
(*                                                                         *)
(* The queue of runs ascends, so that a run is in it once and taking it    *)
(* out takes nothing else with it; a DELETE names a run that was created,  *)
(* and a new run is none of those.                                         *)
(*                                                                         *)
(* A request of an MCP session is in flight, answered, or the last line of *)
(* a session that was refused; a result has an initialize in front of it   *)
(* because the session knows of one only when there was one.               *)
(*                                                                         *)
(* The map of the dual dialect stream has a request at a distance from its *)
(* end that is no more than the number of requests that followed: what the *)
(* cap pushes out at the front was followed by as many.                    *)
(***************************************************************************)
EXTENDS AcpRuns, McpStdio, DualDialect, Lemmas, FiniteSetTheorems,
        SequenceTheorems, WellFoundedInduction, TLAPS

-------------------------------------------------------------------------------
(* The runs of the legacy ACP server. *)

(* What the operators on the queue return. *)

Ordered(q) == \A i, j \in 1..Len(q) : i < j => q[i] < q[j]
Members(q) == {q[i] : i \in 1..Len(q)}

LEMMA SetOfMembers ==
  ASSUME NEW q \in Seq(Runs)
  PROVE  ToSet(q) = Members(q) /\ DOMAIN q = 1..Len(q)
  BY LenProperties DEF ToSet, Members

\* Taking a run out of the queue takes out nothing else.
LEMMA RetainProperties ==
  ASSUME NEW q \in Seq(Runs), Ordered(q), NEW e \in Runs
  PROVE  /\ retain(q, e) \in Seq(Runs) /\ Ordered(retain(q, e))
         /\ Members(retain(q, e)) = Members(q) \ {e}
         /\ Len(retain(q, e)) <= Len(q)
         /\ e \in Members(q) => Len(retain(q, e)) = Len(q) - 1
  <1>1. /\ Len(q) \in Nat
        /\ \A i \in 1..Len(q) : q[i] \in Runs /\ q[i] \in Int
    BY LenProperties, ElementOfSeq, AcpAssumption DEF Runs, AcpAssumption
  <1>2. CASE e \notin Members(q)
    <2>1. retain(q, e) = q
      BY <1>2 DEF retain, RemoveFirst, Members
    <2> QED BY <1>1, <1>2, <2>1
  <1>3. CASE e \in Members(q)
    <2>1. PICK k \in 1..Len(q) : q[k] = e
      BY <1>3 DEF Members
    <2>2. \A i \in 1..Len(q) : q[i] = e => i = k
      BY <1>1, <2>1 DEF Ordered
    <2>3. {i \in 1..Len(q) : q[i] = e} = {k}
      BY <2>1, <2>2
    <2>4. Min({k}) = k
      <3>1. {k} \in SUBSET Nat /\ {k} # {}
        BY <1>1
      <3>2. Min({k}) \in {k}
        BY <3>1, LeastPosition
      <3> QED BY <3>2
    <2>5. SelectInSeq(q, LAMBDA v : v = e) = k
      BY <2>3, <2>4 DEF SelectInSeq
    <2>6. retain(q, e) = RemoveAt(q, k)
      BY <2>1, <2>5 DEF retain, RemoveFirst
    <2> DEFINE R == RemoveAt(q, k)
    <2>7. /\ R \in Seq(Runs) /\ Len(R) = Len(q) - 1
          /\ \A i \in 1..Len(q) - 1 : R[i] = IF i < k THEN q[i] ELSE q[i + 1]
      BY RemoveAtProperties
    <2> HIDE DEF R
    <2>8. Ordered(R)
      <3> SUFFICES ASSUME NEW i \in 1..Len(R), NEW j \in 1..Len(R), i < j
                   PROVE  R[i] < R[j]
        BY DEF Ordered
      <3>1. i \in 1..Len(q) /\ i + 1 \in 1..Len(q) /\ j \in 1..Len(q) /\ j + 1 \in 1..Len(q)
        BY <1>1, <2>7
      <3>2. R[i] = (IF i < k THEN q[i] ELSE q[i + 1]) /\ R[j] = (IF j < k THEN q[j] ELSE q[j + 1])
        BY <2>7
      <3>3. q[i] < q[j] /\ q[i + 1] < q[j + 1] /\ q[i] < q[j + 1]
        BY <3>1 DEF Ordered
      <3> QED BY <3>1, <3>2, <3>3
    <2>9. Members(R) = Members(q) \ {e}
      <3>1. ASSUME NEW i \in 1..Len(R) PROVE R[i] \in Members(q) /\ R[i] # e
        <4>1. i \in 1..Len(q) /\ i + 1 \in 1..Len(q)
          BY <1>1, <2>7
        <4>2. CASE i < k
          BY <4>1, <4>2, <2>2, <2>7 DEF Members
        <4>3. CASE ~(i < k)
          <5>1. R[i] = q[i + 1] /\ i + 1 # k
            BY <4>1, <4>3, <2>7
          <5> QED BY <5>1, <4>1, <2>2 DEF Members
        <4> QED BY <4>2, <4>3
      <3>2. ASSUME NEW i \in 1..Len(q), q[i] # e PROVE \E j \in 1..Len(R) : R[j] = q[i]
        <4>1. i # k
          BY <3>2, <2>1
        <4>2. CASE i < k
          <5>1. i \in 1..Len(R) /\ R[i] = q[i]
            BY <4>2, <1>1, <2>7
          <5> QED BY <5>1
        <4>3. CASE i > k
          <5>1. i - 1 \in 1..Len(R) /\ ~(i - 1 < k) /\ (i - 1) + 1 = i
            BY <4>3, <1>1, <2>7
          <5>2. R[i - 1] = q[(i - 1) + 1]
            BY <5>1, <2>7
          <5> QED BY <5>1, <5>2
        <4> QED BY <4>1, <4>2, <4>3, <1>1
      <3>3. ASSUME NEW r \in Members(R) PROVE r \in Members(q) \ {e}
        <4>1. PICK i \in 1..Len(R) : r = R[i]
          BY <3>3 DEF Members
        <4> QED BY <3>1, <4>1
      <3>4. ASSUME NEW r \in Members(q), r # e PROVE r \in Members(R)
        <4>1. PICK i \in 1..Len(q) : r = q[i]
          BY <3>4 DEF Members
        <4> QED BY <3>2, <3>4, <4>1 DEF Members
      <3> QED BY <3>3, <3>4
    <2> QED BY <1>1, <2>6, <2>7, <2>8, <2>9 DEF R
  <1> QED BY <1>2, <1>3

\* What leaves is in the queue, and is finished if anything in it is.
LEMMA VictimProperties ==
  ASSUME NEW q \in Seq(Runs), q # <<>>, NEW store
  PROVE  /\ victim(store, q) \in Members(q)
         /\ \/ store[victim(store, q)] = "finished"
            \/ \A r \in Members(q) : store[r] # "finished"
  <1> DEFINE I == {i \in 1..Len(q) : store[q[i]] = "finished"}
             first == SelectInSeq(q, LAMBDA r : store[r] = "finished")
  <1>1. Len(q) \in Nat /\ Len(q) >= 1
    BY EmptySeq
  <1>2. first = IF I # {} THEN Min(I) ELSE 0
    BY DEF SelectInSeq
  <1>3. victim(store, q) = q[IF first = 0 THEN 1 ELSE first]
    BY DEF victim
  <1>4. CASE I = {}
    <2>1. victim(store, q) = q[1] /\ 1 \in 1..Len(q)
      BY <1>1, <1>2, <1>3, <1>4
    <2> QED BY <2>1, <1>4 DEF Members
  <1>5. CASE I # {}
    <2>1. I \in SUBSET Nat
      BY <1>1
    <2>2. Min(I) \in I
      BY <2>1, <1>5, LeastPosition
    <2>3. first = Min(I)
      BY <1>2, <1>5
    <2> HIDE DEF first
    <2>4. first \in 1..Len(q) /\ store[q[first]] = "finished"
      BY <2>2, <2>3
    <2>5. victim(store, q) = q[first]
      BY <1>1, <1>3, <2>4
    <2> QED BY <2>4, <2>5 DEF Members
  <1> QED BY <1>4, <1>5

-----------------------------------------------------------------------------
(* The inductive invariant. *)

Decided == {"finished", "null", "cancelled"}

AcpTypeOK ==
  /\ created \in 0..MaxRuns
  /\ runs \in [Runs -> {"absent", "live", "finished"}]
  /\ order \in Seq(Runs)
  /\ delete \in [Deletes -> {"idle", "releasing", "cancelling", "orphaned", "dropped",
                             "removing", "answered"}]
  /\ asked \in [Deletes -> 0..MaxRuns]
  /\ reply \in [Deletes -> {"none", "not found", "error"} \cup Decided]

\* The queue holds what the map holds, in the order of insertion.
StoreInv ==
  /\ Ordered(order) /\ Members(order) = Retained /\ Len(order) <= capacity
  /\ \A r \in Retained : r <= created

\* A DELETE in progress names a run that was created; one that releases its run
\* saw it finished, one that removes it had its hook succeed.
DeleteInv ==
  \A d \in Deletes :
    /\ delete[d] \notin {"idle", "answered", "dropped"} => asked[d] \in 1..created
    /\ delete[d] = "idle" => reply[d] = "none"
    /\ delete[d] = "releasing" => runs[asked[d]] # "live"
    /\ delete[d] = "removing" => asked[d] \in cancelled
    /\ reply[d] \in Decided => asked[d] \in 1..created /\ asked[d] \notin Retained

AcpInv == AcpTypeOK /\ StoreInv /\ DeleteInv

LEMMA CapacityIsPositive == capacity \in Nat /\ capacity >= 1
  BY AcpAssumption DEF AcpAssumption, capacity

LEMMA CreatedBounds == AcpInv => created \in Nat /\ created <= MaxRuns /\ MaxRuns \in Nat
  <1>1. AcpInv => created \in 0..MaxRuns
    BY DEF AcpInv, AcpTypeOK
  <1>2. MaxRuns \in Nat
    BY AcpAssumption DEF AcpAssumption
  <1> QED BY <1>1, <1>2

LEMMA AcpInvOrders == AcpInv => StoreInOrder
  <1> SUFFICES ASSUME AcpInv PROVE StoreInOrder
    OBVIOUS
  <1>1. order \in Seq(Runs)
    BY DEF AcpInv, AcpTypeOK
  <1>2. ToSet(order) = Members(order) /\ DOMAIN order = 1..Len(order)
    BY <1>1, SetOfMembers
  <1> QED BY <1>2 DEF AcpInv, StoreInv, DeleteInv, StoreInOrder, Ordered, Decided

LEMMA AcpInvInit == AcpInit => AcpInv
  <1> SUFFICES ASSUME AcpInit PROVE AcpInv
    OBVIOUS
  <1>1. order \in Seq(Runs) /\ Len(order) = 0
    BY EmptySeq DEF AcpInit
  <1>2. AcpTypeOK
    BY <1>1, AcpAssumption DEF AcpInit, AcpTypeOK, AcpAssumption
  <1>3. StoreInv
    BY <1>1, CapacityIsPositive DEF AcpInit, StoreInv, Ordered, Members, Retained
  <1>4. DeleteInv
    BY DEF AcpInit, DeleteInv, Decided
  <1> QED BY <1>2, <1>3, <1>4 DEF AcpInv

-----------------------------------------------------------------------------
(* What the two operations do to a store that is in order. *)

\* A run that leaves takes nothing else with it.
LEMMA RemoveKeepsStore ==
  ASSUME AcpInv, NEW r \in Runs, remove(r), UNCHANGED created
  PROVE  /\ runs' \in [Runs -> {"absent", "live", "finished"}] /\ order' \in Seq(Runs)
         /\ StoreInv' /\ Retained' = Retained \ {r}
         /\ \A other \in Runs : other # r => runs'[other] = runs[other]
  <1>1. runs' = [runs EXCEPT ![r] = "absent"] /\ order' = retain(order, r)
    BY DEF remove
  <1>2. /\ order \in Seq(Runs) /\ Ordered(order) /\ Members(order) = Retained
        /\ Len(order) <= capacity /\ Len(order) \in Nat
    BY LenProperties DEF AcpInv, AcpTypeOK, StoreInv
  <1>3. /\ order' \in Seq(Runs) /\ Ordered(order') /\ Members(order') = Retained \ {r}
        /\ Len(order') <= Len(order) /\ Len(order') \in Nat
    BY <1>1, <1>2, RetainProperties, LenProperties
  <1>4. /\ runs' \in [Runs -> {"absent", "live", "finished"}]
        /\ Retained' = Retained \ {r}
        /\ \A other \in Runs : other # r => runs'[other] = runs[other]
    BY <1>1 DEF AcpInv, AcpTypeOK, Retained
  <1>5. Len(order') <= capacity
    BY <1>2, <1>3, CapacityIsPositive
  <1>6. StoreInv'
    BY <1>3, <1>4, <1>5 DEF StoreInv, AcpInv, capacity, Ordered, Members
  <1> QED BY <1>3, <1>4, <1>6

\* A new run stays, unless it is the one that leaves; what leaves makes room, and
\* is a live run only where nothing retained is finished.
LEMMA InsertKeepsStore ==
  ASSUME AcpInv, NEW status \in {"live", "finished"}, handle_create_run(status)
  PROVE  /\ created' = created + 1 /\ created' \in 0..MaxRuns
         /\ runs' \in [Runs -> {"absent", "live", "finished"}] /\ order' \in Seq(Runs)
         /\ StoreInv' /\ Retained' \subseteq Retained \cup {created'}
         /\ \A r \in Retained : runs'[r] # runs[r] =>
              /\ runs'[r] = "absent"
              /\ runs[r] = "live" => \A other \in Runs : runs'[other] # "finished"
  <1> DEFINE new == created + 1
             store == [runs EXCEPT ![new] = status]
             queue == Append(order, new)
             out == victim(store, queue)
  <1>1. created' = new /\ created < MaxRuns /\ insert(new, status)
    BY DEF handle_create_run
  <1>2. created \in Nat /\ new \in Runs /\ new \in Nat
    <2>1. created \in 0..MaxRuns /\ MaxRuns \in Nat /\ created < MaxRuns
      BY <1>1, AcpAssumption DEF AcpInv, AcpTypeOK, AcpAssumption
    <2> QED BY <2>1 DEF Runs
  <1>3. \A r \in Runs : r \in Nat
    BY AcpAssumption DEF Runs, AcpAssumption
  <1>4. /\ order \in Seq(Runs) /\ Len(order) \in Nat /\ Len(order) <= capacity
        /\ Ordered(order) /\ Members(order) = Retained
    BY LenProperties DEF AcpInv, AcpTypeOK, StoreInv
  <1>5. /\ queue \in Seq(Runs) /\ queue # <<>> /\ Len(queue) = Len(order) + 1
        /\ \A i \in 1..Len(order) : queue[i] = order[i]
        /\ queue[Len(order) + 1] = new
    BY <1>2, <1>4, AppendProperties
  <1>6. \A i \in 1..Len(order) : order[i] \in Retained /\ order[i] < new
    <2>1. \A i \in 1..Len(order) : order[i] \in Retained
      BY <1>4 DEF Members
    <2>2. \A r \in Retained : r <= created /\ r \in Nat
      BY <1>3 DEF AcpInv, StoreInv, Retained
    <2> QED BY <2>1, <2>2, <1>2
  <1>7. /\ store \in [Runs -> {"absent", "live", "finished"}] /\ store[new] = status
        /\ \A r \in Runs : r # new => store[r] = runs[r]
    BY <1>2 DEF AcpInv, AcpTypeOK
  <1>8. new \notin Retained
    <2>1. \A r \in Retained : r <= created
      BY DEF AcpInv, StoreInv
    <2> QED BY <2>1, <1>2
  <1>9. {r \in Runs : store[r] # "absent"} = Retained \cup {new}
    BY <1>2, <1>7 DEF Retained
  <1> HIDE DEF store, queue
  <1>10. Ordered(queue)
    <2> SUFFICES ASSUME NEW i \in 1..Len(queue), NEW j \in 1..Len(queue), i < j
                 PROVE  queue[i] < queue[j]
      BY DEF Ordered
    <2>1. i \in 1..Len(order) /\ (j \in 1..Len(order) \/ j = Len(order) + 1)
      BY <1>4, <1>5
    <2>2. CASE j \in 1..Len(order)
      BY <2>1, <2>2, <1>4, <1>5 DEF Ordered
    <2>3. CASE j = Len(order) + 1
      BY <2>1, <2>3, <1>5, <1>6
    <2> QED BY <2>1, <2>2, <2>3
  <1>11. Members(queue) = Retained \cup {new}
    <2>1. \A i \in 1..Len(queue) : i \in 1..Len(order) \/ i = Len(order) + 1
      BY <1>4, <1>5
    <2>2. \A i \in 1..Len(queue) : queue[i] \in Retained \cup {new}
      BY <2>1, <1>5, <1>6
    <2>3. Len(order) + 1 \in 1..Len(queue) /\ \A i \in 1..Len(order) : i \in 1..Len(queue)
      BY <1>4, <1>5
    <2>4. \A r \in Retained : \E i \in 1..Len(queue) : queue[i] = r
      BY <2>3, <1>4, <1>5 DEF Members
    <2> QED BY <2>2, <2>3, <2>4, <1>5 DEF Members
  <1>12. /\ out \in Members(queue)
         /\ store[out] = "finished" \/ \A r \in Members(queue) : store[r] # "finished"
    BY <1>5, VictimProperties
  <1>13. IF Len(queue) <= capacity THEN runs' = store /\ order' = queue
         ELSE runs' = [store EXCEPT ![out] = "absent"] /\ order' = retain(queue, out)
    BY <1>1 DEF insert, store, queue
  <1> HIDE DEF out
  <1>14. \A r \in Retained \cup {new} : r \in Nat /\ r <= new
    BY <1>2, <1>3 DEF AcpInv, StoreInv, Retained
  <1>15. CASE Len(queue) <= capacity
    <2>1. runs' = store /\ order' = queue
      BY <1>13, <1>15
    <2>2. Retained' = Retained \cup {new}
      BY <2>1, <1>9 DEF Retained
    <2>3. StoreInv'
      BY <2>1, <2>2, <1>1, <1>10, <1>11, <1>14, <1>15 DEF StoreInv, Ordered, Members, capacity
    <2>4. \A r \in Retained : runs'[r] = runs[r]
      BY <2>1, <1>7, <1>8 DEF Retained
    <2> QED BY <2>1, <2>2, <2>3, <2>4, <1>1, <1>2, <1>5, <1>7 DEF Runs
  <1>16. CASE ~(Len(queue) <= capacity)
    <2>1. runs' = [store EXCEPT ![out] = "absent"] /\ order' = retain(queue, out)
      BY <1>13, <1>16
    <2>2. out \in Runs
      BY <1>2, <1>11, <1>12 DEF Retained
    <2>3. /\ order' \in Seq(Runs) /\ Ordered(order') /\ Members(order') = Members(queue) \ {out}
          /\ Len(order') = Len(queue) - 1
      BY <2>1, <2>2, <1>5, <1>10, <1>12, RetainProperties
    <2>4. Len(order') <= capacity
      BY <2>3, <1>4, <1>5
    <2>5. /\ runs' \in [Runs -> {"absent", "live", "finished"}] /\ runs'[out] = "absent"
          /\ \A r \in Runs : r # out => runs'[r] = store[r]
      BY <2>1, <2>2, <1>7
    <2>6. Retained' = (Retained \cup {new}) \ {out}
      BY <2>2, <2>5, <1>9 DEF Retained
    <2>7. \A r \in Retained' : r <= created'
      BY <2>6, <1>1, <1>14
    <2>8. StoreInv'
      BY <2>3, <2>4, <2>6, <2>7, <1>11 DEF StoreInv, Ordered, Members, capacity
    <2>9. ASSUME NEW r \in Retained, runs'[r] # runs[r]
          PROVE  /\ runs'[r] = "absent"
                 /\ runs[r] = "live" => \A other \in Runs : runs'[other] # "finished"
      <3>1. r \in Runs /\ r # new /\ store[r] = runs[r]
        BY <1>7, <1>8 DEF Retained
      <3>2. r = out
        BY <2>9, <3>1, <2>5
      <3>3. ASSUME runs[r] = "live", NEW other \in Runs PROVE runs'[other] # "finished"
        <4>1. \A q \in Retained \cup {new} : store[q] # "finished"
          BY <3>1, <3>2, <3>3, <1>11, <1>12
        <4>2. store[other] # "finished"
          BY <4>1, <1>9
        <4> QED BY <4>2, <2>5
      <3> QED BY <3>2, <3>3, <2>5
    <2> QED BY <2>3, <2>5, <2>6, <2>8, <2>9, <1>1, <1>2 DEF Runs
  <1> QED BY <1>15, <1>16

-----------------------------------------------------------------------------
(* Every step keeps the invariant, and no live run is forgotten. *)

LEMMA AcpStep == AcpInv /\ [AcpNext]_acpVars => AcpInv' /\ [LiveRunsStay]_acpVars
  <1> SUFFICES ASSUME AcpInv, [AcpNext]_acpVars PROVE AcpInv' /\ [LiveRunsStay]_acpVars
    OBVIOUS
  <1>1. created \in Nat /\ \A r \in Runs : r \in 1..MaxRuns
    BY CreatedBounds DEF Runs
  <1>2. ASSUME NEW status \in {"live", "finished"}, handle_create_run(status)
        PROVE  AcpInv' /\ LiveRunsStay
    <2>1. /\ created' = created + 1 /\ created' \in 0..MaxRuns
          /\ runs' \in [Runs -> {"absent", "live", "finished"}] /\ order' \in Seq(Runs)
          /\ StoreInv' /\ Retained' \subseteq Retained \cup {created'}
          /\ \A r \in Retained : runs'[r] # runs[r] =>
               /\ runs'[r] = "absent"
               /\ runs[r] = "live" => \A other \in Runs : runs'[other] # "finished"
      BY <1>2, InsertKeepsStore
    <2>2. UNCHANGED <<delete, asked, reply, cancelled>>
      BY <1>2 DEF handle_create_run
    <2>3. AcpTypeOK'
      BY <2>1, <2>2 DEF AcpInv, AcpTypeOK
    <2>4. ASSUME NEW d \in Deletes
          PROVE  /\ delete'[d] \notin {"idle", "answered", "dropped"} => asked'[d] \in 1..created'
                 /\ delete'[d] = "idle" => reply'[d] = "none"
                 /\ delete'[d] = "releasing" => runs'[asked'[d]] # "live"
                 /\ delete'[d] = "removing" => asked'[d] \in cancelled'
                 /\ reply'[d] \in Decided => asked'[d] \in 1..created' /\ asked'[d] \notin Retained'
      <3>1. asked[d] \in 1..created => asked[d] \in 1..created' /\ asked[d] # created'
        BY <1>1, <2>1
      <3>2. asked[d] \in 1..created => asked[d] \in Runs
        BY <2>1, <1>1, AcpAssumption DEF AcpAssumption, Runs
      <3>3. asked[d] \in 1..created /\ runs[asked[d]] # "live" => runs'[asked[d]] # "live"
        <4> SUFFICES ASSUME asked[d] \in 1..created, runs[asked[d]] # "live"
                     PROVE  runs'[asked[d]] # "live"
          OBVIOUS
        <4>1. CASE asked[d] \in Retained
          BY <4>1, <2>1
        <4>2. CASE asked[d] \notin Retained
          BY <4>2, <2>1, <3>1, <3>2 DEF Retained
        <4> QED BY <4>1, <4>2
      <3>4. asked[d] \in 1..created /\ asked[d] \notin Retained => asked[d] \notin Retained'
        BY <2>1, <3>1
      <3> QED BY <2>2, <3>1, <3>3, <3>4 DEF AcpInv, DeleteInv
    <2>5. DeleteInv'
      BY <2>4 DEF DeleteInv, Retained
    <2>6. LiveRunsStay
      BY <2>1 DEF LiveRunsStay
    <2> QED BY <2>1, <2>3, <2>5, <2>6 DEF AcpInv
  \* A DELETE that does not touch the store.
  <1>3. ASSUME UNCHANGED <<created, runs, order>>, AcpTypeOK', DeleteInv'
        PROVE  AcpInv' /\ LiveRunsStay
    <2>1. StoreInv'
      BY <1>3 DEF AcpInv, StoreInv, Ordered, Members, Retained, capacity
    <2>2. LiveRunsStay
      BY <1>3 DEF LiveRunsStay, Retained
    <2> QED BY <1>3, <2>1, <2>2 DEF AcpInv
  <1>4. ASSUME NEW d \in Deletes, NEW r \in Runs, LookUp(d, r) PROVE AcpInv' /\ LiveRunsStay
    <2>1. /\ UNCHANGED <<created, runs, order, cancelled>> /\ delete[d] = "idle"
          /\ asked' = [asked EXCEPT ![d] = r]
          /\ \/ runs[r] = "absent" /\ delete' = [delete EXCEPT ![d] = "answered"]
                /\ reply' = [reply EXCEPT ![d] = "not found"]
             \/ runs[r] = "finished" /\ delete' = [delete EXCEPT ![d] = "releasing"] /\ reply' = reply
             \/ runs[r] = "live" /\ delete' = [delete EXCEPT ![d] = "cancelling"] /\ reply' = reply
      BY <1>4 DEF LookUp, Goes, Answers
    <2>2. reply[d] = "none"
      BY <2>1 DEF AcpInv, DeleteInv
    <2>3. r \in 0..MaxRuns /\ (runs[r] # "absent" => r \in 1..created)
      BY <1>1 DEF AcpInv, StoreInv, Retained
    <2>4. AcpTypeOK'
      BY <2>1, <2>3 DEF AcpInv, AcpTypeOK
    <2>5. ASSUME NEW e \in Deletes
          PROVE  /\ delete'[e] \notin {"idle", "answered", "dropped"} => asked'[e] \in 1..created'
                 /\ delete'[e] = "idle" => reply'[e] = "none"
                 /\ delete'[e] = "releasing" => runs'[asked'[e]] # "live"
                 /\ delete'[e] = "removing" => asked'[e] \in cancelled'
                 /\ reply'[e] \in Decided => asked'[e] \in 1..created' /\ asked'[e] \notin Retained'
      <3>1. Retained' = Retained
        BY <2>1 DEF Retained
      <3>2. CASE e = d
        <4>1. asked'[e] = r
          BY <3>2, <2>1 DEF AcpInv, AcpTypeOK
        <4>2. \/ delete'[e] = "answered" /\ reply'[e] = "not found"
              \/ delete'[e] = "releasing" /\ reply'[e] = "none" /\ runs[r] = "finished"
              \/ delete'[e] = "cancelling" /\ reply'[e] = "none" /\ runs[r] = "live"
          BY <3>2, <2>1, <2>2 DEF AcpInv, AcpTypeOK
        <4> QED BY <4>1, <4>2, <2>1, <2>3 DEF Decided
      <3>3. CASE e # d
        <4>1. delete'[e] = delete[e] /\ reply'[e] = reply[e] /\ asked'[e] = asked[e]
          BY <3>3, <2>1 DEF AcpInv, AcpTypeOK
        <4>2. runs' = runs /\ cancelled' = cancelled /\ created' = created
          BY <2>1
        <4> QED BY <4>1, <4>2, <3>1 DEF AcpInv, DeleteInv
      <3> QED BY <3>2, <3>3
    <2>6. DeleteInv'
      BY <2>5 DEF DeleteInv, Retained
    <2> QED BY <1>3, <2>1, <2>4, <2>6
  <1>5. ASSUME NEW d \in Deletes, HookSucceeds(d) \/ HookFails(d) \/ DropDelete(d)
        PROVE  AcpInv' /\ LiveRunsStay
    <2>1. /\ UNCHANGED <<created, runs, order, asked>> /\ cancelled \subseteq cancelled'
          /\ delete[d] \in {"cancelling", "orphaned"}
          /\ \E to \in {"dropped", "removing", "answered", "orphaned"} :
               /\ delete' = [delete EXCEPT ![d] = to]
               /\ to = "removing" => asked[d] \in cancelled'
          /\ reply' = reply \/ reply' = [reply EXCEPT ![d] = "error"]
      BY <1>5 DEF HookSucceeds, HookFails, DropDelete, Goes, Answers
    <2>2. AcpTypeOK'
      BY <2>1 DEF AcpInv, AcpTypeOK
    <2>3. ASSUME NEW e \in Deletes
          PROVE  /\ delete'[e] \notin {"idle", "answered", "dropped"} => asked'[e] \in 1..created'
                 /\ delete'[e] = "idle" => reply'[e] = "none"
                 /\ delete'[e] = "releasing" => runs'[asked'[e]] # "live"
                 /\ delete'[e] = "removing" => asked'[e] \in cancelled'
                 /\ reply'[e] \in Decided => asked'[e] \in 1..created' /\ asked'[e] \notin Retained'
      <3>1. Retained' = Retained
        BY <2>1 DEF Retained
      <3>2. CASE e = d
        <4>1. /\ delete'[e] \in {"dropped", "removing", "answered", "orphaned"}
              /\ delete'[e] = "removing" => asked[e] \in cancelled'
              /\ reply'[e] = reply[e] \/ reply'[e] = "error"
          BY <3>2, <2>1 DEF AcpInv, AcpTypeOK
        <4>2. asked[e] \in 1..created
          BY <3>2, <2>1 DEF AcpInv, DeleteInv
        <4> QED BY <4>1, <4>2, <3>1, <2>1 DEF AcpInv, DeleteInv, Decided
      <3>3. CASE e # d
        <4>1. delete'[e] = delete[e] /\ reply'[e] = reply[e]
          BY <3>3, <2>1 DEF AcpInv, AcpTypeOK
        <4>2. runs' = runs /\ asked' = asked /\ created' = created /\ cancelled \subseteq cancelled'
          BY <2>1
        <4> QED BY <4>1, <4>2, <3>1 DEF AcpInv, DeleteInv
      <3> QED BY <3>2, <3>3
    <2>4. DeleteInv'
      BY <2>3 DEF DeleteInv, Retained
    <2> QED BY <1>3, <2>1, <2>2, <2>4
  <1>6. ASSUME NEW d \in Deletes, Release(d) \/ RemoveCancelled(d)
        PROVE  AcpInv' /\ LiveRunsStay
    <2>1. /\ remove(asked[d]) /\ UNCHANGED <<created, asked, cancelled>>
          /\ delete' = [delete EXCEPT ![d] = "answered"]
          /\ \E text \in Decided : reply' = [reply EXCEPT ![d] = text]
          /\ delete[d] \in {"releasing", "removing"}
      BY <1>6 DEF Release, RemoveCancelled, Goes, Answers, Decided
    <2>2. asked[d] \in 1..created /\ asked[d] \in Runs
      <3>1. asked[d] \in 1..created
        BY <2>1 DEF AcpInv, DeleteInv
      <3>2. created <= MaxRuns /\ MaxRuns \in Nat
        BY CreatedBounds
      <3> QED BY <1>1, <3>1, <3>2 DEF Runs
    <2>3. /\ runs' \in [Runs -> {"absent", "live", "finished"}] /\ order' \in Seq(Runs)
          /\ StoreInv' /\ Retained' = Retained \ {asked[d]}
          /\ \A other \in Runs : other # asked[d] => runs'[other] = runs[other]
      BY <2>1, <2>2, RemoveKeepsStore
    <2>4. AcpTypeOK'
      BY <2>1, <2>3 DEF AcpInv, AcpTypeOK, Decided
    <2>5. \A r \in Runs : runs'[r] = "live" => runs[r] = "live"
      BY <2>2, <2>3 DEF Retained
    <2>6. \A e \in Deletes : asked[e] \in 1..created => asked[e] \in Runs
      <3>1. created <= MaxRuns /\ MaxRuns \in Nat
        BY CreatedBounds
      <3> QED BY <1>1, <3>1 DEF Runs
    <2>7. ASSUME NEW e \in Deletes
          PROVE  /\ delete'[e] \notin {"idle", "answered", "dropped"} => asked'[e] \in 1..created'
                 /\ delete'[e] = "idle" => reply'[e] = "none"
                 /\ delete'[e] = "releasing" => runs'[asked'[e]] # "live"
                 /\ delete'[e] = "removing" => asked'[e] \in cancelled'
                 /\ reply'[e] \in Decided => asked'[e] \in 1..created' /\ asked'[e] \notin Retained'
      <3>1. CASE e = d
        BY <3>1, <2>1, <2>2, <2>3 DEF AcpInv, AcpTypeOK
      <3>2. CASE e # d
        <4>1. delete'[e] = delete[e] /\ reply'[e] = reply[e] /\ asked'[e] = asked[e]
          BY <3>2, <2>1 DEF AcpInv, AcpTypeOK
        <4>2. delete[e] = "releasing" => runs'[asked[e]] # "live"
          BY <2>5, <2>6 DEF AcpInv, DeleteInv
        <4> QED BY <4>1, <4>2, <2>1, <2>3 DEF AcpInv, DeleteInv
      <3> QED BY <3>1, <3>2
    <2>8. DeleteInv'
      BY <2>7 DEF DeleteInv, Retained
    <2>9. LiveRunsStay
      <3> SUFFICES ASSUME NEW r \in Retained, runs[r] = "live", runs'[r] = "absent"
                   PROVE  r \in cancelled
        BY DEF LiveRunsStay
      <3>1. r = asked[d]
        BY <2>3 DEF Retained
      <3>2. delete[d] = "removing"
        BY <3>1, <2>1 DEF AcpInv, DeleteInv
      <3> QED BY <3>1, <3>2 DEF AcpInv, DeleteInv
    <2> QED BY <2>3, <2>4, <2>8, <2>9 DEF AcpInv
  <1>7. CASE UNCHANGED acpVars
    <2>1. AcpTypeOK' /\ DeleteInv'
      BY <1>7 DEF acpVars, AcpInv, AcpTypeOK, DeleteInv, Retained
    <2> QED BY <1>3, <1>7, <2>1 DEF acpVars
  <1> QED
    BY <1>2, <1>4, <1>5, <1>6, <1>7 DEF AcpNext, handle_cancel_run

-----------------------------------------------------------------------------

LEMMA AcpInvariant == AcpSpec => []AcpInv
  <1>1. AcpInv /\ [AcpNext]_acpVars => AcpInv'
    BY AcpStep
  <1> QED BY AcpInvInit, <1>1, PTL DEF AcpSpec

\* For any capacity and any number of runs and DELETE requests: map and queue of
\* RunStore agree, each run is in the queue once and the oldest first, the
\* capacity is kept, and what a DELETE released stays away; a live run leaves only
\* after its own cancel hook, or for a new run where none retained is finished.
THEOREM RunsAreRetained == AcpSpec => RunsRetained
  <1>1. AcpInv /\ [AcpNext]_acpVars => [LiveRunsStay]_acpVars
    BY AcpStep
  <1>2. AcpSpec => [][LiveRunsStay]_acpVars
    BY AcpInvariant, <1>1, PTL DEF AcpSpec
  <1>3. AcpSpec => []StoreInOrder
    BY AcpInvariant, AcpInvOrders, PTL
  <1> QED BY <1>2, <1>3 DEF RunsRetained

-------------------------------------------------------------------------------
(* The MCP session. *)

Requests == {"initialize", "feature"}
PendingLines == [line : Nat, result : {"none", "error", "result"}]
McpSession == [lines : Seq(LineKinds), initialized : BOOLEAN, inFlight : SUBSET PendingLines, over : BOOLEAN]
WrittenAnswers == Seq([line : Nat, result : {"error", "result"}])

\* A result comes only behind an initialize.
Greeted(ls, n) == \E m \in 1..n : ls[m] = "initialize"

\* What the session took is in flight, each line at most once and within the cap.
TakenHolds(ls, greeted, fl) ==
  /\ IsFiniteSet(fl) /\ Cardinality(fl) <= maxInFlight
  /\ greeted => Greeted(ls, Len(ls))
  /\ \A p \in fl : /\ p.line \in 1..Len(ls) /\ ls[p.line] # "blank"
                   /\ p.result = "none" <=> ls[p.line] = "notification"
                   /\ p.result = "result" => Greeted(ls, p.line)
  /\ \A p, r \in fl : p.line = r.line => p = r

\* What was answered are requests, once each, and in flight no more.
AnswersHold(ls, fl, ans) ==
  /\ \A i \in 1..Len(ans) : /\ ans[i].line \in 1..Len(ls) /\ ls[ans[i].line] \in Requests
                            /\ ans[i].result = "result" => Greeted(ls, ans[i].line)
                            /\ \A p \in fl : p.line # ans[i].line
  /\ \A i, j \in 1..Len(ans) : ans[i].line = ans[j].line => i = j

\* No request is lost, but the one that ended the session.
NoneLost(ls, fl, over, ans) ==
  \A n \in 1..Len(ls) : ls[n] \in Requests =>
    \/ \E p \in fl : p.line = n
    \/ \E i \in 1..Len(ans) : ans[i].line = n
    \/ over /\ n = Len(ls)

SessionHolds(s) ==
  /\ s \in McpSession
  /\ TakenHolds(s.lines, s.initialized, s.inFlight)
  /\ AnswersHold(s.lines, s.inFlight, answered)
  /\ NoneLost(s.lines, s.inFlight, s.over, answered)

\* The inductive invariant.
McpInv ==
  /\ lines \in Seq(LineKinds) /\ initialized \in BOOLEAN /\ inFlight \in SUBSET PendingLines
  /\ answered \in WrittenAnswers
  /\ refusals \in {0, 1}
  /\ stdin \in {"open", "destroyed", "ended", "closed"}
  /\ finishing \in {"no", "waiting", "done"}
  /\ TakenHolds(lines, initialized, inFlight)
  /\ AnswersHold(lines, inFlight, answered)
  /\ NoneLost(lines, inFlight, refusals = 1, answered)
  /\ stdin = "open" => refusals = 0 /\ finishing = "no"
  /\ finishing = "done" => inFlight = {}

-----------------------------------------------------------------------------
\* The lines of a chunk.

\* A line that was read, with nothing else, disturbs no earlier one.
LEMMA ReadFacts ==
  ASSUME NEW ls \in Seq(LineKinds), NEW kind \in LineKinds
  PROVE  /\ Append(ls, kind) \in Seq(LineKinds)
         /\ Len(ls) \in Nat /\ Len(Append(ls, kind)) = Len(ls) + 1
         /\ \A n \in 1..Len(ls) : Append(ls, kind)[n] = ls[n]
         /\ Append(ls, kind)[Len(ls) + 1] = kind
         /\ \A n \in 1..Len(ls) : Greeted(ls, n) => Greeted(Append(ls, kind), n)
         /\ Greeted(ls, Len(ls)) => Greeted(Append(ls, kind), Len(ls) + 1)
         /\ kind = "initialize" => Greeted(Append(ls, kind), Len(ls) + 1)
<1> DEFINE l == Append(ls, kind)
           k == Len(ls)
<1>1. /\ l \in Seq(LineKinds) /\ k \in Nat /\ Len(l) = k + 1
      /\ \A n \in 1..k : l[n] = ls[n]
      /\ l[k + 1] = kind
  OBVIOUS
<1> HIDE DEF l, k
<1>2. \A n \in 1..k : Greeted(ls, n) => Greeted(l, n)
  BY <1>1 DEF Greeted
<1>3. Greeted(ls, k) => Greeted(l, k + 1)
  BY <1>1 DEF Greeted
<1>4. kind = "initialize" => Greeted(l, k + 1)
  BY <1>1 DEF Greeted
<1> QED BY <1>1, <1>2, <1>3, <1>4 DEF l, k

LEMMA TakeLineTypes ==
  ASSUME NEW s \in McpSession, NEW kind \in LineKinds
  PROVE  TakeLine(s, kind) \in McpSession
<1> DEFINE read == [s EXCEPT !.lines = Append(@, kind)]
           pending == [line |-> Len(read.lines), result |-> Result(s, kind)]
<1>1. read \in McpSession /\ read.lines = Append(s.lines, kind)
  BY DEF McpSession
<1>2. Result(s, kind) \in {"none", "error", "result"}
  BY DEF Result
<1>3. Len(read.lines) \in Nat
  BY <1>1 DEF McpSession
<1>4. pending \in PendingLines
  BY <1>2, <1>3 DEF PendingLines
<1>5. TakeLine(s, kind) \in {s, read, [read EXCEPT !.over = TRUE],
        [read EXCEPT !.inFlight = @ \cup {pending},
                     !.initialized = @ \/ kind = "initialize"]}
  BY DEF TakeLine
<1> HIDE DEF read, pending
<1>6. [read EXCEPT !.over = TRUE] \in McpSession
  BY <1>1 DEF McpSession
<1>7. [read EXCEPT !.inFlight = @ \cup {pending},
                   !.initialized = @ \/ kind = "initialize"] \in McpSession
  <2>1. read.inFlight \cup {pending} \in SUBSET PendingLines
    BY <1>1, <1>4 DEF McpSession
  <2> QED BY <1>1, <2>1 DEF McpSession
<1> QED BY <1>1, <1>5, <1>6, <1>7

LEMMA TakeLineHolds ==
  ASSUME NEW s, NEW kind \in LineKinds, SessionHolds(s)
  PROVE  SessionHolds(TakeLine(s, kind))
<1> USE McpAssumption
<1> DEFINE k == Len(s.lines)
           l == Append(s.lines, kind)
           read == [s EXCEPT !.lines = Append(@, kind)]
           pending == [line |-> Len(read.lines), result |-> Result(s, kind)]
           d == TakeLine(s, kind)
<1>1. s \in McpSession /\ s.lines \in Seq(LineKinds) /\ d \in McpSession
  BY TakeLineTypes DEF SessionHolds, McpSession
<1>2. /\ l \in Seq(LineKinds) /\ k \in Nat /\ Len(l) = k + 1
      /\ \A n \in 1..k : l[n] = s.lines[n]
      /\ l[k + 1] = kind
      /\ \A n \in 1..k : Greeted(s.lines, n) => Greeted(l, n)
      /\ Greeted(s.lines, k) => Greeted(l, k + 1)
      /\ kind = "initialize" => Greeted(l, k + 1)
  BY <1>1, ReadFacts
<1>3. /\ read.lines = l /\ read.inFlight = s.inFlight /\ read.initialized = s.initialized
      /\ read.over = s.over /\ read \in McpSession
  BY <1>1, <1>2 DEF McpSession
<1>4. /\ TakenHolds(s.lines, s.initialized, s.inFlight)
      /\ AnswersHold(s.lines, s.inFlight, answered)
      /\ NoneLost(s.lines, s.inFlight, s.over, answered)
  BY DEF SessionHolds
<1>5. TakenHolds(l, s.initialized, s.inFlight)
  <2>1. s.initialized => Greeted(l, Len(l))
    BY <1>2, <1>4 DEF TakenHolds, k
  <2>2. ASSUME NEW p \in s.inFlight
        PROVE  /\ p.line \in 1..Len(l) /\ l[p.line] # "blank"
               /\ p.result = "none" <=> l[p.line] = "notification"
               /\ p.result = "result" => Greeted(l, p.line)
    <3>1. p.line \in 1..k
      BY <1>4 DEF TakenHolds
    <3> HIDE DEF l
    <3> QED BY <1>2, <1>4, <3>1 DEF TakenHolds, k
  <2> QED BY <1>4, <2>1, <2>2 DEF TakenHolds
<1>6. AnswersHold(l, s.inFlight, answered)
  <2>1. ASSUME NEW i \in 1..Len(answered)
        PROVE  /\ answered[i].line \in 1..Len(l) /\ l[answered[i].line] \in Requests
               /\ answered[i].result = "result" => Greeted(l, answered[i].line)
    <3>1. answered[i].line \in 1..k
      BY <1>4 DEF AnswersHold
    <3> HIDE DEF l
    <3> QED BY <1>2, <1>4, <3>1 DEF AnswersHold, k
  <2> QED BY <1>4, <2>1 DEF AnswersHold
<1>7. CASE s.over
  BY <1>7 DEF TakeLine
<1>8. CASE ~s.over /\ kind = "blank"
  <2>1. d = read
    BY <1>8 DEF TakeLine
  <2>2. NoneLost(l, s.inFlight, s.over, answered)
    <3>1. ASSUME NEW n \in 1..Len(l), l[n] \in Requests
          PROVE  (\E p \in s.inFlight : p.line = n) \/ \E i \in 1..Len(answered) : answered[i].line = n
      <4>1. n \in 1..k
        BY <1>2, <1>8, <3>1 DEF Requests
      <4> QED BY <1>2, <1>4, <1>8, <3>1, <4>1 DEF NoneLost
    <3> QED BY <3>1 DEF NoneLost
  <2> QED BY <1>1, <1>3, <1>5, <1>6, <1>8, <2>1, <2>2 DEF SessionHolds
<1>9. CASE ~s.over /\ kind # "blank" /\ Cardinality(s.inFlight) >= maxInFlight
  <2>1. d = [read EXCEPT !.over = TRUE]
    BY <1>9 DEF TakeLine
  <2> HIDE DEF read
  <2>2. /\ d.lines = l /\ d.inFlight = s.inFlight /\ d.initialized = s.initialized
        /\ d.over
    BY <1>3, <2>1 DEF McpSession
  <2>3. NoneLost(l, s.inFlight, TRUE, answered)
    <3>1. ASSUME NEW n \in 1..Len(l), l[n] \in Requests, n # Len(l)
          PROVE  (\E p \in s.inFlight : p.line = n) \/ \E i \in 1..Len(answered) : answered[i].line = n
      <4>1. n \in 1..k
        BY <1>2, <3>1
      <4> QED BY <1>2, <1>4, <1>9, <3>1, <4>1 DEF NoneLost
    <3> QED BY <3>1 DEF NoneLost
  <2> QED BY <1>1, <1>5, <1>6, <2>2, <2>3 DEF SessionHolds
<1>10. CASE ~s.over /\ kind # "blank" /\ Cardinality(s.inFlight) < maxInFlight
  <2> DEFINE fl == s.inFlight \cup {pending}
             greeted == s.initialized \/ kind = "initialize"
  <2>1. d = [read EXCEPT !.inFlight = @ \cup {pending},
                         !.initialized = @ \/ kind = "initialize"]
    <3>1. ~(Cardinality(s.inFlight) >= maxInFlight)
      <4>1. Cardinality(s.inFlight) \in Nat
        BY <1>4, FS_CardinalityType DEF TakenHolds
      <4> QED BY <1>10, <4>1
    <3> QED BY <1>10, <3>1 DEF TakeLine
  <2>2. /\ pending.line = k + 1 /\ pending.result = Result(s, kind)
    BY <1>2, <1>3
  <2> HIDE DEF read, pending
  <2>3. /\ d.lines = l /\ d.inFlight = fl /\ d.initialized = greeted /\ d.over = s.over
    BY <1>1, <1>3, <2>1 DEF McpSession
  <2>4. /\ pending.result = "none" <=> kind = "notification"
        /\ pending.result = "result" => kind = "initialize" \/ s.initialized
    BY <1>10, <2>2 DEF Result, LineKinds
  <2>5. \A p \in s.inFlight : p.line \in 1..k
    BY <1>4 DEF TakenHolds, k
  <2>6. TakenHolds(l, greeted, fl)
    <3>1. IsFiniteSet(fl) /\ Cardinality(fl) <= maxInFlight
      <4>1. IsFiniteSet(s.inFlight) /\ Cardinality(s.inFlight) \in Nat
        BY <1>4, FS_CardinalityType DEF TakenHolds
      <4>2. IsFiniteSet(fl) /\ Cardinality(fl) <= Cardinality(s.inFlight) + 1
        <5>1. /\ IsFiniteSet(s.inFlight \cup {pending})
              /\ \/ Cardinality(s.inFlight \cup {pending}) = Cardinality(s.inFlight)
                 \/ Cardinality(s.inFlight \cup {pending}) = Cardinality(s.inFlight) + 1
          BY <4>1, FS_AddElement, Zenon
        <5> QED BY <4>1, <5>1
      <4>3. Cardinality(fl) \in Nat
        BY <4>2, FS_CardinalityType
      <4> HIDE DEF fl
      <4> QED BY <1>10, <4>1, <4>2, <4>3
    <3>2. greeted => Greeted(l, Len(l))
      BY <1>2, <1>5 DEF TakenHolds
    <3>3. /\ pending.line \in 1..Len(l) /\ l[pending.line] # "blank"
          /\ pending.result = "none" <=> l[pending.line] = "notification"
          /\ pending.result = "result" => Greeted(l, pending.line)
      <4> HIDE DEF l
      <4> QED BY <1>2, <1>5, <1>10, <2>2, <2>4 DEF TakenHolds
    <3>4. \A p, r \in fl : p.line = r.line => p = r
      BY <1>2, <1>4, <2>2, <2>5 DEF TakenHolds
    <3>5. \A p \in fl : /\ p.line \in 1..Len(l) /\ l[p.line] # "blank"
                        /\ p.result = "none" <=> l[p.line] = "notification"
                        /\ p.result = "result" => Greeted(l, p.line)
      <4> HIDE DEF l
      <4> QED BY <1>5, <3>3 DEF TakenHolds
    <3> HIDE DEF fl, greeted, l
    <3> QED BY <3>1, <3>2, <3>4, <3>5 DEF TakenHolds
  <2>7. AnswersHold(l, fl, answered)
    <3>1. \A i \in 1..Len(answered) : pending.line # answered[i].line
      BY <1>2, <1>4, <2>2 DEF AnswersHold, k
    <3> HIDE DEF l
    <3> QED BY <1>6, <3>1 DEF AnswersHold
  <2>8. NoneLost(l, fl, s.over, answered)
    <3>1. ASSUME NEW n \in 1..Len(l), l[n] \in Requests
          PROVE  (\E p \in fl : p.line = n) \/ \E i \in 1..Len(answered) : answered[i].line = n
      <4>1. CASE n = k + 1
        BY <2>2, <4>1
      <4>2. CASE n # k + 1
        <5>1. n \in 1..k
          BY <1>2, <3>1, <4>2
        <5> QED BY <1>2, <1>4, <1>10, <3>1, <5>1 DEF NoneLost
      <4> QED BY <4>1, <4>2
    <3> QED BY <3>1 DEF NoneLost
  <2> HIDE DEF fl, greeted, d, l
  <2> QED BY <1>1, <2>3, <2>6, <2>7, <2>8 DEF SessionHolds, d
<1> QED
  <2>1. Cardinality(s.inFlight) \in Nat
    BY <1>4, FS_CardinalityType DEF TakenHolds
  <2> QED BY <1>7, <1>8, <1>9, <1>10, <2>1

-----------------------------------------------------------------------------
\* The steps.

\* A chunk takes its lines in turn: what holds before the first one holds after
\* the last.
LEMMA TakeLinesHolds ==
  ASSUME NEW kinds \in Seq(LineKinds), SessionHolds(Session)
  PROVE  SessionHolds(TakeLines(kinds))
<1> DEFINE n == Len(kinds)
           body == [i \in 1..n |-> [s \in McpSession |-> TakeLine(s, kinds[i])]]
           f == CHOOSE f : f = [i \in 0..n |->
                  IF i = 0 THEN Session ELSE TakeLine(f[i - 1], kinds[i])]
           S == {i \in 0..n : SessionHolds(f[i])}
<1>0. n \in Nat /\ \A i \in 1..n : kinds[i] \in LineKinds
  OBVIOUS
<1>1. \E g \in [0..n -> McpSession] :
        g = [i \in 0..n |-> IF i = 0 THEN Session ELSE TakeLine(g[i - 1], kinds[i])]
  <2>1. body \in [1..n -> [McpSession -> McpSession]]
    <3> SUFFICES ASSUME NEW i \in 1..n, NEW s \in McpSession
                 PROVE  TakeLine(s, kinds[i]) \in McpSession
      OBVIOUS
    <3> QED BY <1>0, TakeLineTypes
  <2>2. Session \in McpSession
    BY DEF SessionHolds
  <2>3. PICK g \in [0..n -> McpSession] :
          g[0] = Session /\ \A i \in 1..n : g[i] = body[i][g[i - 1]]
    <3> HIDE DEF body, n
    <3>1. HasLoop(n, McpSession, Session, body)
      BY <1>0, <2>1, <2>2, LoopExists
    <3> QED BY <3>1 DEF HasLoop
  <2>4. \A i \in 1..n : g[i] = TakeLine(g[i - 1], kinds[i])
    <3> SUFFICES ASSUME NEW i \in 1..n PROVE body[i][g[i - 1]] = TakeLine(g[i - 1], kinds[i])
      BY <2>3
    <3>1. g[i - 1] \in McpSession
      <4> i - 1 \in 0..n
        BY <1>0
      <4> QED BY <2>3
    <3> QED BY <3>1
  <2> HIDE DEF body, n
  <2>5. \A i \in 0..n : g[i] = IF i = 0 THEN Session ELSE TakeLine(g[i - 1], kinds[i])
    <3> \A i \in 0..n : i # 0 => i \in 1..n
      BY <1>0
    <3> QED BY <2>3, <2>4
  <2>6. g = [i \in 0..n |-> IF i = 0 THEN Session ELSE TakeLine(g[i - 1], kinds[i])]
    BY <2>5
  <2> QED BY <2>6
<1>2. f = [i \in 0..n |-> IF i = 0 THEN Session ELSE TakeLine(f[i - 1], kinds[i])]
  BY <1>1
<1>3. TakeLines(kinds) = f[n]
  BY DEF TakeLines
<1> HIDE DEF f, body, n
<1>4. f[0] = Session /\ \A i \in 1..n : f[i] = TakeLine(f[i - 1], kinds[i])
  BY <1>0, <1>2
<1>5. 0 \in S
  BY <1>0, <1>4
<1>6. ASSUME NEW i \in 0..(n - 1), i \in S
      PROVE  i + 1 \in S
  <2>1. i + 1 \in 0..n /\ i + 1 \in 1..n /\ (i + 1) - 1 = i
    BY <1>0
  <2>2. f[i + 1] = TakeLine(f[i], kinds[i + 1]) /\ kinds[i + 1] \in LineKinds
    BY <1>0, <1>4, <2>1
  <2>3. SessionHolds(f[i + 1])
    BY <1>6, <2>2, TakeLineHolds
  <2> QED BY <2>1, <2>3
<1> HIDE DEF S
<1>7. 0..n \subseteq S
  BY <1>0, <1>5, <1>6, UpToInduction
<1>8. SessionHolds(f[n])
  BY <1>0, <1>7 DEF S
<1> QED BY <1>3, <1>8

\* The lines of a chunk form a sequence.
LEMMA BoundedSeqFacts ==
  ASSUME NEW kinds \in BoundedSeq(LineKinds, MaxLinesRead)
  PROVE  kinds \in Seq(LineKinds)
<1>1. PICK m \in 0..MaxLinesRead : kinds \in [1..m -> LineKinds]
  BY DEF BoundedSeq, SeqOf
<1>2. m \in Nat
  BY <1>1, McpAssumption
<1> QED BY <1>1, <1>2, SeqDef

LEMMA SessionStarts ==
  ASSUME McpInv, stdin = "open"
  PROVE  SessionHolds(Session) /\ refusals = 0 /\ finishing = "no"
<1>1. refusals = 0 /\ finishing = "no"
  BY DEF McpInv
<1>2. Session \in McpSession
  BY DEF McpInv, Session, McpSession
<1>3. /\ Session.lines = lines /\ Session.initialized = initialized
      /\ Session.inFlight = inFlight /\ Session.over = FALSE
  BY DEF Session
<1>4. NoneLost(lines, inFlight, FALSE, answered)
  BY <1>1 DEF McpInv, NoneLost
<1> QED BY <1>1, <1>2, <1>3, <1>4 DEF McpInv, SessionHolds

\* What a session leaves is right, whether or not its end was a refusal.
LEMMA LeavesStep ==
  ASSUME McpInv, NEW s, SessionHolds(s), Leaves(s), UNCHANGED answered,
         refusals' \in {0, 1}, s.over => refusals' = 1,
         stdin' \in {"open", "destroyed", "ended"}, finishing' \in {"no", "waiting"},
         stdin' = "open" => refusals' = 0 /\ finishing' = "no"
  PROVE  McpInv'
<1>1. /\ lines' = s.lines /\ initialized' = s.initialized /\ inFlight' = s.inFlight
      /\ s \in McpSession /\ s.over \in BOOLEAN
  BY DEF Leaves, SessionHolds, McpSession
<1>2. /\ TakenHolds(lines', initialized', inFlight')
      /\ AnswersHold(lines', inFlight', answered')
      /\ NoneLost(lines', inFlight', s.over, answered')
  BY <1>1 DEF SessionHolds
<1>3. NoneLost(lines', inFlight', refusals' = 1, answered')
  BY <1>1, <1>2 DEF NoneLost
<1>4. lines' \in Seq(LineKinds) /\ initialized' \in BOOLEAN /\ inFlight' \in SUBSET PendingLines
  BY <1>1 DEF McpSession
<1> QED BY <1>2, <1>3, <1>4 DEF McpInv

LEMMA McpInitially ==
  McpInit => McpInv
<1> SUFFICES ASSUME McpInit PROVE McpInv
  OBVIOUS
<1>1. IsFiniteSet({}) /\ Cardinality({}) = 0
  BY FS_EmptySet
<1>2. lines \in Seq(LineKinds) /\ answered \in WrittenAnswers /\ Len(lines) = 0 /\ Len(answered) = 0
  BY DEF McpInit, WrittenAnswers
<1>3. TakenHolds(lines, initialized, inFlight)
  BY <1>1, McpAssumption DEF McpInit, TakenHolds
<1>4. AnswersHold(lines, inFlight, answered) /\ NoneLost(lines, inFlight, refusals = 1, answered)
  BY <1>2 DEF AnswersHold, NoneLost
<1> QED BY <1>2, <1>3, <1>4 DEF McpInit, McpInv

LEMMA ChunkStep ==
  ASSUME McpInv, NEW kinds \in BoundedSeq(LineKinds, MaxLinesRead), NEW rest, Chunk(kinds, rest)
  PROVE  McpInv'
<1> DEFINE s == TakeLines(kinds)
<1>1. SessionHolds(s) /\ refusals = 0 /\ finishing = "no"
  BY BoundedSeqFacts, SessionStarts, TakeLinesHolds DEF Chunk
<1>2. /\ Leaves(s) /\ UNCHANGED answered /\ finishing' = finishing /\ stdin = "open"
      /\ IF s.over \/ rest = "tooLong" THEN stop ELSE UNCHANGED <<refusals, stdin>>
  BY DEF Chunk
<1> HIDE DEF s
<1> QED BY <1>1, <1>2, LeavesStep DEF stop

LEMMA InputEndsStep ==
  ASSUME McpInv, NEW kind \in LineKinds, InputEnds(kind)
  PROVE  McpInv'
<1> DEFINE s == IF partial THEN TakeLine(Session, kind) ELSE Session
<1>1. SessionHolds(s) /\ refusals = 0 /\ finishing = "no"
  BY SessionStarts, TakeLineHolds DEF InputEnds
<1>2. /\ Leaves(s) /\ UNCHANGED answered /\ finish
      /\ IF s.over THEN stop ELSE stdin' = "ended" /\ UNCHANGED refusals
  BY DEF InputEnds
<1> HIDE DEF s
<1> QED BY <1>1, <1>2, LeavesStep DEF stop, finish

LEMMA InputClosesStep ==
  McpInv /\ InputCloses => McpInv'
BY DEF McpInv, InputCloses, finish

LEMMA ResolveStep ==
  McpInv /\ Resolve => McpInv'
BY DEF McpInv, Resolve

LEMMA HandlerEndsStep ==
  ASSUME McpInv, NEW pending \in inFlight, HandlerEnds(pending)
  PROVE  McpInv'
<1> DEFINE fl == inFlight \ {pending}
<1>1. /\ inFlight' = fl /\ UNCHANGED <<lines, initialized, refusals, stdin, finishing>>
      /\ finishing # "done"
  BY DEF HandlerEnds, McpInv
<1>2. pending \in PendingLines /\ fl \in SUBSET PendingLines
  BY DEF McpInv
<1>3. /\ pending.line \in 1..Len(lines) /\ lines[pending.line] # "blank"
      /\ pending.result = "none" <=> lines[pending.line] = "notification"
      /\ pending.result = "result" => Greeted(lines, pending.line)
      /\ \A p \in fl : p.line # pending.line
  BY DEF McpInv, TakenHolds
<1>4. TakenHolds(lines, initialized, fl)
  <2>1. IsFiniteSet(fl) /\ Cardinality(fl) <= maxInFlight
    <3>1. IsFiniteSet(inFlight) /\ Cardinality(inFlight) \in Nat /\ Cardinality(inFlight) <= maxInFlight
      BY FS_CardinalityType DEF McpInv, TakenHolds
    <3>2. IsFiniteSet(fl) /\ Cardinality(fl) <= Cardinality(inFlight)
      BY <3>1, FS_Subset
    <3>3. Cardinality(fl) \in Nat
      BY <3>2, FS_CardinalityType
    <3> HIDE DEF fl
    <3> QED BY <3>1, <3>2, <3>3, McpAssumption
  <2> QED BY <2>1 DEF McpInv, TakenHolds
<1>5. PICK result \in {pending.result} \cup (IF pending.result = "result" THEN {"error"} ELSE {}) :
        answered' = IF result = "none" \/ finishing = "done" THEN answered
                    ELSE Append(answered, [line |-> pending.line, result |-> result])
  BY DEF HandlerEnds
<1>6. AnswersHold(lines, fl, answered)
  BY DEF McpInv, AnswersHold
<1>7. CASE result = "none"
  <2>1. answered' = answered /\ lines[pending.line] = "notification"
    BY <1>3, <1>5, <1>7
  <2>2. NoneLost(lines, fl, refusals = 1, answered)
    BY <1>3, <2>1 DEF McpInv, NoneLost, Requests
  <2> HIDE DEF fl
  <2> QED BY <1>1, <1>2, <1>4, <1>6, <2>1, <2>2 DEF McpInv
<1>8. CASE result # "none"
  <2> DEFINE a == [line |-> pending.line, result |-> result]
             ans == Append(answered, a)
             k == Len(answered)
  <2>1. /\ answered' = ans /\ a.line = pending.line /\ a.result = result
        /\ result \in {"error", "result"} /\ result = "result" => pending.result = "result"
        /\ pending.result # "none"
    BY <1>1, <1>2, <1>5, <1>8 DEF PendingLines
  <2>2. a \in [line : Nat, result : {"error", "result"}]
    BY <1>2, <2>1 DEF PendingLines
  <2> HIDE DEF a
  <2>3. /\ ans \in WrittenAnswers /\ Len(ans) = k + 1 /\ k \in Nat /\ ans[k + 1] = a
        /\ \A i \in 1..k : ans[i] = answered[i]
    BY <2>2 DEF McpInv, WrittenAnswers
  <2> HIDE DEF ans
  <2>4. lines[pending.line] \in Requests
    <3>1. lines[pending.line] \in LineKinds
      BY <1>3 DEF McpInv
    <3> QED BY <1>3, <2>1, <3>1 DEF LineKinds, Requests
  <2>5. \A i \in 1..k : answered[i].line # pending.line
    BY DEF McpInv, AnswersHold
  <2>6. \A i \in 1..(k + 1) : i \in 1..k \/ i = k + 1
    BY <2>3
  <2>7. AnswersHold(lines, fl, ans)
    <3>1. \A i \in 1..Len(ans) :
            /\ ans[i].line \in 1..Len(lines) /\ lines[ans[i].line] \in Requests
            /\ ans[i].result = "result" => Greeted(lines, ans[i].line)
            /\ \A p \in fl : p.line # ans[i].line
      <4> SUFFICES ASSUME NEW i \in 1..(k + 1)
                   PROVE  /\ ans[i].line \in 1..Len(lines) /\ lines[ans[i].line] \in Requests
                          /\ ans[i].result = "result" => Greeted(lines, ans[i].line)
                          /\ \A p \in fl : p.line # ans[i].line
        BY <2>3
      <4>1. CASE i \in 1..k
        <5> HIDE DEF fl
        <5> QED BY <1>6, <2>3, <4>1 DEF AnswersHold
      <4>2. CASE i = k + 1
        <5> HIDE DEF fl
        <5> QED BY <1>3, <2>1, <2>3, <2>4, <4>2
      <4> QED BY <2>6, <4>1, <4>2
    <3>2. \A i, j \in 1..Len(ans) : ans[i].line = ans[j].line => i = j
      <4> HIDE DEF fl
      <4> QED BY <1>6, <2>1, <2>3, <2>5, <2>6 DEF AnswersHold
    <3> QED BY <3>1, <3>2 DEF AnswersHold
  <2>8. NoneLost(lines, fl, refusals = 1, ans)
    <3> SUFFICES ASSUME NEW n \in 1..Len(lines), lines[n] \in Requests
                 PROVE  \/ \E p \in fl : p.line = n
                        \/ \E i \in 1..Len(ans) : ans[i].line = n
                        \/ refusals = 1 /\ n = Len(lines)
      BY DEF NoneLost
    <3>1. CASE n = pending.line
      <4>1. k + 1 \in 1..Len(ans) /\ ans[k + 1].line = n
        BY <2>1, <2>3, <3>1
      <4> QED BY <4>1
    <3>2. CASE n # pending.line
      <4>1. \A i \in 1..k : i \in 1..Len(ans) /\ ans[i].line = answered[i].line
        BY <2>3
      <4> QED BY <3>2, <4>1 DEF McpInv, NoneLost
    <3> QED BY <3>1, <3>2
  <2> HIDE DEF fl
  <2> QED BY <1>1, <1>2, <1>4, <2>1, <2>3, <2>7, <2>8 DEF McpInv
<1> QED BY <1>7, <1>8

LEMMA McpInductive ==
  McpInv /\ [McpNext]_mcpVars => McpInv'
<1> SUFFICES ASSUME McpInv, [McpNext]_mcpVars PROVE McpInv'
  OBVIOUS
<1>1. CASE UNCHANGED mcpVars
  BY <1>1 DEF mcpVars, McpInv
<1>2. CASE McpNext
  BY <1>2, ChunkStep, InputEndsStep, InputClosesStep, HandlerEndsStep, ResolveStep DEF McpNext
<1> QED BY <1>1, <1>2

\* The lines answered are as many as the answers.
LEMMA AnswersCounted ==
  ASSUME McpInv
  PROVE  Cardinality({answered[i].line : i \in DOMAIN answered}) = Len(answered)
<1> DEFINE k == Len(answered)
           W == {answered[i].line : i \in 1..k}
           f == [i \in 1..k |-> answered[i].line]
<1>1. DOMAIN answered = 1..k /\ k \in Nat
  BY DEF McpInv, WrittenAnswers
<1>2. \A i, j \in 1..k : answered[i].line = answered[j].line => i = j
  BY DEF McpInv, AnswersHold
<1>3. f \in Bijection(1..k, W)
  <2> HIDE DEF k
  <2>1. f \in Injection(1..k, W)
    BY <1>2 DEF Injection, IsInjective
  <2>2. f \in Surjection(1..k, W)
    BY DEF Surjection
  <2> QED BY <2>1, <2>2 DEF Bijection
<1> HIDE DEF f, W, k
<1>4. IsFiniteSet(1..k) /\ Cardinality(1..k) = k
  <2>1. IsFiniteSet(1..k) /\ Cardinality(1..k) = IF 1 > k THEN 0 ELSE k - 1 + 1
    BY <1>1, FS_Interval
  <2> QED BY <1>1, <2>1
<1>5. ExistsBijection(1..k, W)
  BY <1>3 DEF ExistsBijection
<1>6. Cardinality(W) = k
  BY <1>4, <1>5, FS_Bijection
<1> QED BY <1>1, <1>6 DEF W, k

LEMMA McpInvSuffices ==
  McpInv => McpRequestsAnswered
<1> SUFFICES ASSUME McpInv PROVE McpRequestsAnswered
  OBVIOUS
<1> DEFINE requests == {n \in DOMAIN lines : lines[n] \in {"initialize", "feature"}}
           lineNumbers == {answered[i].line : i \in DOMAIN answered}
<1>1. DOMAIN lines = 1..Len(lines) /\ DOMAIN answered = 1..Len(answered)
  BY DEF McpInv, WrittenAnswers
<1>2. Cardinality(inFlight) <= maxInFlight /\ refusals <= 1
  BY DEF McpInv, TakenHolds
<1>3. Cardinality(lineNumbers) = Len(answered)
  BY AnswersCounted
<1>4. lineNumbers \subseteq requests
  BY <1>1 DEF McpInv, AnswersHold, Requests
<1>5. \A i \in DOMAIN answered : answered[i].result = "result" =>
        \E n \in 1..answered[i].line : lines[n] = "initialize"
  BY <1>1 DEF McpInv, AnswersHold, Greeted
<1>6. ASSUME finishing = "done"
      PROVE  /\ inFlight = {}
             /\ \/ requests = lineNumbers
                \/ refusals = 1 /\ requests \ lineNumbers = {Len(lines)}
  <2>1. inFlight = {}
    BY <1>6 DEF McpInv
  <2>2. ASSUME NEW n \in requests
        PROVE  n \in lineNumbers \/ (refusals = 1 /\ n = Len(lines))
    <3>1. n \in 1..Len(lines) /\ lines[n] \in Requests
      BY <1>1 DEF Requests
    <3>2. (\E i \in 1..Len(answered) : answered[i].line = n) \/ (refusals = 1 /\ n = Len(lines))
      <4>1. NoneLost(lines, inFlight, refusals = 1, answered)
        BY DEF McpInv
      <4>2. ~ \E p \in inFlight : p.line = n
        BY <2>1
      <4> QED BY <3>1, <4>1, <4>2 DEF NoneLost
    <3> QED BY <1>1, <3>2
  <2> HIDE DEF requests, lineNumbers
  <2>3. CASE requests \subseteq lineNumbers
    <3>1. requests = lineNumbers
      BY <1>4, <2>3
    <3> QED BY <2>1, <3>1
  <2>4. CASE ~(requests \subseteq lineNumbers)
    <3>1. PICK n \in requests : n \notin lineNumbers
      BY <2>4
    <3>2. refusals = 1 /\ n = Len(lines)
      BY <2>2, <3>1
    <3>3. requests \ lineNumbers = {Len(lines)}
      BY <2>2, <3>1, <3>2
    <3> QED BY <2>1, <3>2, <3>3
  <2> QED BY <2>3, <2>4
<1> QED BY <1>2, <1>3, <1>4, <1>5, <1>6 DEF McpRequestsAnswered

\* For every cap, every length of a session and every order in which handlers end:
\* an MCP session answers each request it took once, well only behind an initialize,
\* and before its output ends; only the request over the cap is without an answer.
THEOREM McpAnswered == McpSpec => []McpRequestsAnswered
<1>1. McpSpec => []McpInv
  BY McpInitially, McpInductive, PTL DEF McpSpec
<1> QED BY <1>1, McpInvSuffices, PTL

-------------------------------------------------------------------------------
(* The dual dialect stream. *)

Entries == [id : RequestIds, dialect : Dialects]
Known == [map : Seq(Entries), arrivedIn : [RequestIds -> Dialects \cup {"none"}],
          newer : [RequestIds -> 0..maxPendingCalls]]

\* An identifier is in the map at most once, in a dialect the peer has shown.
MapHolds(map, shown) ==
  /\ \A p, q \in 1..Len(map) : map[p].id = map[q].id => p = q
  /\ \A p \in 1..Len(map) : map[p].dialect \in shown

\* The map has the dialect of every request without an answer that fewer than
\* the cap followed, and behind it no more than those.
KeepsOpen(map, arrived, since) ==
  \A id \in RequestIds : arrived[id] # "none" /\ since[id] < maxPendingCalls =>
    \E p \in 1..Len(map) : /\ map[p].id = id /\ map[p].dialect = arrived[id]
                           /\ Len(map) - p <= since[id]

\* The inductive invariant.
DialectInv ==
  /\ preferred \in Dialects
  /\ requestDialects \in Seq(Entries) /\ Len(requestDialects) <= maxPendingCalls
  /\ arrivedIn \in [RequestIds -> Dialects \cup {"none"}]
  /\ newer \in [RequestIds -> 0..maxPendingCalls]
  /\ proven \in SUBSET Dialects
  /\ IF peerDialect = "none" THEN proven = {} ELSE peerDialect \in proven
  /\ MapHolds(requestDialects, proven)
  /\ KeepsOpen(requestDialects, arrivedIn, newer)
  /\ AnswersInKind

-----------------------------------------------------------------------------
\* The map.

LEMMA PositionFacts ==
  ASSUME NEW map \in Seq(Entries), NEW id
  PROVE  /\ Position(map, id) \in 0..Len(map)
         /\ Position(map, id) # 0 => map[Position(map, id)].id = id
         /\ Position(map, id) = 0 => \A p \in 1..Len(map) : map[p].id # id
<1> DEFINE I == {i \in 1..Len(map) : map[i].id = id}
<1>1. Position(map, id) = IF I # {} THEN Min(I) ELSE 0
  BY DEF Position, SelectInSeq
<1>2. I \in SUBSET Nat /\ Len(map) \in Nat
  OBVIOUS
<1>3. CASE I = {}
  BY <1>1, <1>2, <1>3
<1>4. CASE I # {}
  <2>1. Min(I) \in I
    <3> HIDE DEF I
    <3> QED BY <1>2, <1>4, LeastPosition
  <2> QED BY <1>1, <1>2, <1>4, <2>1
<1> QED BY <1>3, <1>4

\* Forgetting an identifier leaves the other entries, no further from the end.
LEMMA ForgottenFacts ==
  ASSUME NEW map \in Seq(Entries), NEW id, NEW shown, MapHolds(map, shown)
  PROVE  /\ Forgotten(map, id) \in Seq(Entries) /\ Len(Forgotten(map, id)) <= Len(map)
         /\ MapHolds(Forgotten(map, id), shown)
         /\ \A p \in 1..Len(Forgotten(map, id)) : Forgotten(map, id)[p].id # id
         /\ \A p \in 1..Len(map) : map[p].id # id =>
              \E q \in 1..Len(Forgotten(map, id)) :
                /\ Forgotten(map, id)[q] = map[p]
                /\ Len(Forgotten(map, id)) - q <= Len(map) - p
<1> DEFINE k == Position(map, id)
           f == Forgotten(map, id)
           n == Len(map)
<1>1. k \in 0..n /\ n \in Nat /\ (k # 0 => map[k].id = id)
      /\ (k = 0 => \A p \in 1..n : map[p].id # id)
  BY PositionFacts
<1>2. CASE k = 0
  <2>1. f = map
    BY <1>2 DEF Forgotten
  <2> HIDE DEF k
  <2>2. \A p \in 1..n : n - p <= n - p
    BY <1>1
  <2> QED BY <1>1, <1>2, <2>1, <2>2
<1>3. CASE k # 0
  <2>1. f = RemoveAt(map, k)
    BY <1>3 DEF Forgotten
  <2>2. k \in 1..n
    BY <1>1, <1>3
  <2> HIDE DEF k, f, n
  <2>3. /\ f \in Seq(Entries) /\ Len(f) = n - 1
        /\ \A i \in 1..n - 1 : f[i] = IF i < k THEN map[i] ELSE map[i + 1]
    BY <2>1, <2>2, RemoveAtProperties DEF n
  <2>4. \A p, q \in 1..n : map[p].id = map[q].id => p = q
    BY DEF MapHolds, n
  <2>5. ASSUME NEW i \in 1..n - 1
        PROVE  \E p \in 1..n : f[i] = map[p] /\ p # k /\ p = (IF i < k THEN i ELSE i + 1)
    <3>1. i \in 1..n /\ i + 1 \in 1..n
      BY <1>1, <2>5
    <3>2. CASE i < k
      BY <2>3, <2>5, <3>1, <3>2
    <3>3. CASE ~(i < k)
      <4> i + 1 # k
        BY <1>1, <2>2, <3>1, <3>3
      <4> QED BY <2>3, <2>5, <3>1, <3>3
    <3> QED BY <3>2, <3>3
  <2>6. \A i \in 1..n - 1 : f[i].id # id /\ f[i].dialect \in shown
    <3>1. \A p \in 1..n : map[p].dialect \in shown /\ (p # k => map[p].id # id)
      BY <1>1, <2>2, <2>4 DEF MapHolds, n
    <3> QED BY <2>5, <3>1
  <2>7. ASSUME NEW i \in 1..n - 1, NEW j \in 1..n - 1, f[i].id = f[j].id
        PROVE  i = j
    <3>1. PICK p \in 1..n : f[i] = map[p] /\ p = (IF i < k THEN i ELSE i + 1)
      BY <2>5
    <3>2. PICK q \in 1..n : f[j] = map[q] /\ q = (IF j < k THEN j ELSE j + 1)
      BY <2>5
    <3>3. p = q
      BY <2>4, <2>7, <3>1, <3>2
    <3> QED BY <1>1, <2>2, <2>7, <3>1, <3>2, <3>3
  <2>8. MapHolds(f, shown)
    BY <2>3, <2>6, <2>7 DEF MapHolds
  <2>9. ASSUME NEW p \in 1..n, map[p].id # id
        PROVE  \E q \in 1..n - 1 : f[q] = map[p] /\ (n - 1) - q <= n - p
    <3>1. p # k
      BY <1>1, <1>3, <2>9
    <3>2. CASE p < k
      <4>1. p \in 1..n - 1 /\ f[p] = map[p]
        BY <1>1, <2>2, <2>3, <2>9, <3>2
      <4> QED BY <1>1, <4>1
    <3>3. CASE p > k
      <4> DEFINE q == p - 1
      <4>1. q \in 1..n - 1 /\ ~(q < k) /\ q + 1 = p
        BY <1>1, <2>2, <2>9, <3>3
      <4> HIDE DEF q
      <4>2. f[q] = map[p]
        BY <2>3, <4>1
      <4> QED BY <1>1, <4>1, <4>2
    <3> QED BY <1>1, <2>2, <2>9, <3>1, <3>2, <3>3
  <2>10. Len(f) <= n
    BY <1>1, <2>3
  <2> QED BY <2>3, <2>6, <2>8, <2>9, <2>10 DEF f, n
<1> QED BY <1>2, <1>3

\* Remembering makes a request the newest; past the cap the oldest goes.
LEMMA RememberedFacts ==
  ASSUME NEW map \in Seq(Entries), Len(map) <= maxPendingCalls,
         NEW id \in RequestIds, NEW dialect \in Dialects,
         NEW shown \in SUBSET Dialects, MapHolds(map, shown), dialect \in shown
  PROVE  LET m == Remembered(map, id, dialect)
         IN  /\ m \in Seq(Entries) /\ Len(m) \in 1..maxPendingCalls /\ MapHolds(m, shown)
             /\ m[Len(m)].id = id /\ m[Len(m)].dialect = dialect
             /\ \A p \in 1..Len(map) :
                  map[p].id # id /\ (Len(map) - p) + 1 < maxPendingCalls =>
                    \E q \in 1..Len(m) : /\ m[q] = map[p]
                                         /\ Len(m) - q <= (Len(map) - p) + 1
<1> USE DialectAssumption
<1> DEFINE e == [id |-> id, dialect |-> dialect]
           f == Forgotten(map, id)
           longer == Append(f, e)
           n == Len(map)
           k == Len(f)
           m == Remembered(map, id, dialect)
<1>1. /\ f \in Seq(Entries) /\ k <= n /\ MapHolds(f, shown)
      /\ \A p \in 1..k : f[p].id # id
      /\ \A p \in 1..n : map[p].id # id => \E q \in 1..k : f[q] = map[p] /\ k - q <= n - p
      /\ n \in Nat
  <2>1. n \in Nat
    OBVIOUS
  <2>2. /\ f \in Seq(Entries) /\ k <= n /\ MapHolds(f, shown)
        /\ \A p \in 1..k : f[p].id # id
    BY ForgottenFacts
  <2>3. \A p \in 1..n : map[p].id # id => \E q \in 1..k : f[q] = map[p] /\ k - q <= n - p
    BY ForgottenFacts, Zenon
  <2> QED BY <2>1, <2>2, <2>3
<1>2. e \in Entries /\ e.id = id /\ e.dialect = dialect
  BY DEF Entries
<1>3. m = IF Len(longer) > maxPendingCalls THEN Tail(longer) ELSE longer
  BY DEF Remembered
<1> HIDE DEF e, f, m
<1>4. /\ longer \in Seq(Entries) /\ k \in Nat /\ Len(longer) = k + 1 /\ longer[k + 1] = e
      /\ \A i \in 1..k : longer[i] = f[i]
      /\ longer # <<>>
  <2>1. f \in Seq(Entries) /\ e \in Entries
    BY <1>1, <1>2
  <2> HIDE DEF f
  <2> QED BY <2>1, AppendProperties
<1> HIDE DEF longer, k, n
<1>5. MapHolds(longer, shown)
  <2>1. \A i \in 1..k + 1 : i \in 1..k \/ i = k + 1
    BY <1>4
  <2>2. \A i, j \in 1..k : f[i].id = f[j].id => i = j
    BY <1>1 DEF MapHolds, k
  <2>3. \A i \in 1..k : f[i].dialect \in shown
    BY <1>1 DEF MapHolds, k
  <2>4. \A i, j \in 1..k + 1 : longer[i].id = longer[j].id => i = j
    <3> SUFFICES ASSUME NEW i \in 1..k + 1, NEW j \in 1..k + 1, longer[i].id = longer[j].id
                 PROVE  i = j
      OBVIOUS
    <3>1. CASE i \in 1..k /\ j \in 1..k
      BY <1>4, <2>2, <3>1
    <3>2. CASE i = k + 1 /\ j \in 1..k
      BY <1>1, <1>2, <1>4, <3>2
    <3>3. CASE i \in 1..k /\ j = k + 1
      BY <1>1, <1>2, <1>4, <3>3
    <3> QED BY <2>1, <3>1, <3>2, <3>3
  <2>5. \A i \in 1..k + 1 : longer[i].dialect \in shown
    BY <1>2, <1>4, <2>1, <2>3
  <2> QED BY <1>4, <2>4, <2>5 DEF MapHolds
<1>6. CASE k + 1 > maxPendingCalls
  <2>1. m = Tail(longer) /\ k = maxPendingCalls
    BY <1>1, <1>3, <1>4, <1>6 DEF n
  <2>2. /\ m \in Seq(Entries) /\ Len(m) = k
        /\ \A i \in 1..k : m[i] = longer[i + 1]
    <3>1. /\ Tail(longer) \in Seq(Entries) /\ Len(Tail(longer)) = Len(longer) - 1
          /\ \A i \in 1 .. Len(Tail(longer)) : Tail(longer)[i] = longer[i + 1]
      BY <1>4, HeadTailProperties
    <3> QED BY <1>4, <2>1, <3>1
  <2>3. k \in 1..maxPendingCalls /\ m[k] = e
    BY <1>4, <2>1, <2>2
  <2>4. MapHolds(m, shown)
    <3>1. \A i \in 1..k : i + 1 \in 1..k + 1
      BY <1>4
    <3>2. \A i, j \in 1..k + 1 : longer[i].id = longer[j].id => i = j
      BY <1>4, <1>5 DEF MapHolds
    <3>3. \A i \in 1..k + 1 : longer[i].dialect \in shown
      BY <1>4, <1>5 DEF MapHolds
    <3>4. ASSUME NEW i \in 1..k, NEW j \in 1..k, m[i].id = m[j].id PROVE i = j
      <4>1. i + 1 = j + 1
        BY <2>2, <3>1, <3>2, <3>4
      <4> QED BY <4>1
    <3> QED BY <2>2, <3>1, <3>3, <3>4 DEF MapHolds
  <2>5. ASSUME NEW p \in 1..n, map[p].id # id, (n - p) + 1 < maxPendingCalls
        PROVE  \E q \in 1..k : m[q] = map[p] /\ k - q <= (n - p) + 1
    <3>1. PICK q \in 1..k : f[q] = map[p] /\ k - q <= n - p
      BY <1>1, <2>5
    <3>2. q # 1
      BY <1>1, <2>1, <2>5, <3>1
    <3> DEFINE r == q - 1
    <3>3. r \in 1..k /\ r + 1 = q /\ k - r <= (n - p) + 1
      BY <1>1, <1>4, <3>1, <3>2
    <3> HIDE DEF r
    <3>4. m[r] = map[p]
      BY <1>4, <2>2, <3>1, <3>3
    <3> QED BY <3>3, <3>4
  <2> QED BY <1>2, <2>2, <2>3, <2>4, <2>5 DEF m, n
<1>7. CASE ~(k + 1 > maxPendingCalls)
  <2>1. m = longer /\ k + 1 \in 1..maxPendingCalls
    BY <1>3, <1>4, <1>7
  <2>2. ASSUME NEW p \in 1..n, map[p].id # id
        PROVE  \E q \in 1..k + 1 : m[q] = map[p] /\ (k + 1) - q <= (n - p) + 1
    <3>1. PICK q \in 1..k : f[q] = map[p] /\ k - q <= n - p
      BY <1>1, <2>2
    <3>2. q \in 1..k + 1 /\ (k + 1) - q <= (n - p) + 1
      BY <1>1, <1>4, <3>1
    <3> QED BY <1>4, <2>1, <3>1, <3>2
  <2> QED BY <1>2, <1>4, <1>5, <2>1, <2>2 DEF m, n
<1> QED BY <1>6, <1>7

\* What is recorded of an identifier is the dialect of its one entry.
LEMMA RecordedFacts ==
  ASSUME NEW map \in Seq(Entries), NEW id, NEW shown, MapHolds(map, shown)
  PROVE  /\ Recorded(map, id) \in shown \cup {"none"}
         /\ \A p \in 1..Len(map) : map[p].id = id => Recorded(map, id) = map[p].dialect
<1> DEFINE k == Position(map, id)
<1>1. k \in 0..Len(map) /\ (k # 0 => map[k].id = id)
      /\ (k = 0 => \A p \in 1..Len(map) : map[p].id # id)
  BY PositionFacts
<1>2. Len(map) \in Nat
  OBVIOUS
<1>3. Recorded(map, id) = IF k = 0 THEN "none" ELSE map[k].dialect
  BY DEF Recorded
<1> HIDE DEF k
<1>4. k # 0 => k \in 1..Len(map)
  BY <1>1, <1>2
<1> QED BY <1>1, <1>3, <1>4 DEF MapHolds

-----------------------------------------------------------------------------
\* A message that comes in, and one that goes out.

KnownHolds(k, shown) ==
  /\ Len(k.map) <= maxPendingCalls
  /\ MapHolds(k.map, shown)
  /\ KeepsOpen(k.map, k.arrivedIn, k.newer)

LEMMA RequestedHolds ==
  ASSUME NEW k \in Known, NEW shown \in SUBSET Dialects, KnownHolds(k, shown),
         NEW id \in RequestIds, NEW dialect \in shown
  PROVE  Requested(k, id, dialect) \in Known /\ KnownHolds(Requested(k, id, dialect), shown)
<1> USE DialectAssumption
<1> DEFINE d == Requested(k, id, dialect)
           m == Remembered(k.map, id, dialect)
           arrived == [k.arrivedIn EXCEPT ![id] = dialect]
           since == [other \in RequestIds |->
                       IF other = id THEN 0
                       ELSE IF k.newer[other] < maxPendingCalls THEN k.newer[other] + 1
                       ELSE maxPendingCalls]
           n == Len(k.map)
<1>1. /\ k.map \in Seq(Entries) /\ n \in Nat /\ n <= maxPendingCalls /\ dialect \in Dialects
      /\ k.arrivedIn \in [RequestIds -> Dialects \cup {"none"}]
      /\ k.newer \in [RequestIds -> 0..maxPendingCalls]
      /\ MapHolds(k.map, shown) /\ KeepsOpen(k.map, k.arrivedIn, k.newer)
  BY DEF Known, KnownHolds
<1>2. d.map = m /\ d.arrivedIn = arrived /\ d.newer = since
      /\ d = [map |-> m, arrivedIn |-> arrived, newer |-> since]
  BY DEF Requested
<1>3. /\ m \in Seq(Entries) /\ Len(m) \in 1..maxPendingCalls /\ MapHolds(m, shown)
      /\ m[Len(m)].id = id /\ m[Len(m)].dialect = dialect
  BY <1>1, RememberedFacts
<1>4. ASSUME NEW p \in 1..n, k.map[p].id # id, (n - p) + 1 < maxPendingCalls
      PROVE  \E q \in 1..Len(m) : m[q] = k.map[p] /\ Len(m) - q <= (n - p) + 1
  BY <1>1, <1>4, RememberedFacts
<1>5. arrived \in [RequestIds -> Dialects \cup {"none"}] /\ since \in [RequestIds -> 0..maxPendingCalls]
  BY <1>1
<1>6. d \in Known
  <2> HIDE DEF m, arrived, since, d
  <2> QED BY <1>2, <1>3, <1>5 DEF Known
<1>7. ASSUME NEW o \in RequestIds, arrived[o] # "none", since[o] < maxPendingCalls
      PROVE  \E p \in 1..Len(m) : /\ m[p].id = o /\ m[p].dialect = arrived[o]
                                  /\ Len(m) - p <= since[o]
  <2>1. CASE o = id
    <3>1. arrived[o] = dialect /\ since[o] = 0
      BY <1>1, <2>1
    <3>2. Len(m) \in 1..Len(m) /\ Len(m) - Len(m) <= 0
      BY <1>3
    <3> QED BY <1>3, <2>1, <3>1, <3>2
  <2>2. CASE o # id
    <3>1. arrived[o] = k.arrivedIn[o]
      BY <1>1, <2>2
    <3>2. k.newer[o] \in Nat /\ k.newer[o] < maxPendingCalls /\ since[o] = k.newer[o] + 1
      BY <1>1, <1>7, <2>2
    <3>3. PICK p \in 1..n : /\ k.map[p].id = o /\ k.map[p].dialect = k.arrivedIn[o]
                            /\ n - p <= k.newer[o]
      BY <1>1, <1>7, <3>1, <3>2 DEF KeepsOpen
    <3>4. (n - p) + 1 < maxPendingCalls
      BY <1>1, <1>7, <3>2, <3>3
    <3>5. PICK q \in 1..Len(m) : m[q] = k.map[p] /\ Len(m) - q <= (n - p) + 1
      BY <1>4, <2>2, <3>3, <3>4
    <3>6. Len(m) - q <= since[o]
      BY <1>1, <1>3, <3>2, <3>3, <3>5
    <3> HIDE DEF m, arrived, since
    <3> QED BY <3>1, <3>3, <3>5, <3>6
  <2> QED BY <2>1, <2>2
<1>8. KeepsOpen(m, arrived, since)
  <2> HIDE DEF m, arrived, since
  <2> QED BY <1>7 DEF KeepsOpen
<1>9. Len(m) <= maxPendingCalls
  BY <1>3
<1> HIDE DEF m, arrived, since, d
<1>10. KnownHolds(d, shown)
  BY <1>2, <1>3, <1>8, <1>9 DEF KnownHolds
<1> QED BY <1>6, <1>10 DEF d

LEMMA RequestsRemembered ==
  ASSUME DialectInv, NEW ids \in Seq(RequestIds), NEW dialect \in Dialects
  PROVE  /\ rememberRequests(ids, dialect) \in Known
         /\ KnownHolds(rememberRequests(ids, dialect), proven \cup {dialect})
<1> DEFINE shown == proven \cup {dialect}
           T == {k \in Known : KnownHolds(k, shown)}
           base == [map |-> requestDialects, arrivedIn |-> arrivedIn, newer |-> newer]
           n == Len(ids)
           body == [i \in 1..n |-> [k \in T |-> Requested(k, ids[i], dialect)]]
           f == CHOOSE f : f = [i \in 0..n |->
                  IF i = 0 THEN base ELSE Requested(f[i - 1], ids[i], dialect)]
<1>1. n \in Nat /\ shown \in SUBSET Dialects /\ dialect \in shown
      /\ \A i \in 1..n : ids[i] \in RequestIds
  BY DEF DialectInv
<1>2. base \in T
  <2>1. base \in Known
    BY DEF DialectInv, Known
  <2>2. MapHolds(requestDialects, shown)
    BY DEF DialectInv, MapHolds
  <2>3. KnownHolds(base, shown)
    BY <2>2 DEF DialectInv, KnownHolds
  <2> QED BY <2>1, <2>3
<1>3. body \in [1..n -> [T -> T]]
  <2> SUFFICES ASSUME NEW i \in 1..n, NEW k \in T PROVE Requested(k, ids[i], dialect) \in T
    OBVIOUS
  <2> QED BY <1>1, RequestedHolds
<1>4. PICK g \in [0..n -> T] : g[0] = base /\ \A i \in 1..n : g[i] = body[i][g[i - 1]]
  <2> HIDE DEF body, base, T, n
  <2>1. HasLoop(n, T, base, body)
    BY <1>1, <1>2, <1>3, LoopExists
  <2> QED BY <2>1 DEF HasLoop
<1>5. \A i \in 1..n : g[i] = Requested(g[i - 1], ids[i], dialect)
  <2> SUFFICES ASSUME NEW i \in 1..n
               PROVE  body[i][g[i - 1]] = Requested(g[i - 1], ids[i], dialect)
    BY <1>4
  <2>1. i - 1 \in 0..n
    BY <1>1
  <2>2. g[i - 1] \in T
    BY <1>4, <2>1
  <2> HIDE DEF T
  <2> QED BY <2>2
<1> HIDE DEF T, body, base, n
<1>6. g = [i \in 0..n |-> IF i = 0 THEN base ELSE Requested(g[i - 1], ids[i], dialect)]
  <2>1. \A i \in 0..n : i # 0 => i \in 1..n
    BY <1>1
  <2>2. \A i \in 0..n : g[i] = IF i = 0 THEN base ELSE Requested(g[i - 1], ids[i], dialect)
    BY <1>4, <1>5, <2>1
  <2> QED BY <1>4, <2>2
<1>7. f = [i \in 0..n |-> IF i = 0 THEN base ELSE Requested(f[i - 1], ids[i], dialect)]
  BY <1>6
<1>8. rememberRequests(ids, dialect) = f[n]
  BY DEF rememberRequests, base, n
<1> HIDE DEF f
<1>9. f[0] \in T /\ \A i \in 1..n : f[i - 1] \in T => f[i] \in T
  <2>1. f[0] = base
    BY <1>1, <1>7
  <2>2. ASSUME NEW i \in 1..n, f[i - 1] \in T PROVE f[i] \in T
    <3>1. f[i] = Requested(f[i - 1], ids[i], dialect)
      BY <1>1, <1>7
    <3> QED BY <1>1, <2>2, <3>1, RequestedHolds DEF T
  <2> QED BY <1>2, <2>1, <2>2
<1>10. f[n] \in T
  BY <1>1, <1>9, LoopKeeps
<1> QED BY <1>8, <1>10 DEF T

\* What is left open when these identifiers are answered.
StillOpen(ids) == [id \in RequestIds |-> IF id \in ToSet(ids) THEN "none" ELSE arrivedIn[id]]

AnswerHolds(a, ids) ==
  /\ Len(a.map) <= maxPendingCalls
  /\ MapHolds(a.map, proven)
  /\ KeepsOpen(a.map, StillOpen(ids), newer)
  /\ a.dialect \in proven \cup {"none"}

LEMMA AnsweredOneHolds ==
  ASSUME DialectInv, NEW ids \in Seq(RequestIds), NEW i \in 1..Len(ids),
         NEW a \in [map : Seq(Entries), dialect : Dialects \cup {"none"}], AnswerHolds(a, ids)
  PROVE  /\ AnsweredOne(a, ids[i]) \in [map : Seq(Entries), dialect : Dialects \cup {"none"}]
         /\ AnswerHolds(AnsweredOne(a, ids[i]), ids)
<1> USE DialectAssumption
<1> DEFINE d == AnsweredOne(a, ids[i])
           f == Forgotten(a.map, ids[i])
           n == Len(a.map)
<1>1. /\ a.map \in Seq(Entries) /\ n \in Nat /\ n <= maxPendingCalls
      /\ MapHolds(a.map, proven) /\ KeepsOpen(a.map, StillOpen(ids), newer)
      /\ a.dialect \in proven \cup {"none"} /\ proven \in SUBSET Dialects
      /\ newer \in [RequestIds -> 0..maxPendingCalls]
  BY DEF AnswerHolds, DialectInv
<1>2. /\ f \in Seq(Entries) /\ Len(f) <= n /\ MapHolds(f, proven) /\ Len(f) \in Nat
  <2>1. f \in Seq(Entries) /\ Len(f) <= n /\ MapHolds(f, proven)
    BY <1>1, ForgottenFacts
  <2> HIDE DEF f
  <2> QED BY <2>1
<1>3. ASSUME NEW p \in 1..n, a.map[p].id # ids[i]
      PROVE  \E q \in 1..Len(f) : f[q] = a.map[p] /\ Len(f) - q <= n - p
  BY <1>1, <1>3, ForgottenFacts
<1>4. /\ d.map = f
      /\ d.dialect = IF a.dialect = "none" THEN Recorded(a.map, ids[i]) ELSE a.dialect
      /\ d = [map |-> f, dialect |-> d.dialect]
  BY DEF AnsweredOne
<1>5. d.dialect \in proven \cup {"none"}
  BY <1>1, <1>4, RecordedFacts
<1> HIDE DEF f, d, n
<1>6. KeepsOpen(f, StillOpen(ids), newer)
  <2> SUFFICES ASSUME NEW o \in RequestIds, StillOpen(ids)[o] # "none", newer[o] < maxPendingCalls
               PROVE  \E p \in 1..Len(f) : /\ f[p].id = o /\ f[p].dialect = StillOpen(ids)[o]
                                           /\ Len(f) - p <= newer[o]
    BY DEF KeepsOpen
  <2>1. PICK p \in 1..n : /\ a.map[p].id = o /\ a.map[p].dialect = StillOpen(ids)[o]
                          /\ n - p <= newer[o]
    BY <1>1 DEF KeepsOpen, n
  <2>2. o # ids[i]
    <3>1. ids[i] \in ToSet(ids)
      BY DEF ToSet
    <3> QED BY <3>1 DEF StillOpen
  <2>3. PICK q \in 1..Len(f) : f[q] = a.map[p] /\ Len(f) - q <= n - p
    BY <1>3, <2>1, <2>2
  <2>4. Len(f) - q <= newer[o]
    BY <1>1, <1>2, <2>1, <2>3
  <2> QED BY <2>1, <2>3, <2>4
<1>7. d \in [map : Seq(Entries), dialect : Dialects \cup {"none"}]
  BY <1>1, <1>2, <1>4, <1>5
<1>8. AnswerHolds(d, ids)
  <2>1. Len(f) <= maxPendingCalls
    BY <1>1, <1>2
  <2> QED BY <1>2, <1>4, <1>5, <1>6, <2>1 DEF AnswerHolds
<1> QED BY <1>7, <1>8 DEF d

LEMMA AnswersForgotten ==
  ASSUME DialectInv, NEW ids \in Seq(RequestIds)
  PROVE  /\ answerDialect(ids) \in [map : Seq(Entries), dialect : Dialects \cup {"none"}]
         /\ AnswerHolds(answerDialect(ids), ids)
         /\ Len(ids) = 1 => answerDialect(ids).dialect = Recorded(requestDialects, ids[1])
<1> DEFINE A == [map : Seq(Entries), dialect : Dialects \cup {"none"}]
           T == {a \in A : AnswerHolds(a, ids)}
           base == [map |-> requestDialects, dialect |-> "none"]
           n == Len(ids)
           body == [i \in 1..n |-> [a \in T |-> AnsweredOne(a, ids[i])]]
           f == CHOOSE f : f = [i \in 0..n |-> IF i = 0 THEN base ELSE AnsweredOne(f[i - 1], ids[i])]
<1>1. n \in Nat /\ \A i \in 1..n : ids[i] \in RequestIds
  OBVIOUS
<1>2. base \in T
  <2>1. base \in A
    BY DEF DialectInv
  <2>2. KeepsOpen(requestDialects, StillOpen(ids), newer)
    <3> SUFFICES ASSUME NEW o \in RequestIds, StillOpen(ids)[o] # "none", newer[o] < maxPendingCalls
                 PROVE  \E p \in 1..Len(requestDialects) :
                          /\ requestDialects[p].id = o
                          /\ requestDialects[p].dialect = StillOpen(ids)[o]
                          /\ Len(requestDialects) - p <= newer[o]
      BY DEF KeepsOpen
    <3>1. StillOpen(ids)[o] = arrivedIn[o]
      BY DEF StillOpen
    <3>2. KeepsOpen(requestDialects, arrivedIn, newer)
      BY DEF DialectInv
    <3> QED BY <3>1, <3>2 DEF KeepsOpen
  <2>3. AnswerHolds(base, ids)
    BY <2>2 DEF DialectInv, AnswerHolds
  <2> QED BY <2>1, <2>3
<1>3. body \in [1..n -> [T -> T]]
  <2> SUFFICES ASSUME NEW i \in 1..n, NEW a \in T PROVE AnsweredOne(a, ids[i]) \in T
    OBVIOUS
  <2> QED BY <1>1, AnsweredOneHolds
<1>4. PICK g \in [0..n -> T] : g[0] = base /\ \A i \in 1..n : g[i] = body[i][g[i - 1]]
  <2> HIDE DEF body, base, T, n
  <2>1. HasLoop(n, T, base, body)
    BY <1>1, <1>2, <1>3, LoopExists
  <2> QED BY <2>1 DEF HasLoop
<1>5. \A i \in 1..n : g[i] = AnsweredOne(g[i - 1], ids[i])
  <2> SUFFICES ASSUME NEW i \in 1..n
               PROVE  body[i][g[i - 1]] = AnsweredOne(g[i - 1], ids[i])
    BY <1>4
  <2>1. i - 1 \in 0..n
    BY <1>1
  <2>2. g[i - 1] \in T
    BY <1>4, <2>1
  <2> HIDE DEF T
  <2> QED BY <2>2
<1> HIDE DEF T, body, base, n
<1>6. g = [i \in 0..n |-> IF i = 0 THEN base ELSE AnsweredOne(g[i - 1], ids[i])]
  <2>1. \A i \in 0..n : i # 0 => i \in 1..n
    BY <1>1
  <2>2. \A i \in 0..n : g[i] = IF i = 0 THEN base ELSE AnsweredOne(g[i - 1], ids[i])
    BY <1>4, <1>5, <2>1
  <2> QED BY <1>4, <2>2
<1>7. f = [i \in 0..n |-> IF i = 0 THEN base ELSE AnsweredOne(f[i - 1], ids[i])]
  BY <1>6
<1>8. answerDialect(ids) = f[n]
  BY DEF answerDialect, base, n
<1> HIDE DEF f
<1>9. f[0] = base /\ \A i \in 1..n : f[i] = AnsweredOne(f[i - 1], ids[i])
  BY <1>1, <1>7
<1>10. ASSUME NEW i \in 1..n, f[i - 1] \in T PROVE f[i] \in T
  BY <1>3, <1>9, <1>10, AnsweredOneHolds DEF T, n
<1>11. f[n] \in T
  <2> HIDE DEF A
  <2> QED BY <1>1, <1>2, <1>9, <1>10, LoopKeeps
<1>12. ASSUME n = 1 PROVE f[n].dialect = Recorded(requestDialects, ids[1])
  <2>1. f[1] = AnsweredOne(base, ids[1])
    BY <1>9, <1>12
  <2> QED BY <1>12, <2>1 DEF AnsweredOne, base
<1> QED BY <1>8, <1>11, <1>12 DEF T, n

-----------------------------------------------------------------------------
\* The steps.

LEMMA MessageFacts ==
  ASSUME NEW ids \in Messages
  PROVE  ids \in Seq(RequestIds)
<1>1. CASE ids = <<>>
  BY <1>1
<1>2. CASE ids \in {<<id>> : id \in RequestIds}
  <2>1. PICK id \in RequestIds : ids = <<id>>
    BY <1>2
  <2> QED BY <2>1
<1>3. CASE ids \in RequestIds \X RequestIds
  <2>1. PICK a \in RequestIds, b \in RequestIds : ids = <<a, b>>
    BY <1>3
  <2> QED BY <2>1
<1> QED BY <1>1, <1>2, <1>3 DEF Messages

LEMMA DialectInitially ==
  DialectInit => DialectInv
<1> SUFFICES ASSUME DialectInit PROVE DialectInv
  OBVIOUS
<1> USE DialectAssumption DEF DialectInit
<1>1. requestDialects \in Seq(Entries) /\ Len(requestDialects) = 0
  OBVIOUS
<1>2. MapHolds(requestDialects, proven)
  BY <1>1 DEF MapHolds
<1>3. KeepsOpen(requestDialects, arrivedIn, newer)
  BY DEF KeepsOpen
<1>4. AnswersInKind
  BY DEF AnswersInKind, NothingWritten
<1> QED BY <1>1, <1>2, <1>3, <1>4 DEF DialectInv

LEMMA DecodeFrameStep ==
  ASSUME DialectInv, NEW dialect \in Dialects, NEW ids \in Messages, DecodeFrame(dialect, ids)
  PROVE  DialectInv'
<1> DEFINE k == rememberRequests(ids, dialect)
           shown == proven \cup {dialect}
<1>1. k \in Known /\ KnownHolds(k, shown)
  BY MessageFacts, RequestsRemembered
<1>2. /\ requestDialects' = k.map /\ arrivedIn' = k.arrivedIn /\ newer' = k.newer
      /\ proven' = shown /\ peerDialect' = dialect /\ UNCHANGED <<preferred, written>>
  BY DEF DecodeFrame
<1> HIDE DEF k
<1>3. dialect # "none" /\ shown \in SUBSET Dialects
  BY DEF Dialects, DialectInv
<1> HIDE DEF shown
<1>4. AnswersInKind'
  BY <1>2 DEF DialectInv, AnswersInKind
<1>5. dialect \in shown /\ preferred \in Dialects
  BY DEF shown, DialectInv
<1> QED BY <1>1, <1>2, <1>3, <1>4, <1>5 DEF DialectInv, Known, KnownHolds

LEMMA SkipFrameStep ==
  ASSUME DialectInv, NEW dialect \in Dialects, SkipFrame(dialect)
  PROVE  DialectInv'
BY DEF DialectInv, SkipFrame, AnswersInKind

LEMMA WriteMessageStep ==
  ASSUME DialectInv, NEW ids \in Messages, NEW refused \in BOOLEAN, WriteMessage(ids, refused)
  PROVE  DialectInv'
<1> USE DialectAssumption
<1> DEFINE a == answerDialect(ids)
           latched == IF peerDialect = "none" THEN preferred ELSE peerDialect
           dialect == IF a.dialect = "none" THEN latched ELSE a.dialect
           isOwed == Len(ids) = 1 /\ ~refused /\ newer[ids[1]] < maxPendingCalls
           said == IF refused \/ Len(ids) > 1 THEN "jsonrpc" ELSE dialect
           owes == IF isOwed THEN arrivedIn[ids[1]] ELSE "none"
<1>1. /\ a \in [map : Seq(Entries), dialect : Dialects \cup {"none"}]
      /\ AnswerHolds(a, ids) /\ ids \in Seq(RequestIds)
      /\ Len(ids) = 1 => a.dialect = Recorded(requestDialects, ids[1])
  BY MessageFacts, AnswersForgotten
<1>2. /\ requestDialects' = a.map
      /\ written' = [dialect |-> said, owed |-> owes, readable |-> Readable]
      /\ arrivedIn' = StillOpen(ids)
      /\ UNCHANGED <<preferred, peerDialect, diagnostic, newer, proven>>
  BY DEF WriteMessage, StillOpen
<1> HIDE DEF a
<1>3. said \in Readable
  <2>1. a.dialect \in proven \cup {"none"}
    BY <1>1 DEF AnswerHolds
  <2>2. latched \in Readable
    BY DEF DialectInv, Readable
  <2>3. proven \subseteq Readable /\ "jsonrpc" \in Readable
    BY DEF Readable
  <2> QED BY <2>1, <2>2, <2>3
<1>4. ASSUME owes # "none"
      PROVE  said = owes
  <2>1. isOwed /\ arrivedIn[ids[1]] # "none" /\ owes = arrivedIn[ids[1]]
    BY <1>4
  <2>2. ids[1] \in RequestIds
    <3>1. ids \in Seq(RequestIds) /\ Len(ids) = 1
      BY <1>1, <2>1
    <3> QED BY <3>1
  <2>3. PICK p \in 1..Len(requestDialects) :
          requestDialects[p].id = ids[1] /\ requestDialects[p].dialect = arrivedIn[ids[1]]
    BY <2>1, <2>2 DEF DialectInv, KeepsOpen
  <2>4. Recorded(requestDialects, ids[1]) = arrivedIn[ids[1]]
    BY <2>3, RecordedFacts DEF DialectInv
  <2>5. said = a.dialect
    BY <1>1, <2>1, <2>4
  <2> QED BY <1>1, <2>1, <2>4, <2>5
<1> HIDE DEF said, owes
<1>5. AnswersInKind'
  BY <1>2, <1>3, <1>4 DEF AnswersInKind
<1>6. StillOpen(ids) \in [RequestIds -> Dialects \cup {"none"}]
  BY DEF DialectInv, StillOpen
<1> QED BY <1>1, <1>2, <1>5, <1>6 DEF DialectInv, AnswerHolds

LEMMA DialectInductive ==
  DialectInv /\ [DialectNext]_dialectVars => DialectInv'
<1> SUFFICES ASSUME DialectInv, [DialectNext]_dialectVars PROVE DialectInv'
  OBVIOUS
<1>1. CASE UNCHANGED dialectVars
  BY <1>1 DEF dialectVars, DialectInv, AnswersInKind
<1>2. CASE DialectNext
  BY <1>2, DecodeFrameStep, SkipFrameStep, WriteMessageStep DEF DialectNext
<1> QED BY <1>1, <1>2

\* For any identifiers, any cap and any order of frames and answers: a request that
\* fewer than the cap followed is answered in its own dialect, and nothing goes out
\* in a dialect the peer has not shown.
THEOREM DialectsAnswerInKind == DialectSpec => []AnswersInKind
<1>1. DialectInv => AnswersInKind
  BY DEF DialectInv
<1> QED BY <1>1, DialectInitially, DialectInductive, PTL DEF DialectSpec
===============================================================================
