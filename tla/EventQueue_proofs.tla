------------------------- MODULE EventQueue_proofs --------------------------
(***************************************************************************)
(* Proofs about EventQueue, for any number of events, workers and posts    *)
(* and any capacity of the queues.                                         *)
(***************************************************************************)
EXTENDS EventQueue, SequenceTheorems, SumFacts

(* The places that wait for an insert: in the queue, and with a worker.    *)
Queued(e) == {i \in DOMAIN apiQ : apiQ[i] = e}
Taken(e) == {w \in Workers : task[w] = e}

(* Every copy of an event that is still to be inserted was posted too.     *)
Accounted(e) ==
    /\ IsFiniteSet(Taken(e))
    /\ inserted[e] + Cardinality(Queued(e)) + Cardinality(Taken(e))
           <= posted[e] + unanswered[e]

(* Every copy of an event that is still to be handled was announced too.   *)
Announced(e) ==
    handled[e] + notices[e] + fetched[e] + jobs[e] + external[e] + running[e]
        <= inserted[e] + caught[e]

IInv ==
    /\ TypeOK
    /\ AckedHeld
    /\ \A e \in Events : Accounted(e) /\ Announced(e)

USE EventsAssumption, SizesAssumption DEF EventsAssumption, SizesAssumption

(***************************************************************************)
(* Bags.                                                                   *)
(***************************************************************************)
(* c holds k more copies of e than b, and is a bag like b.                 *)
Changed(c, b, e, k) ==
    /\ c \in Bags
    /\ \A f \in Events : c[f] = IF f = e THEN b[f] + k ELSE b[f]
    /\ Size(c) = Size(b) + k

(* Size is a sum in the sense of SumFacts.                                 *)
LEMMA SizeIsSum == \A b : Size(b) = Sum(b, Events)
  BY Zenon DEF Size, Sum

(* A bag counts.                                                           *)
LEMMA BagNat == ASSUME NEW b \in Bags, NEW e \in Events PROVE b[e] \in Nat
  BY DEF Bags

(* So does its size.                                                       *)
LEMMA SizeNat == ASSUME NEW b \in Bags PROVE Size(b) \in Nat
<1>1. \A e \in Events : b[e] \in Nat
  BY BagNat
<1>2. Sum(b, Events) \in Nat
  BY <1>1, SumNat
<1> QED
  BY <1>2, SizeIsSum

(* What changes in one place of a bag changes its size as much.            *)
LEMMA ChangedSize ==
    ASSUME NEW b \in Bags, NEW c \in Bags, NEW e \in Events, NEW k \in Int,
           \A f \in Events : c[f] = IF f = e THEN b[f] + k ELSE b[f]
    PROVE  Changed(c, b, e, k)
<1>1. \A f \in Events : b[f] \in Nat /\ c[f] \in Nat
  BY BagNat
<1>2. Sum(c, Events) = Sum(b, Events) - b[e] + c[e]
  BY <1>1, SumChange
<1>3. Sum(b, Events) \in Nat /\ b[e] \in Nat /\ c[e] = b[e] + k
  BY <1>1, SumNat
<1>4. Sum(c, Events) = Sum(b, Events) + k
  BY <1>2, <1>3
<1> QED
  BY <1>4, SizeIsSum DEF Changed

(* What Put, Drop and doing nothing change.                                *)
LEMMA PutChanged ==
    ASSUME NEW b \in Bags, NEW e \in Events PROVE Changed(Put(b, e), b, e, 1)
<1>1. Put(b, e) \in Bags /\ \A f \in Events : Put(b, e)[f] = IF f = e THEN b[f] + 1 ELSE b[f]
  BY DEF Bags, Put
<1> QED
  BY <1>1, ChangedSize

LEMMA DropChanged ==
    ASSUME NEW b \in Bags, NEW e \in Events, b[e] > 0 PROVE Changed(Drop(b, e), b, e, -1)
<1>1. Drop(b, e) \in Bags
  BY DEF Bags, Drop
<1>2. \A f \in Events : Drop(b, e)[f] = IF f = e THEN b[f] - 1 ELSE b[f]
  BY DEF Bags, Drop
<1>3. \A f \in Events : b[f] - 1 = b[f] + (-1)
  BY BagNat
<1> QED
  BY <1>1, <1>2, <1>3, ChangedSize

LEMMA SameChanged ==
    ASSUME NEW b \in Bags, NEW e \in Events PROVE Changed(b, b, e, 0)
<1>1. \A f \in Events : b[f] = b[f] + 0
  BY BagNat
<1> QED
  BY <1>1, ChangedSize

(* The empty bag.                                                          *)
LEMMA EmptyFacts ==
    /\ Empty \in Bags /\ Size(Empty) = 0
    /\ \A e \in Events : Empty[e] = 0
<1>1. Empty \in Bags /\ \A e \in Events : Empty[e] = 0
  BY DEF Bags, Empty
<1>2. Sum(Empty, Events) = 0 * Cardinality(Events) + Cardinality({})
  BY <1>1, SumTwoValues
<1>3. Sum(Empty, Events) = 0
  BY <1>2, FS_EmptySet, FS_CardinalityType
<1> QED
  BY <1>1, <1>3, SizeIsSum

(* The bags of TypeOK, one by one.                                         *)
LEMMA BagTypes ==
    ASSUME TypeOK
    PROVE  /\ notices \in Bags /\ fetched \in Bags /\ jobs \in Bags /\ external \in Bags
           /\ running \in Bags /\ ran \in Bags
           /\ posted \in Bags /\ inserted \in Bags /\ unanswered \in Bags
           /\ caught \in Bags /\ handled \in Bags
  BY DEF TypeOK

(* The counts of TypeOK, one by one.                                       *)
LEMMA CountFacts ==
    ASSUME TypeOK, NEW e \in Events
    PROVE  /\ notices[e] \in Nat /\ fetched[e] \in Nat /\ jobs[e] \in Nat
           /\ external[e] \in Nat /\ running[e] \in Nat /\ ran[e] \in Nat
           /\ posted[e] \in Nat /\ inserted[e] \in Nat /\ unanswered[e] \in Nat
           /\ caught[e] \in Nat /\ handled[e] \in Nat
  BY BagTypes, BagNat

(* A set of positions that moves up into another is no larger than it.     *)
LEMMA ShiftFacts ==
    ASSUME NEW A \in SUBSET Nat, NEW B, IsFiniteSet(B), \A i \in A : i + 1 \in B
    PROVE  IsFiniteSet(A) /\ Cardinality(A) <= Cardinality(B)
<1> DEFINE up == [i \in A |-> i + 1]
<1>1. up \in [A -> B] /\ \A i, j \in A : up[i] = up[j] => i = j
  OBVIOUS
<1>2. up \in Injection(A, B)
  BY <1>1 DEF Injection, IsInjective
<1> HIDE DEF up
<1> QED
  BY <1>2, FS_Injection

(* The places are finite in number, and no places are none.                *)
LEMMA PlaceFacts ==
    ASSUME TypeOK, NEW e \in Events, IsFiniteSet(Taken(e))
    PROVE  /\ IsFiniteSet(Queued(e)) /\ Cardinality(Queued(e)) \in Nat
           /\ Cardinality(Taken(e)) \in Nat
<1>1. apiQ \in Seq(Events)
  BY DEF TypeOK
<1>2. DOMAIN apiQ = 1 .. Len(apiQ) /\ Len(apiQ) \in Nat
  BY <1>1
<1>3. IsFiniteSet(DOMAIN apiQ)
  BY <1>2, FS_Interval
<1>4. IsFiniteSet(Queued(e))
  BY <1>3, FS_Subset DEF Queued
<1> QED
  BY <1>4, FS_CardinalityType

(***************************************************************************)
(* The initial state.                                                      *)
(***************************************************************************)
(* When the process starts, nothing waits for an insert.                   *)
LEMMA NoPlaces ==
    ASSUME NEW e \in Events, apiQ = <<>>, task = [w \in Workers |-> None]
    PROVE  /\ Queued(e) = {} /\ Taken(e) = {} /\ IsFiniteSet(Taken(e))
           /\ Cardinality(Queued(e)) = 0 /\ Cardinality(Taken(e)) = 0
<1>1. Queued(e) = {} /\ Taken(e) = {}
  BY DEF Queued, Taken
<1> QED
  BY <1>1, FS_EmptySet

(* The initial state satisfies the invariant.                              *)
LEMMA InitIInv == Init => IInv
<1> SUFFICES ASSUME Init PROVE IInv
  OBVIOUS
<1>1. TypeOK
  <2>1. apiQ \in Seq(Events) /\ Len(apiQ) = 0 /\ Len(apiQ) <= ApiCap
    BY DEF Init
  <2>2. Size(running) + Size(ran) <= Handlers
    BY EmptyFacts DEF Init
  <2>3. Size(fetched) <= Listeners /\ Size(jobs) <= QueueCap /\ Size(external) <= QueueCap
    BY EmptyFacts DEF Init
  <2> QED
    BY <2>1, <2>2, <2>3, EmptyFacts DEF Init, TypeOK
<1>2. AckedHeld
  BY DEF Init, AckedHeld
<1>3. ASSUME NEW e \in Events PROVE Accounted(e) /\ Announced(e)
  <2>1. Accounted(e)
    BY EmptyFacts, NoPlaces DEF Init, Accounted
  <2>2. Announced(e)
    BY EmptyFacts DEF Init, Announced
  <2> QED
    BY <2>1, <2>2
<1>4. QED
  BY <1>1, <1>2, <1>3 DEF IInv

(***************************************************************************)
(* The ways to store: posts, and steps of the API workers.                 *)
(***************************************************************************)
(* An accepted post adds a place and a post.                               *)
LEMMA PostStep ==
    ASSUME IInv, NEW e \in Events, Post(e) PROVE IInv'
<1>1. /\ TypeOK /\ apiQ \in Seq(Events) /\ Len(apiQ) < ApiCap /\ apiQ' = Append(apiQ, e)
      /\ acked' = acked \cup {e} /\ posted' = Put(posted, e)
      /\ UNCHANGED <<phase, task, row, pipeline, inserted, unanswered, caught, handled>>
  BY DEF Post, IInv, TypeOK
<1>2. /\ apiQ' \in Seq(Events) /\ Len(apiQ') = Len(apiQ) + 1 /\ apiQ'[Len(apiQ) + 1] = e
      /\ \A i \in 1 .. Len(apiQ) : apiQ'[i] = apiQ[i]
  BY <1>1
<1>3. /\ DOMAIN apiQ = 1 .. Len(apiQ) /\ DOMAIN apiQ' = 1 .. Len(apiQ) + 1
      /\ Len(apiQ) \in Nat
  BY <1>1, <1>2
<1>4. Changed(posted', posted, e, 1)
  BY <1>1, BagTypes, PutChanged
<1>5. TypeOK'
  <2>1. posted' \in Bags /\ Len(apiQ') <= ApiCap
    BY <1>1, <1>2, <1>3, <1>4 DEF Changed
  <2>2. acked' \subseteq Events
    BY <1>1 DEF TypeOK
  <2>3. QED
    BY <1>1, <1>2, <2>1, <2>2 DEF TypeOK, pipeline
<1>6. AckedHeld'
  <2> SUFFICES ASSUME NEW f \in acked' PROVE Waiting(f)' \/ inserted'[f] > 0
    BY DEF AckedHeld
  <2>1. CASE f = e
    BY <2>1, <1>2, <1>3 DEF Waiting
  <2>2. CASE f \in acked
    <3>1. CASE inserted[f] > 0
      BY <1>1, <3>1
    <3>2. CASE \E w \in Workers : task[w] = f
      BY <1>1, <3>2 DEF Waiting
    <3>3. CASE \E i \in DOMAIN apiQ : apiQ[i] = f
      BY <1>2, <1>3, <3>3 DEF Waiting
    <3>4. QED
      BY <2>2, <3>1, <3>2, <3>3 DEF IInv, AckedHeld, Waiting
  <2>3. QED
    BY <1>1, <2>1, <2>2
<1>7. ASSUME NEW f \in Events PROVE Accounted(f)'
  <2> DEFINE n == Len(apiQ) + 1
  <2>1. /\ Accounted(f) /\ Taken(f)' = Taken(f) /\ IsFiniteSet(Taken(f))
        /\ posted'[f] = IF f = e THEN posted[f] + 1 ELSE posted[f]
        /\ UNCHANGED <<inserted, unanswered>>
    BY <1>1, <1>4 DEF IInv, Accounted, Taken, Changed
  <2>2. /\ IsFiniteSet(Queued(f)) /\ Cardinality(Queued(f)) \in Nat
        /\ Cardinality(Taken(f)) \in Nat
    BY <1>1, <2>1, PlaceFacts
  <2>3. Cardinality(Queued(f)') = IF f = e THEN Cardinality(Queued(f)) + 1
                                  ELSE Cardinality(Queued(f))
    <3>1. CASE f = e
      <4>1. Queued(f)' = Queued(f) \cup {n} /\ n \notin Queued(f)
        BY <1>2, <1>3, <3>1 DEF Queued
      <4> QED
        BY <2>2, <3>1, <4>1, FS_AddElement
    <3>2. CASE f # e
      <4>1. Queued(f)' = Queued(f)
        BY <1>2, <1>3, <3>2 DEF Queued
      <4> QED
        BY <3>2, <4>1
    <3> QED
      BY <3>1, <3>2
  <2>4. posted[f] \in Nat /\ inserted[f] \in Nat /\ unanswered[f] \in Nat
    BY <1>1, CountFacts
  <2>5. inserted[f] + Cardinality(Queued(f)) + Cardinality(Taken(f)) <= posted[f] + unanswered[f]
    BY <2>1 DEF Accounted
  <2>6. inserted'[f] + Cardinality(Queued(f)') + Cardinality(Taken(f)')
            <= posted'[f] + unanswered'[f]
    BY <2>1, <2>2, <2>3, <2>4, <2>5
  <2> QED
    BY <2>1, <2>6 DEF Accounted
<1>8. \A f \in Events : Announced(f)'
  BY <1>1 DEF IInv, Announced, pipeline
<1>9. QED
  BY <1>5, <1>6, <1>7, <1>8 DEF IInv

(* A worker's place replaces one in the queue.                             *)
LEMMA TakeStep ==
    ASSUME IInv, NEW w \in Workers, Take(w) PROVE IInv'
<1>1. /\ TypeOK /\ apiQ \in Seq(Events) /\ apiQ # <<>> /\ task[w] = None
      /\ task \in [Workers -> Events \cup {None}] /\ acked \subseteq Events
      /\ task' = [task EXCEPT ![w] = Head(apiQ)] /\ apiQ' = Tail(apiQ)
      /\ UNCHANGED <<phase, acked, row, pipeline, counts>>
  BY DEF Take, IInv, TypeOK
<1>2. /\ apiQ' \in Seq(Events) /\ Head(apiQ) \in Events /\ Head(apiQ) = apiQ[1]
      /\ Len(apiQ) \in Nat \ {0} /\ Len(apiQ') = Len(apiQ) - 1
      /\ \A i \in 1 .. Len(apiQ) - 1 : apiQ'[i] = apiQ[i + 1]
  BY <1>1, HeadTailProperties, EmptySeq
<1>3. DOMAIN apiQ = 1 .. Len(apiQ) /\ DOMAIN apiQ' = 1 .. Len(apiQ) - 1
  BY <1>1, <1>2
<1>4. TypeOK'
  <2>1. Len(apiQ') <= ApiCap
    BY <1>1, <1>2 DEF TypeOK
  <2>2. task' \in [Workers -> Events \cup {None}]
    BY <1>1, <1>2
  <2>3. QED
    BY <1>1, <1>2, <2>1, <2>2 DEF TypeOK, pipeline, counts
<1>5. AckedHeld'
  <2> SUFFICES ASSUME NEW f \in acked PROVE Waiting(f)' \/ inserted[f] > 0
    BY <1>1 DEF AckedHeld, counts
  <2>1. CASE \E v \in Workers : task[v] = f
    <3>1. PICK v \in Workers : task[v] = f
      BY <2>1
    <3>2. v # w
      BY <1>1, <3>1
    <3>3. task'[v] = f
      BY <1>1, <3>1, <3>2
    <3>4. QED
      BY <3>3 DEF Waiting
  <2>2. CASE \E i \in DOMAIN apiQ : apiQ[i] = f
    <3>1. PICK i \in 1 .. Len(apiQ) : apiQ[i] = f
      BY <1>3, <2>2
    <3>2. CASE i = 1
      <4>1. task'[w] = f
        BY <1>1, <1>2, <3>1, <3>2
      <4>2. QED
        BY <4>1 DEF Waiting
    <3>3. CASE i # 1
      <4>1. i - 1 \in 1 .. Len(apiQ) - 1 /\ apiQ'[i - 1] = f
        BY <1>2, <3>1, <3>3
      <4>2. QED
        BY <1>3, <4>1 DEF Waiting
    <3>4. QED
      BY <3>2, <3>3
  <2>3. QED
    BY <2>1, <2>2 DEF IInv, AckedHeld, Waiting
<1>6. ASSUME NEW f \in Events PROVE Accounted(f)'
  <2> DEFINE q == Cardinality(Queued(f))
             r == Cardinality(Queued(f) \ {1})
             t == Cardinality(Taken(f))
  <2>1. /\ IsFiniteSet(Taken(f)) /\ inserted[f] + q + t <= posted[f] + unanswered[f]
        /\ UNCHANGED <<inserted, posted, unanswered>>
    BY <1>1 DEF IInv, Accounted, counts
  <2>2. IsFiniteSet(Queued(f)) /\ q \in Nat /\ t \in Nat
    BY <1>1, <2>1, PlaceFacts
  <2>3. posted[f] \in Nat /\ inserted[f] \in Nat /\ unanswered[f] \in Nat
    BY <1>1, CountFacts
  <2>4. IsFiniteSet(Queued(f)') /\ Cardinality(Queued(f)') \in Nat /\ r \in Nat
        /\ Cardinality(Queued(f)') <= r
    <3>1. Queued(f)' \subseteq Nat /\ \A i \in Queued(f)' : i + 1 \in Queued(f) \ {1}
      <4>1. /\ Queued(f)' = {i \in 1 .. Len(apiQ) - 1 : apiQ'[i] = f}
            /\ Queued(f) = {i \in 1 .. Len(apiQ) : apiQ[i] = f}
        BY <1>3 DEF Queued
      <4>2. Queued(f)' \subseteq Nat
        BY <4>1
      <4>3. ASSUME NEW i \in Queued(f)' PROVE i + 1 \in Queued(f) \ {1}
        <5>1. i \in 1 .. Len(apiQ) - 1 /\ apiQ'[i] = f
          BY <4>1
        <5>2. i + 1 \in 1 .. Len(apiQ) /\ i + 1 # 1 /\ apiQ[i + 1] = f
          BY <1>2, <5>1
        <5> QED
          BY <4>1, <5>2
      <4> QED
        BY <4>2, <4>3
    <3>2. IsFiniteSet(Queued(f) \ {1})
      BY <2>2, FS_RemoveElement
    <3> HIDE DEF q, t
    <3>3. IsFiniteSet(Queued(f)') /\ Cardinality(Queued(f)') <= r
      BY <3>1, <3>2, ShiftFacts
    <3> QED
      BY <3>2, <3>3, FS_CardinalityType
  <2>5. CASE f = Head(apiQ)
    <3>1. 1 \in Queued(f)
      BY <1>2, <1>3, <2>5 DEF Queued
    <3>2. r = q - 1
      BY <2>2, <3>1, FS_RemoveElement
    <3>3. Taken(f)' = Taken(f) \cup {w} /\ w \notin Taken(f)
      BY <1>1, <1>2, <2>5 DEF Taken
    <3>4. IsFiniteSet(Taken(f)') /\ Cardinality(Taken(f)') = t + 1
      BY <2>1, <3>3, FS_AddElement
    <3> HIDE DEF q, r, t
    <3>5. inserted[f] + Cardinality(Queued(f)') + Cardinality(Taken(f)')
              <= posted[f] + unanswered[f]
      BY <2>1, <2>2, <2>3, <2>4, <3>2, <3>4
    <3> QED
      BY <2>1, <3>4, <3>5 DEF Accounted
  <2>6. CASE f # Head(apiQ)
    <3>1. r \in {q - 1, q}
      BY <2>2, FS_RemoveElement
    <3>2. Taken(f)' = Taken(f)
      BY <1>1, <1>2, <2>6 DEF Taken
    <3> HIDE DEF q, r
    <3>3. inserted[f] + Cardinality(Queued(f)') + t <= posted[f] + unanswered[f]
      BY <2>1, <2>2, <2>3, <2>4, <3>1
    <3> QED
      BY <2>1, <3>2, <3>3 DEF Accounted
  <2> QED
    BY <2>5, <2>6
<1>7. \A f \in Events : Announced(f)'
  BY <1>1 DEF IInv, Announced, pipeline, counts
<1>8. QED
  BY <1>4, <1>5, <1>6, <1>7 DEF IInv

(* What a stored event does to the table, with or without an answer.       *)
LEMMA StoreStep ==
    ASSUME IInv, NEW w \in Workers, Insert(w) \/ InsertUnanswered(w) PROVE IInv'
<1> DEFINE e == task[w]
<1>1. /\ TypeOK /\ e \in Events /\ UNCHANGED <<phase, apiQ, acked>>
      /\ row' = [row EXCEPT ![e] = "live"]
      /\ notices' = Put(notices, e) /\ inserted' = Put(inserted, e)
      /\ UNCHANGED <<fetched, jobs, external, running, ran, posted, caught, handled>>
  BY DEF Insert, InsertUnanswered, Insertable, Stored, memory, IInv
<1>2. \/ task' = [task EXCEPT ![w] = None] /\ unanswered' = unanswered
      \/ task' = task /\ unanswered' = Put(unanswered, e)
  BY DEF Insert, InsertUnanswered, memory
<1>3. task \in [Workers -> Events \cup {None}]
  BY <1>1 DEF TypeOK
<1>4. Changed(notices', notices, e, 1) /\ Changed(inserted', inserted, e, 1)
  <2> HIDE DEF e
  <2> QED
    BY <1>1, BagTypes, PutChanged
<1>5. \/ unanswered' = unanswered \/ Changed(unanswered', unanswered, e, 1)
  <2> HIDE DEF e
  <2> QED
    BY <1>1, <1>2, BagTypes, PutChanged
<1>6. TypeOK'
  <2> HIDE DEF e
  <2>1. task' \in [Workers -> Events \cup {None}]
    BY <1>2, <1>3
  <2>2. unanswered' \in Bags /\ notices' \in Bags /\ inserted' \in Bags
    BY <1>1, <1>4, <1>5, BagTypes DEF Changed
  <2>3. row' \in [Events -> {"none", "live", "expired"}]
    BY <1>1 DEF TypeOK
  <2>4. QED
    BY <1>1, <2>1, <2>2, <2>3 DEF TypeOK
<1>7. \A f \in Events : /\ inserted'[f] = IF f = e THEN inserted[f] + 1 ELSE inserted[f]
                        /\ notices'[f] = IF f = e THEN notices[f] + 1 ELSE notices[f]
  <2> HIDE DEF e
  <2> QED
    BY <1>4 DEF Changed
<1>8. AckedHeld'
  <2> SUFFICES ASSUME NEW f \in acked PROVE Waiting(f)' \/ inserted'[f] > 0
    BY <1>1 DEF AckedHeld
  <2>1. f \in Events /\ inserted[f] \in Nat
    BY <1>1, CountFacts DEF TypeOK
  <2>2. CASE f = e
    BY <1>7, <2>1, <2>2
  <2>3. CASE f # e /\ \E v \in Workers : task[v] = f
    <3>1. PICK v \in Workers : task[v] = f
      BY <2>3
    <3>2. task'[v] = f
      BY <1>2, <1>3, <2>3, <3>1
    <3>3. QED
      BY <3>2 DEF Waiting
  <2>4. CASE \E i \in DOMAIN apiQ : apiQ[i] = f
    BY <1>1, <2>4 DEF Waiting
  <2>5. CASE inserted[f] > 0
    BY <1>7, <2>1, <2>5
  <2>6. QED
    BY <2>2, <2>3, <2>4, <2>5 DEF IInv, AckedHeld, Waiting
<1>9. ASSUME NEW f \in Events PROVE Accounted(f)'
  <2> DEFINE q == Cardinality(Queued(f))
             t == Cardinality(Taken(f))
  <2>1. /\ IsFiniteSet(Taken(f)) /\ inserted[f] + q + t <= posted[f] + unanswered[f]
        /\ Queued(f)' = Queued(f) /\ posted' = posted
    BY <1>1 DEF IInv, Accounted, Queued
  <2>2. q \in Nat /\ t \in Nat
    BY <1>1, <2>1, PlaceFacts
  <2>3. posted[f] \in Nat /\ inserted[f] \in Nat /\ unanswered[f] \in Nat
    BY <1>1, CountFacts
  <2>4. CASE task' = [task EXCEPT ![w] = None] /\ unanswered' = unanswered
    <3>1. Taken(f)' = Taken(f) \ {w}
      BY <1>1, <1>3, <2>4 DEF Taken
    <3>2. w \in Taken(f) <=> f = e
      BY DEF Taken
    <3>3. /\ IsFiniteSet(Taken(f)')
          /\ Cardinality(Taken(f)') = IF f = e THEN t - 1 ELSE t
      BY <2>1, <3>1, <3>2, FS_RemoveElement
    <3> HIDE DEF e, q, t
    <3>4. inserted'[f] + q + Cardinality(Taken(f)') <= posted[f] + unanswered[f]
      BY <1>7, <2>1, <2>2, <2>3, <3>3
    <3> QED
      BY <2>1, <2>4, <3>3, <3>4 DEF Accounted, q
  <2>5. CASE task' = task /\ unanswered' = Put(unanswered, e)
    <3>1. Taken(f)' = Taken(f)
      BY <2>5 DEF Taken
    <3>2. unanswered'[f] = IF f = e THEN unanswered[f] + 1 ELSE unanswered[f]
      <4> HIDE DEF e
      <4>1. Changed(unanswered', unanswered, e, 1)
        BY <1>1, <2>5, BagTypes, PutChanged
      <4> QED
        BY <4>1 DEF Changed
    <3> HIDE DEF e, q, t
    <3>3. inserted'[f] + q + t <= posted[f] + unanswered'[f]
      BY <1>7, <2>1, <2>2, <2>3, <3>2
    <3> QED
      BY <2>1, <3>1, <3>3 DEF Accounted, q, t
  <2> QED
    BY <1>2, <2>4, <2>5
<1>10. ASSUME NEW f \in Events PROVE Announced(f)'
  <2> HIDE DEF e
  <2>1. Announced(f)
    BY DEF IInv
  <2>2. UNCHANGED <<handled, fetched, jobs, external, running, caught>>
    BY <1>1
  <2>3. QED
    BY <1>1, <1>7, <2>1, <2>2, CountFacts DEF Announced
<1>11. QED
  BY <1>6, <1>8, <1>9, <1>10 DEF IInv

(***************************************************************************)
(* Steps that leave the posts alone.                                       *)
(***************************************************************************)
(* Nothing happens to the posts: what is said of them stays true.          *)
LEMMA PostsKept ==
    ASSUME IInv, UNCHANGED <<memory, posted, inserted, unanswered>>
    PROVE  AckedHeld' /\ \A e \in Events : Accounted(e)'
<1>1. AckedHeld'
  BY DEF IInv, AckedHeld, Waiting, memory
<1>2. ASSUME NEW e \in Events PROVE Accounted(e)'
  <2>1. Queued(e)' = Queued(e) /\ Taken(e)' = Taken(e)
    BY DEF Queued, Taken, memory
  <2> QED
    BY <2>1 DEF IInv, Accounted
<1> QED
  BY <1>1, <1>2

(* Rows expire and are removed.                                            *)
LEMMA TableStep ==
    ASSUME IInv, (\E e \in Events : Expire(e)) \/ Janitor PROVE IInv'
<1>1. UNCHANGED <<phase, memory, pipeline, counts>>
  BY DEF Expire, Janitor
<1>2. row' \in [Events -> {"none", "live", "expired"}]
  <2>1. row \in [Events -> {"none", "live", "expired"}]
    BY DEF IInv, TypeOK
  <2>2. CASE \E e \in Events : Expire(e)
    BY <2>1, <2>2 DEF Expire
  <2>3. CASE Janitor
    BY <2>1, <2>3 DEF Janitor
  <2>4. QED
    BY <2>2, <2>3
<1>3. AckedHeld' /\ \A e \in Events : Accounted(e)'
  BY <1>1, PostsKept DEF counts
<1>4. TypeOK'
  BY <1>1, <1>2 DEF IInv, TypeOK, memory, pipeline, counts
<1>5. \A e \in Events : Announced(e)'
  BY <1>1 DEF IInv, Announced, pipeline, counts
<1>6. QED
  BY <1>3, <1>4, <1>5 DEF IInv

(* A catch-up announces once more each row it counts.                      *)
LEMMA CatchUpStep ==
    ASSUME IInv, NEW S \in SUBSET Events, CatchUp(S) PROVE IInv'
<1>1. /\ TypeOK
      /\ UNCHANGED <<phase, memory, row, fetched, jobs, external, running, ran,
                     posted, inserted, unanswered, handled>>
  BY DEF CatchUp, IInv
<1>2. AckedHeld' /\ \A e \in Events : Accounted(e)'
  BY <1>1, PostsKept
<1>3. \A e \in Events : notices[e] \in Nat /\ caught[e] \in Nat
  BY <1>1, CountFacts
<1>4. \A e \in Events :
        /\ notices'[e] = IF e \in S THEN notices[e] + 1 ELSE notices[e]
        /\ caught'[e] = IF e \in S THEN caught[e] + 1 ELSE caught[e]
  BY <1>3 DEF CatchUp
<1>5. notices' \in Bags /\ caught' \in Bags
  BY <1>3, <1>4 DEF CatchUp, Bags
<1>6. TypeOK'
  BY <1>1, <1>5 DEF TypeOK, memory
<1>7. ASSUME NEW e \in Events PROVE Announced(e)'
  <2>1. Announced(e)
    BY DEF IInv
  <2>2. QED
    BY <1>1, <1>4, <2>1, CountFacts DEF Announced
<1>8. QED
  BY <1>2, <1>6, <1>7 DEF IInv

(* A step of the pipeline, by the copies of e that each place gains: on    *)
(* the whole none is added, and no place holds more than it may.           *)
Moved(e, n, g, j, x, r, d, h) ==
    /\ UNCHANGED <<phase, memory, posted, inserted, unanswered, caught>>
    /\ Changed(notices', notices, e, n) /\ Changed(fetched', fetched, e, g)
    /\ Changed(jobs', jobs, e, j) /\ Changed(external', external, e, x)
    /\ Changed(running', running, e, r) /\ Changed(ran', ran, e, d)
    /\ Changed(handled', handled, e, h)
    /\ row' \in [Events -> {"none", "live", "expired"}]
    /\ {n, g, j, x, r, d, h} \subseteq {-1, 0, 1} /\ r + d <= 1
    /\ h + n + g + j + x + r <= 0
    /\ g <= 0 \/ Size(fetched) < Listeners
    /\ j <= 0 \/ Size(jobs) < QueueCap
    /\ x <= 0 \/ Size(external) < QueueCap
    /\ r + d <= 0 \/ Size(running) + Size(ran) < Handlers

(* Such a step keeps the invariant.                                        *)
LEMMA MovedKeeps ==
    ASSUME IInv, NEW e \in Events,
           NEW n, NEW g, NEW j, NEW x, NEW r, NEW d, NEW h,
           Moved(e, n, g, j, x, r, d, h)
    PROVE  IInv'
<1>1. TypeOK /\ AckedHeld' /\ \A f \in Events : Accounted(f)' /\ Announced(f)
  BY PostsKept DEF IInv, Moved
<1>2. {n, g, j, x, r, d, h} \subseteq {-1, 0, 1} /\ r + d <= 1
  BY DEF Moved
<1>3. TypeOK'
  <2>1. /\ notices' \in Bags /\ fetched' \in Bags /\ jobs' \in Bags /\ external' \in Bags
        /\ running' \in Bags /\ ran' \in Bags /\ handled' \in Bags
    BY DEF Moved, Changed
  <2>2. /\ Size(fetched') = Size(fetched) + g /\ Size(jobs') = Size(jobs) + j
        /\ Size(external') = Size(external) + x
        /\ Size(running') = Size(running) + r /\ Size(ran') = Size(ran) + d
    BY DEF Moved, Changed
  <2>3. /\ Size(fetched) \in Nat /\ Size(jobs) \in Nat /\ Size(external) \in Nat
        /\ Size(running) \in Nat /\ Size(ran) \in Nat
    BY <1>1, BagTypes, SizeNat
  <2>4. /\ Size(fetched) <= Listeners /\ Size(jobs) <= QueueCap /\ Size(external) <= QueueCap
        /\ Size(running) + Size(ran) <= Handlers
    BY <1>1 DEF TypeOK
  <2>5. /\ g <= 0 \/ Size(fetched) < Listeners
        /\ j <= 0 \/ Size(jobs) < QueueCap
        /\ x <= 0 \/ Size(external) < QueueCap
        /\ r + d <= 0 \/ Size(running) + Size(ran) < Handlers
    BY DEF Moved
  <2>6. Size(fetched') <= Listeners
    BY <1>2, <2>2, <2>3, <2>4, <2>5
  <2>7. Size(jobs') <= QueueCap
    BY <1>2, <2>2, <2>3, <2>4, <2>5
  <2>8. Size(external') <= QueueCap
    BY <1>2, <2>2, <2>3, <2>4, <2>5
  <2>9. Size(running') + Size(ran') <= Handlers
    BY <1>2, <2>2, <2>3, <2>4, <2>5
  <2>10. /\ row' \in [Events -> {"none", "live", "expired"}]
         /\ UNCHANGED <<phase, memory, posted, inserted, unanswered, caught>>
    BY DEF Moved
  <2> QED
    BY <1>1, <2>1, <2>6, <2>7, <2>8, <2>9, <2>10 DEF TypeOK, memory
<1>4. ASSUME NEW f \in Events PROVE Announced(f)'
  <2>1. CASE f = e
    <3>1. /\ notices'[f] = notices[f] + n /\ fetched'[f] = fetched[f] + g
          /\ jobs'[f] = jobs[f] + j /\ external'[f] = external[f] + x
          /\ running'[f] = running[f] + r /\ handled'[f] = handled[f] + h
      BY <2>1 DEF Moved, Changed
    <3>2. h + n + g + j + x + r <= 0 /\ UNCHANGED <<inserted, caught>>
      BY DEF Moved
    <3> QED
      BY <1>2, <1>1, <3>1, <3>2, CountFacts DEF Announced
  <2>2. CASE f # e
    <3>1. /\ notices'[f] = notices[f] /\ fetched'[f] = fetched[f] /\ jobs'[f] = jobs[f]
          /\ external'[f] = external[f] /\ running'[f] = running[f]
          /\ handled'[f] = handled[f]
      BY <2>2 DEF Moved, Changed
    <3>2. UNCHANGED <<inserted, caught>>
      BY DEF Moved
    <3> QED
      BY <1>1, <3>1, <3>2 DEF Announced
  <2> QED
    BY <2>1, <2>2
<1> QED
  BY <1>1, <1>3, <1>4 DEF IInv

(* All steps from a notice to the settling of its row are of this kind.    *)
LEMMA PipelineStep ==
    ASSUME IInv, NEW e \in Events,
           \/ LoseNotice(e) \/ Fetch(e) \/ Enqueue(e) \/ Route(e)
           \/ Begin(e) \/ Ignore(e) \/ Run(e) \/ Settle(e)
    PROVE  IInv'
<1>1. /\ notices \in Bags /\ fetched \in Bags /\ jobs \in Bags /\ external \in Bags
      /\ running \in Bags /\ ran \in Bags /\ handled \in Bags
  BY BagTypes DEF IInv
<1>2. /\ Changed(notices, notices, e, 0) /\ Changed(fetched, fetched, e, 0)
      /\ Changed(jobs, jobs, e, 0) /\ Changed(external, external, e, 0)
      /\ Changed(running, running, e, 0) /\ Changed(ran, ran, e, 0)
      /\ Changed(handled, handled, e, 0)
  BY <1>1, SameChanged
<1>3. row \in [Events -> {"none", "live", "expired"}]
  BY DEF IInv, TypeOK
<1>4. UNCHANGED <<phase, memory, posted, inserted, unanswered, caught>>
  BY DEF LoseNotice, Fetch, Enqueue, Route, Begin, Ignore, Run, Settle, counts
<1>5. row' \in [Events -> {"none", "live", "expired"}]
  BY <1>3 DEF LoseNotice, Fetch, Enqueue, Route, Begin, Ignore, Run, Settle
<1>6. CASE LoseNotice(e)
  <2>1. /\ notices[e] > 0
        /\ notices' = Drop(notices, e)
        /\ UNCHANGED <<fetched, jobs, external, running, ran, handled>>
    BY <1>6 DEF LoseNotice, counts
  <2>2. Changed(notices', notices, e, -1)
    BY <1>1, <2>1, DropChanged
  <2>3. Moved(e, -1, 0, 0, 0, 0, 0, 0)
    BY <1>2, <1>4, <1>5, <2>1, <2>2 DEF Moved
  <2> QED
    BY Zenon, <2>3, MovedKeeps
<1>7. CASE Fetch(e)
  <2>1. /\ notices[e] > 0 /\ notices' = Drop(notices, e) /\ Size(fetched) < Listeners
        /\ fetched' = fetched \/ fetched' = Put(fetched, e)
        /\ UNCHANGED <<jobs, external, running, ran, handled>>
    BY <1>7 DEF Fetch, counts
  <2>2. Changed(notices', notices, e, -1)
    BY <1>1, <2>1, DropChanged
  <2>3. CASE fetched' = fetched
    <3>1. Moved(e, -1, 0, 0, 0, 0, 0, 0)
      BY <1>2, <1>4, <1>5, <2>1, <2>2, <2>3 DEF Moved
    <3> QED
      BY Zenon, <3>1, MovedKeeps
  <2>4. CASE fetched' = Put(fetched, e)
    <3>1. Changed(fetched', fetched, e, 1)
      BY <1>1, <2>4, PutChanged
    <3>2. Moved(e, -1, 1, 0, 0, 0, 0, 0)
      BY <1>2, <1>4, <1>5, <2>1, <2>2, <3>1 DEF Moved
    <3> QED
      BY Zenon, <3>2, MovedKeeps
  <2> QED
    BY <2>1, <2>3, <2>4
<1>8. CASE Enqueue(e)
  <2>1. /\ fetched[e] > 0 /\ Size(jobs) < QueueCap
        /\ fetched' = Drop(fetched, e) /\ jobs' = Put(jobs, e)
        /\ UNCHANGED <<notices, external, running, ran, handled>>
    BY <1>8 DEF Enqueue, counts
  <2>2. Changed(fetched', fetched, e, -1) /\ Changed(jobs', jobs, e, 1)
    BY <1>1, <2>1, DropChanged, PutChanged
  <2>3. Moved(e, 0, -1, 1, 0, 0, 0, 0)
    BY <1>2, <1>4, <1>5, <2>1, <2>2 DEF Moved
  <2> QED
    BY Zenon, <2>3, MovedKeeps
<1>9. CASE Route(e)
  <2>1. /\ jobs[e] > 0 /\ Size(external) < QueueCap
        /\ jobs' = Drop(jobs, e) /\ external' = Put(external, e)
        /\ UNCHANGED <<notices, fetched, running, ran, handled>>
    BY <1>9 DEF Route, counts
  <2>2. Changed(jobs', jobs, e, -1) /\ Changed(external', external, e, 1)
    BY <1>1, <2>1, DropChanged, PutChanged
  <2>3. Moved(e, 0, 0, -1, 1, 0, 0, 0)
    BY <1>2, <1>4, <1>5, <2>1, <2>2 DEF Moved
  <2> QED
    BY Zenon, <2>3, MovedKeeps
<1>10. CASE Begin(e)
  <2>1. /\ external[e] > 0 /\ Size(running) + Size(ran) < Handlers
        /\ external' = Drop(external, e) /\ running' = Put(running, e)
        /\ UNCHANGED <<notices, fetched, jobs, ran, handled>>
    BY <1>10 DEF Begin, counts
  <2>2. Changed(external', external, e, -1) /\ Changed(running', running, e, 1)
    BY <1>1, <2>1, DropChanged, PutChanged
  <2>3. Moved(e, 0, 0, 0, -1, 1, 0, 0)
    BY <1>2, <1>4, <1>5, <2>1, <2>2 DEF Moved
  <2> QED
    BY Zenon, <2>3, MovedKeeps
<1>11. CASE Ignore(e)
  <2>1. /\ running[e] > 0
        /\ running' = Drop(running, e)
        /\ UNCHANGED <<notices, fetched, jobs, external, ran, handled>>
    BY <1>11 DEF Ignore, counts
  <2>2. Changed(running', running, e, -1)
    BY <1>1, <2>1, DropChanged
  <2>3. Moved(e, 0, 0, 0, 0, -1, 0, 0)
    BY <1>2, <1>4, <1>5, <2>1, <2>2 DEF Moved
  <2> QED
    BY Zenon, <2>3, MovedKeeps
<1>12. CASE Run(e)
  <2>1. /\ running[e] > 0
        /\ running' = Drop(running, e) /\ ran' = Put(ran, e) /\ handled' = Put(handled, e)
        /\ UNCHANGED <<notices, fetched, jobs, external>>
    BY <1>12 DEF Run
  <2>2. Changed(running', running, e, -1) /\ Changed(ran', ran, e, 1) /\ Changed(handled', handled, e, 1)
    BY <1>1, <2>1, DropChanged, PutChanged
  <2>3. Moved(e, 0, 0, 0, 0, -1, 1, 1)
    BY <1>2, <1>4, <1>5, <2>1, <2>2 DEF Moved
  <2> QED
    BY Zenon, <2>3, MovedKeeps
<1>13. CASE Settle(e)
  <2>1. /\ ran[e] > 0
        /\ ran' = Drop(ran, e)
        /\ UNCHANGED <<notices, fetched, jobs, external, running, handled>>
    BY <1>13 DEF Settle, counts
  <2>2. Changed(ran', ran, e, -1)
    BY <1>1, <2>1, DropChanged
  <2>3. Moved(e, 0, 0, 0, 0, 0, -1, 0)
    BY <1>2, <1>4, <1>5, <2>1, <2>2 DEF Moved
  <2> QED
    BY Zenon, <2>3, MovedKeeps
<1> QED
  BY <1>6, <1>7, <1>8, <1>9, <1>10, <1>11, <1>12, <1>13

(* A signal or a restart changes nothing but the phase; an exit loses what *)
(* is in memory, the places that waited for an insert included.            *)
LEMMA ProcessStep ==
    ASSUME IInv, Signal \/ Exit \/ Restart PROVE IInv'
<1>1. CASE Signal \/ Restart
  <2>1. UNCHANGED <<memory, row, pipeline, counts>> /\ phase' \in {"up", "stopping"}
    BY <1>1 DEF Signal, Restart
  <2>2. AckedHeld' /\ \A e \in Events : Accounted(e)'
    BY <2>1, PostsKept DEF counts
  <2>3. TypeOK'
    BY <2>1 DEF IInv, TypeOK, memory, pipeline, counts
  <2>4. \A e \in Events : Announced(e)'
    BY <2>1 DEF IInv, Announced, pipeline, counts
  <2> QED
    BY <2>2, <2>3, <2>4 DEF IInv
<1>2. CASE Exit
  <2>1. /\ TypeOK /\ phase' = "down" /\ apiQ' = <<>> /\ task' = [w \in Workers |-> None]
        /\ acked' = {} /\ notices' = Empty /\ fetched' = Empty /\ jobs' = Empty
        /\ external' = Empty /\ running' = Empty /\ ran' = Empty
        /\ UNCHANGED <<row, posted, inserted, unanswered, caught, handled>>
    BY <1>2 DEF Exit, IInv, counts
  <2>2. TypeOK'
    <3>1. Len(apiQ') <= ApiCap /\ apiQ' \in Seq(Events)
      BY <2>1
    <3>2. /\ Size(fetched') <= Listeners /\ Size(jobs') <= QueueCap
          /\ Size(external') <= QueueCap /\ Size(running') + Size(ran') <= Handlers
      BY <2>1, EmptyFacts
    <3> QED
      BY <2>1, <3>1, <3>2, EmptyFacts DEF TypeOK
  <2>3. AckedHeld'
    BY <2>1 DEF AckedHeld
  <2>4. ASSUME NEW e \in Events PROVE Accounted(e)'
    <3>1. /\ IsFiniteSet(Taken(e)')
          /\ Cardinality(Queued(e)') = 0 /\ Cardinality(Taken(e)') = 0
      <4>1. Queued(e)' = {} /\ Taken(e)' = {}
        BY <2>1 DEF Queued, Taken
      <4> QED
        BY <4>1, FS_EmptySet
    <3>2. /\ IsFiniteSet(Taken(e))
          /\ inserted[e] + Cardinality(Queued(e)) + Cardinality(Taken(e))
                 <= posted[e] + unanswered[e]
      BY DEF IInv, Accounted
    <3>3. inserted[e] <= posted[e] + unanswered[e]
      <4>1. Cardinality(Queued(e)) \in Nat /\ Cardinality(Taken(e)) \in Nat
        BY <2>1, <3>2, PlaceFacts
      <4>2. inserted[e] \in Nat /\ posted[e] \in Nat /\ unanswered[e] \in Nat
        BY <2>1, CountFacts
      <4> QED
        BY <3>2, <4>1, <4>2
    <3>4. inserted'[e] + Cardinality(Queued(e)') + Cardinality(Taken(e)')
              <= posted'[e] + unanswered'[e]
      <4>1. inserted[e] \in Nat
        BY <2>1, CountFacts
      <4> QED
        BY <2>1, <3>1, <3>3, <4>1
    <3> QED
      BY <3>1, <3>4 DEF Accounted
  <2>5. ASSUME NEW e \in Events PROVE Announced(e)'
    <3>1. Announced(e) /\ TypeOK
      BY DEF IInv
    <3>2. /\ notices'[e] = 0 /\ fetched'[e] = 0 /\ jobs'[e] = 0
          /\ external'[e] = 0 /\ running'[e] = 0
          /\ UNCHANGED <<handled, inserted, caught>>
      BY <2>1, EmptyFacts
    <3>3. handled[e] <= inserted[e] + caught[e]
      BY <3>1, CountFacts DEF Announced
    <3>4. /\ handled[e] \in Nat /\ inserted[e] \in Nat /\ caught[e] \in Nat
      BY <3>1, CountFacts
    <3>5. QED
      BY <3>2, <3>3, <3>4 DEF Announced
  <2> QED
    BY <2>2, <2>3, <2>4, <2>5 DEF IInv
<1>3. QED
  BY <1>1, <1>2

(* Every step keeps the invariant.                                         *)
LEMMA NextIInv == IInv /\ [Next]_vars => IInv'
<1> SUFFICES ASSUME IInv, [Next]_vars PROVE IInv'
  OBVIOUS
<1>1. CASE \E w \in Workers : Take(w) \/ Insert(w) \/ InsertUnanswered(w)
  BY <1>1, TakeStep, StoreStep
<1>2. CASE \E e \in Events : Post(e)
  BY <1>2, PostStep
<1>3. CASE (\E e \in Events : Expire(e)) \/ Janitor
  BY <1>3, TableStep
<1>4. CASE \E e \in Events : \/ LoseNotice(e) \/ Fetch(e) \/ Enqueue(e) \/ Route(e)
                             \/ Begin(e) \/ Ignore(e) \/ Run(e) \/ Settle(e)
  BY <1>4, PipelineStep
<1>5. CASE \E S \in SUBSET Events : CatchUp(S)
  BY <1>5, CatchUpStep
<1>6. CASE Signal \/ Exit \/ Restart
  BY <1>6, ProcessStep
<1>7. CASE UNCHANGED vars
  <2>1. UNCHANGED <<phase, memory, row, pipeline, counts>>
    BY <1>7 DEF vars
  <2>2. AckedHeld' /\ \A e \in Events : Accounted(e)'
    BY <2>1, PostsKept DEF counts
  <2>3. TypeOK' /\ \A e \in Events : Announced(e)'
    BY <2>1 DEF IInv, TypeOK, Announced, memory, pipeline, counts
  <2> QED
    BY <2>2, <2>3 DEF IInv
<1>8. QED
  BY <1>1, <1>2, <1>3, <1>4, <1>5, <1>6, <1>7 DEF Next

(* So it holds in every reachable state.                                   *)
LEMMA AlwaysIInv == Spec => []IInv
  BY InitIInv, NextIInv, PTL DEF Spec

(***************************************************************************)
(* The theorems.                                                           *)
(***************************************************************************)
(* The queues and the pools of workers never hold more than they have room *)
(* for, for any number of events and workers.                              *)
THEOREM EventTypes == Spec => []TypeOK
<1>1. IInv => TypeOK
  BY DEF IInv
<1>2. QED
  BY <1>1, AlwaysIInv, PTL

(* No API worker gives up an acknowledged event while the process runs.    *)
THEOREM AcknowledgedIsHeld == Spec => []AckedHeld
<1>1. IInv => AckedHeld
  BY DEF IInv
<1>2. QED
  BY <1>1, AlwaysIInv, PTL

(* A post is inserted once, however many workers take from the queue and   *)
(* however often the process restarts, unless an answer was lost.          *)
THEOREM NoSpareInsert == Spec => []StoredOnce
<1>1. IInv => StoredOnce
  <2> SUFFICES ASSUME IInv, NEW e \in Events PROVE inserted[e] <= posted[e] + unanswered[e]
    BY DEF StoredOnce
  <2>1. /\ TypeOK /\ IsFiniteSet(Taken(e))
        /\ inserted[e] + Cardinality(Queued(e)) + Cardinality(Taken(e))
               <= posted[e] + unanswered[e]
    BY DEF IInv, Accounted
  <2>2. QED
    BY <2>1, PlaceFacts, CountFacts
<1>2. QED
  BY <1>1, AlwaysIInv, PTL

(* The pipeline makes no copies: an event is handled at most once for      *)
(* every time it was announced, across restarts.                           *)
THEOREM NoSpareHandling == Spec => []HandledAsAnnounced
<1>1. IInv => HandledAsAnnounced
  <2> SUFFICES ASSUME IInv, NEW e \in Events PROVE handled[e] <= inserted[e] + caught[e]
    BY DEF HandledAsAnnounced
  <2>1. Announced(e) /\ TypeOK
    BY DEF IInv
  <2>2. QED
    BY <2>1, CountFacts DEF Announced
<1>2. QED
  BY <1>1, AlwaysIInv, PTL
=============================================================================
