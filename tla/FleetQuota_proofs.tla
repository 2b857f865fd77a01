------------------------- MODULE FleetQuota_proofs --------------------------
(***************************************************************************)
(* Proofs about FleetQuota, for any number of members, connections and     *)
(* heartbeat rounds.                                                       *)
(***************************************************************************)
EXTENDS FleetQuota, SumFacts

(* The part of TypeOK about the coordinator and the table. *)
CoordTypes ==
    /\ round \in 0 .. MaxRounds /\ active \in Rounds \cup {None}
    /\ active # None => active = round
    /\ parent \in BOOLEAN /\ (parent => active \in asked)
    /\ responses \subseteq Members /\ (responses # {} => parent)
    /\ detached \subseteq (1 .. round) \X SUBSET Members
    /\ clock \in Nat
    /\ asked \subseteq 1 .. round /\ answers \subseteq Members \X asked
    /\ came \subseteq answers

ReportTypes ==
    \A r \in reports :
        /\ r.round \in asked /\ r.stamp \in 1 .. clock
        /\ DOMAIN r.shares \subseteq Members
        /\ \A m \in DOMAIN r.shares : r.shares[m] \in Nat

MemberTypes ==
    /\ conn \in [Members -> {"configured", "connected", "up"}]
    /\ dynamic \in [Members -> BOOLEAN] /\ valid \in [Members -> BOOLEAN]
    /\ quota \in [Members -> Nat] /\ last \in [Members -> 0 .. clock]
    /\ limit \in [Members -> Nat]
    /\ got \in [Members -> SUBSET (1 .. clock)]

LEMMA TypesSplit == TypeOK <=> CoordTypes /\ ReportTypes /\ MemberTypes
  BY DEF TypeOK, CoordTypes, ReportTypes, MemberTypes

(* Whoever has been captured, in the open round or in a copy of a closed   *)
(* one, has been heard in that round.                                      *)
Captured ==
    /\ active # None => \A m \in responses : <<m, active>> \in came
    /\ \A d \in detached : d[1] \in asked /\ \A m \in d[2] : <<m, d[1]>> \in came

(* A report is a division among some members, and its stamp is its own.    *)
Divided ==
    /\ \A r \in reports : \E S \in SUBSET Members : r.shares = Shares(S)
    /\ \A r, q \in reports : r.stamp = q.stamp => r = q

(* The newest report a member has heard is the last it applied, and a      *)
(* static member has none; a pool that is connected and not yet restored   *)
(* has the static limit if the member is static.                           *)
Applied(m) ==
    /\ \A t \in got[m] : t <= last[m]
    /\ valid[m] => dynamic[m]
    /\ valid[m] => \E r \in reports :
                      /\ r.stamp = last[m] /\ r.stamp \in got[m]
                      /\ m \in DOMAIN r.shares /\ quota[m] = r.shares[m]
    /\ last[m] # 0 => valid[m]
    /\ conn[m] = "connected" /\ ~dynamic[m] => limit[m] = MaxOpen
    /\ conn[m] = "up" => limit[m] = quota[m] /\ (dynamic[m] /\ ~valid[m] => quota[m] = 1)

(* The inductive invariant. *)
IInv ==
    /\ CoordTypes /\ ReportTypes /\ MemberTypes
    /\ Captured /\ Divided
    /\ CensusOfRound
    /\ \A m \in Members : Applied(m)

USE MembersAssumption, BoundsAssumption DEF MembersAssumption, BoundsAssumption

(* A valid division gives its members, and nobody else, a natural number   *)
(* of connections, one at least.                                           *)
LEMMA SharesFacts ==
    ASSUME NEW S \in SUBSET Members
    PROVE  /\ DOMAIN Shares(S) \subseteq S
           /\ \A m \in DOMAIN Shares(S) : Shares(S)[m] \in Nat \ {0}
<1>1. CASE S = {} \/ Usable < Cardinality(S)
  BY <1>1 DEF Shares
<1>2. CASE ~(S = {} \/ Usable < Cardinality(S))
  <2>1. IsFiniteSet(S) /\ Cardinality(S) \in Nat \ {0}
    BY <1>2, FS_Subset, FS_CardinalityType, FS_EmptySet
  <2>2. Usable \in Int /\ Usable >= Cardinality(S)
    BY <1>2, <2>1 DEF Usable, Reserved
  <2>3. \A u, c \in Nat : c > 0 /\ u >= c => u \div c \in Nat /\ u \div c >= 1
    <3> SUFFICES ASSUME NEW u \in Nat, NEW c \in Nat, c > 0, u >= c
                 PROVE  u \div c \in Nat /\ u \div c >= 1
      OBVIOUS
    <3>1. u \div c \in Int
      OBVIOUS
    <3>2. u < c * ((u \div c) + 1)
      OBVIOUS
    <3>3. QED
      BY <3>1, <3>2
  <2>4. Usable \div Cardinality(S) \in Nat /\ Usable \div Cardinality(S) >= 1
    BY <2>1, <2>2, <2>3
  <2>5. QED
    BY <1>2, <2>4 DEF Shares
<1>3. QED
  BY <1>1, <1>2

(* The remainder goes to the members of the lowest places, and there are   *)
(* as many of them as the remainder: the places are 0, 1, ... in order.    *)
LEMMA PlacesBelow ==
    ASSUME NEW S \in SUBSET Members, NEW k \in 0 .. Cardinality(S)
    PROVE  Cardinality({m \in S : Cardinality({n \in S : Rank[n] < Rank[m]}) < k}) = k
<1> DEFINE before(m) == {n \in S : Rank[n] < Rank[m]}
           place == [m \in S |-> Cardinality(before(m))]
           c == Cardinality(S)
           low == {m \in S : place[m] < k}
<1>1. IsFiniteSet(S) /\ c \in Nat
  BY FS_Subset, FS_CardinalityType
<1>2. ASSUME NEW m \in S
      PROVE  /\ IsFiniteSet(before(m)) /\ IsFiniteSet(S \ {m})
             /\ Cardinality(before(m)) \in Nat /\ Cardinality(before(m)) <= c - 1
  <2>1. before(m) \in SUBSET (S \ {m})
    OBVIOUS
  <2>2. IsFiniteSet(S \ {m}) /\ Cardinality(S \ {m}) = c - 1
    BY <1>1, FS_RemoveElement
  <2> HIDE DEF before
  <2>3. IsFiniteSet(before(m)) /\ Cardinality(before(m)) <= c - 1
    BY <2>1, <2>2, FS_Subset
  <2> QED
    BY <2>2, <2>3, FS_CardinalityType
<1>3. ASSUME NEW m \in S, NEW n \in S, Rank[m] < Rank[n] PROVE place[m] < place[n]
  <2>1. before(m) \in SUBSET (before(n) \ {m}) /\ m \in before(n)
    BY <1>3
  <2>2. /\ place[m] = Cardinality(before(m)) /\ place[n] = Cardinality(before(n))
        /\ Cardinality(before(m)) \in Nat /\ Cardinality(before(n)) \in Nat
        /\ IsFiniteSet(before(n))
    BY <1>2
  <2> HIDE DEF before, place
  <2>3. IsFiniteSet(before(n) \ {m})
        /\ Cardinality(before(n) \ {m}) = Cardinality(before(n)) - 1
    BY <2>1, <2>2, FS_RemoveElement
  <2>4. Cardinality(before(m)) <= Cardinality(before(n)) - 1
    BY <2>1, <2>3, FS_Subset
  <2> QED
    BY <2>2, <2>4
<1>4. place \in [S -> 0 .. c - 1]
  <2>1. ASSUME NEW m \in S PROVE Cardinality(before(m)) \in 0 .. c - 1
    <3>1. Cardinality(before(m)) \in Nat /\ Cardinality(before(m)) <= c - 1
      BY <1>2
    <3> HIDE DEF before, c
    <3> QED
      BY <1>1, <3>1
  <2> HIDE DEF before, c
  <2> QED
    BY <2>1
<1>5. place \in Injection(S, 0 .. c - 1)
  <2> SUFFICES ASSUME NEW m \in S, NEW n \in S, place[m] = place[n] PROVE m = n
    BY <1>4 DEF Injection, IsInjective
  <2> HIDE DEF place
  <2>1. ~(Rank[m] < Rank[n]) /\ ~(Rank[n] < Rank[m]) /\ place[m] \in Nat
    BY <1>3, <1>4
  <2> QED
    BY <2>1
<1>6. IsFiniteSet(0 .. c - 1) /\ Cardinality(0 .. c - 1) = c
  <2>1. \A n \in Nat : Cardinality(0 .. n - 1) = n /\ IsFiniteSet(0 .. n - 1)
    BY FS_Interval
  <2> HIDE DEF c
  <2> QED
    BY <1>1, <2>1
<1> HIDE DEF place, c
<1>7. place \in Surjection(S, 0 .. c - 1)
  BY <1>5, <1>6, FS_Injection DEF c
<1> DEFINE some == [m \in low |-> place[m]]
<1>8. some \in Bijection(low, 0 .. k - 1)
  <2>1. some \in [low -> 0 .. k - 1]
    BY <1>1, <1>4
  <2>2. some \in Injection(low, 0 .. k - 1)
    BY <1>5, <2>1 DEF Injection, IsInjective
  <2>3. \A i \in 0 .. k - 1 : \E m \in low : some[m] = i
    <3> SUFFICES ASSUME NEW i \in 0 .. k - 1 PROVE \E m \in low : some[m] = i
      OBVIOUS
    <3>1. i \in 0 .. c - 1
      BY <1>1 DEF c
    <3>2. PICK m \in S : place[m] = i
      BY <1>7, <3>1 DEF Surjection
    <3> QED
      BY <3>2
  <2>4. some \in Surjection(low, 0 .. k - 1)
    BY <2>1, <2>3 DEF Surjection
  <2> QED
    BY <2>2, <2>4 DEF Bijection
<1>9. IsFiniteSet(low)
  BY <1>1, FS_Subset
<1>10. Cardinality(0 .. k - 1) = Cardinality(low)
  <2>1. ExistsBijection(low, 0 .. k - 1)
    BY <1>8 DEF ExistsBijection
  <2> HIDE DEF low
  <2> QED
    BY <1>9, <2>1, FS_Bijection
<1>11. Cardinality(low) = k
  <2> HIDE DEF low
  <2> QED
    BY <1>1, <1>10, FS_Interval DEF c
<1> QED
  BY <1>11 DEF low, place

(* A valid division hands out every usable connection, evenly.             *)
LEMMA SharesTotal ==
    ASSUME NEW S \in SUBSET Members, DOMAIN Shares(S) # {}
    PROVE  /\ DOMAIN Shares(S) = S
           /\ Sum(Shares(S), S) = Usable
           /\ \A m, n \in S : Shares(S)[m] <= Shares(S)[n] + 1
<1> DEFINE c == Cardinality(S)
           q == Usable \div c
           rem == Usable % c
           K == {m \in S : Cardinality({n \in S : Rank[n] < Rank[m]}) < rem}
<1>1. ~(S = {} \/ Usable < c)
  BY DEF Shares
<1>2. IsFiniteSet(S) /\ c \in Nat \ {0}
  BY <1>1, FS_Subset, FS_CardinalityType, FS_EmptySet
<1>3. Usable \in Nat
  BY <1>1, <1>2 DEF Usable, Reserved
<1>4. Shares(S) = [m \in S |-> q + (IF m \in K THEN 1 ELSE 0)]
  BY <1>1, Zenon DEF Shares
<1> HIDE DEF c
<1>5. q \in Nat /\ rem \in 0 .. c - 1 /\ q * c + rem = Usable
  BY <1>2, <1>3
<1>6. Cardinality(K) = rem
  <2>1. rem \in 0 .. Cardinality(S)
    BY <1>2, <1>5 DEF c
  <2> HIDE DEF rem
  <2> QED
    BY <2>1, PlacesBelow
<1>7. K \in SUBSET S
  OBVIOUS
<1> HIDE DEF q, rem, K
<1>8. \A m \in S : Shares(S)[m] = IF m \in K THEN q + 1 ELSE q
  BY <1>4, <1>5
<1>9. Sum(Shares(S), S) = q * Cardinality(S) + Cardinality(K)
  BY <1>2, <1>5, <1>7, <1>8, SumTwoValues
<1>10. DOMAIN Shares(S) = S
  BY <1>4
<1> QED
  BY <1>5, <1>6, <1>8, <1>9, <1>10 DEF c

(***************************************************************************)
(* What a step leaves alone.                                               *)
(***************************************************************************)
(* More reports and a later clock take nothing from what members hold.     *)
LEMMA MembersKept ==
    ASSUME IInv, UNCHANGED memberVars, reports \subseteq reports',
           clock' \in Nat, clock <= clock'
    PROVE  MemberTypes' /\ \A m \in Members : Applied(m)'
<1>1. MemberTypes'
  BY DEF IInv, MemberTypes, CoordTypes, memberVars
<1>2. ASSUME NEW m \in Members PROVE Applied(m)'
  BY DEF IInv, Applied, memberVars
<1>3. QED
  BY <1>1, <1>2

LEMMA ReportsKept ==
    ASSUME IInv, reports' = reports PROVE Divided'
  BY DEF IInv, Divided

(* A member's step on its own state is none of the coordinator's.          *)
LEMMA CoordKept ==
    ASSUME IInv, UNCHANGED <<coordVars, tableVars, came>>
    PROVE  CoordTypes' /\ ReportTypes' /\ Captured' /\ Divided' /\ CensusOfRound'
<1>1. Divided'
  BY ReportsKept DEF tableVars
<1> QED
  BY <1>1 DEF IInv, CoordTypes, ReportTypes, Captured, CensusOfRound, coordVars, tableVars

(* A step of one member does nothing to what the others hold.              *)
LEMMA OthersKept ==
    ASSUME IInv, UNCHANGED <<coordVars, tableVars, came>>, MemberTypes',
           NEW m \in Members, Applied(m)',
           \A n \in Members \ {m} :
               /\ conn'[n] = conn[n] /\ dynamic'[n] = dynamic[n]
               /\ valid'[n] = valid[n] /\ quota'[n] = quota[n]
               /\ last'[n] = last[n] /\ limit'[n] = limit[n] /\ got'[n] = got[n]
    PROVE  IInv'
<1>1. ASSUME NEW n \in Members PROVE Applied(n)'
  <2>1. CASE n = m
    BY <2>1
  <2>2. CASE n # m
    BY <2>2 DEF IInv, Applied, tableVars
  <2>3. QED
    BY <2>1, <2>2
<1>2. QED
  BY <1>1, CoordKept DEF IInv

LEMMA InitIInv == Init => IInv
<1> SUFFICES ASSUME Init PROVE IInv
  OBVIOUS
<1>1. CoordTypes /\ ReportTypes
  <2>1. round = 0 /\ 0 \in 0 .. MaxRounds
    BY DEF Init
  <2>2. QED
    BY <2>1 DEF Init, CoordTypes, ReportTypes
<1>2. MemberTypes
  BY DEF Init, MemberTypes
<1>3. Captured /\ Divided /\ CensusOfRound
  BY DEF Init, Captured, Divided, CensusOfRound
<1>4. ASSUME NEW m \in Members PROVE Applied(m)
  BY DEF Init, Applied
<1>5. QED
  BY <1>1, <1>2, <1>3, <1>4 DEF IInv

(***************************************************************************)
(* The steps of the coordinator.                                           *)
(***************************************************************************)
LEMMA CoordinatorStep ==
    IInv /\ (StartRound \/ Stored \/ Created \/ CreateFails \/ Finalize
             \/ CoordinatorRestart) => IInv'
<1> SUFFICES ASSUME IInv,
                    StartRound \/ Stored \/ Created \/ CreateFails \/ Finalize
                    \/ CoordinatorRestart
             PROVE  IInv'
  OBVIOUS
<1> USE DEF IInv, CoordTypes, ReportTypes, Captured, CensusOfRound,
            Rounds, tableVars, coordVars
<1>1. /\ UNCHANGED memberVars /\ reports' = reports /\ clock' = clock
      /\ came' = came /\ asked \subseteq asked' /\ answers' = answers
  BY DEF StartRound, Stored, Created, CreateFails, Finalize, CoordinatorRestart
<1>2. MemberTypes' /\ \A m \in Members : Applied(m)'
  BY <1>1, MembersKept
<1>3. ReportTypes' /\ Divided' /\ CensusOfRound'
  BY <1>1, ReportsKept
<1>4. CoordTypes' /\ Captured'
  <2>1. CASE StartRound
    <3>1. /\ round' \in 1 .. MaxRounds /\ round' = round + 1 /\ round \in Nat
          /\ active' = round' /\ parent' = FALSE /\ responses' = {}
          /\ UNCHANGED <<detached, clock, asked, answers, came>>
      BY <2>1 DEF StartRound
    <3>2. 1 .. round \subseteq 1 .. round'
      BY <3>1
    <3>3. detached \subseteq (1 .. round') \X SUBSET Members /\ asked \subseteq 1 .. round'
      BY <3>2
    <3>4. /\ round' \in 0 .. MaxRounds /\ active' \in Rounds \cup {None}
          /\ active' # None => active' = round'
          /\ parent' \in BOOLEAN /\ (parent' => active' \in asked')
          /\ responses' \subseteq Members /\ (responses' # {} => parent')
      <4> HIDE DEF IInv, CoordTypes, ReportTypes, Captured, CensusOfRound
      <4>1. round' \in 0 .. MaxRounds /\ round' \in Rounds
        BY <3>1
      <4>2. parent' \in BOOLEAN /\ (parent' => active' \in asked')
        BY <3>1, Zenon
      <4>3. QED
        BY <3>1, <4>1, <4>2
    <3>5. detached' \subseteq (1 .. round') \X SUBSET Members /\ asked' \subseteq 1 .. round'
      BY <3>1, <3>3
    <3>6. clock' \in Nat /\ answers' \subseteq Members \X asked' /\ came' \subseteq answers'
      BY <3>1
    <3>7. CoordTypes'
      BY <3>4, <3>5, <3>6
    <3>8. Captured'
      BY <3>1
    <3>9. QED
      BY <3>7, <3>8
  <2>2. CASE Stored
    BY <2>2 DEF Stored
  <2>3. CASE Created
    BY <2>3 DEF Created
  <2>4. CASE CreateFails
    BY <2>4 DEF CreateFails
  <2>5. CASE Finalize
    <3>1. /\ active \in 1 .. round /\ active \in asked
          /\ detached' = detached \cup {<<active, responses>>}
          /\ active' = None /\ parent' = FALSE /\ responses' = {}
          /\ UNCHANGED <<round, clock, asked, answers, came>>
      BY <2>5 DEF Finalize
    <3>2. <<active, responses>> \in (1 .. round) \X SUBSET Members
      BY <3>1
    <3>3. detached' \subseteq (1 .. round') \X SUBSET Members
      BY <3>1, <3>2
    <3>4. CoordTypes'
      BY <3>1, <3>3
    <3>5. \A m \in responses : <<m, active>> \in came
      BY <2>5 DEF Finalize
    <3>6. Captured'
      BY <3>1, <3>5
    <3>7. QED
      BY <3>4, <3>6
  <2>6. CASE CoordinatorRestart
    BY <2>6 DEF CoordinatorRestart
  <2>7. QED
    BY <2>1, <2>2, <2>3, <2>4, <2>5, <2>6
<1>5. QED
  BY <1>2, <1>3, <1>4

LEMMA PublishStep ==
    ASSUME IInv, NEW d \in detached, Publish(d) PROVE IInv'
<1> DEFINE new == [round |-> d[1], stamp |-> clock + 1, shares |-> Shares(d[2])]
<1>1. d[2] \in SUBSET Members /\ d[1] \in asked /\ clock \in Nat
  BY DEF IInv, CoordTypes, Captured
<1>2. DOMAIN Shares(d[2]) \subseteq d[2]
  BY <1>1, SharesFacts
<1>3. \A m \in DOMAIN Shares(d[2]) : Shares(d[2])[m] \in Nat
  BY <1>1, SharesFacts
<1>4. \A m \in d[2] : <<m, d[1]>> \in came
  BY DEF IInv, Captured
<1>5. reports \subseteq reports' /\ reports' \subseteq reports \cup {new}
  BY DEF Publish
<1>6. MemberTypes' /\ \A m \in Members : Applied(m)'
  BY <1>1, <1>5, MembersKept DEF Publish
<1>7. CoordTypes'
  BY DEF Publish, IInv, CoordTypes
<1>8. ReportTypes'
  <2> SUFFICES ASSUME NEW r \in reports'
               PROVE  /\ r.round \in asked /\ r.stamp \in 1 .. clock + 1
                      /\ DOMAIN r.shares \subseteq Members
                      /\ \A m \in DOMAIN r.shares : r.shares[m] \in Nat
    BY DEF ReportTypes, Publish
  <2>1. CASE r \in reports
    BY <2>1, <1>1 DEF IInv, ReportTypes
  <2>2. CASE r = new
    BY <2>2, <1>1, <1>2, <1>3
  <2>3. QED
    BY <2>1, <2>2, <1>5
<1>9. Captured'
  BY DEF Publish, IInv, Captured
<1>10. CensusOfRound'
  <2> SUFFICES ASSUME NEW r \in reports', NEW m \in DOMAIN r.shares
               PROVE  <<m, r.round>> \in came
    BY DEF CensusOfRound, Publish
  <2>1. CASE r \in reports
    BY <2>1 DEF IInv, CensusOfRound
  <2>2. CASE r = new
    BY <2>2, <1>2, <1>4
  <2>3. QED
    BY <2>1, <2>2, <1>5
<1>11. Divided'
  <2>1. \A r \in reports' : \E S \in SUBSET Members : r.shares = Shares(S)
    BY <1>1, <1>5 DEF IInv, Divided
  <2>2. \A r \in reports : r.stamp # new.stamp
    BY <1>1 DEF IInv, ReportTypes
  <2> HIDE DEF new
  <2>3. \A r, q \in reports' : r.stamp = q.stamp => r = q
    BY <1>5, <2>2 DEF IInv, Divided
  <2> QED
    BY <2>1, <2>3 DEF Divided
<1>12. QED
  BY <1>6, <1>7, <1>8, <1>9, <1>10, <1>11 DEF IInv

(* An answer captured is an answer to the open round.                      *)
LEMMA AnswerStep ==
    ASSUME IInv, NEW m \in Members, NEW r \in Rounds, Answer(m, r) \/ Respond(m, r)
    PROVE  IInv'
<1> USE DEF coordVars, tableVars
<1>1. /\ UNCHANGED memberVars /\ reports' = reports /\ clock' = clock
      /\ asked' = asked /\ came \subseteq came' /\ answers \subseteq answers'
  BY DEF Answer, Respond
<1>2. MemberTypes' /\ \A n \in Members : Applied(n)'
  BY <1>1, MembersKept DEF IInv, CoordTypes
<1>3. ReportTypes' /\ Divided' /\ CensusOfRound'
  BY <1>1, ReportsKept DEF IInv, ReportTypes, CensusOfRound
<1>4. CASE Answer(m, r)
  <2>1. CoordTypes'
    BY <1>4 DEF Answer, IInv, CoordTypes
  <2>2. Captured'
    BY <1>4 DEF Answer, IInv, Captured
  <2>3. QED
    BY <1>2, <1>3, <2>1, <2>2 DEF IInv
<1>5. CASE Respond(m, r)
  <2>1. CoordTypes' /\ Captured'
    BY <1>5 DEF Respond, IInv, CoordTypes, Captured
  <2>2. QED
    BY <1>2, <1>3, <2>1 DEF IInv
<1>6. QED
  BY <1>4, <1>5

(***************************************************************************)
(* The steps of a member.                                                  *)
(***************************************************************************)
LEMMA HandleReportStep ==
    ASSUME IInv, NEW m \in Members, NEW r \in reports, HandleReport(m, r)
    PROVE  IInv'
<1>1. /\ r.stamp \in 1 .. clock /\ r.shares[m] \in Nat /\ clock \in Nat
      /\ MemberTypes /\ Applied(m)
  BY DEF IInv, ReportTypes, CoordTypes, HandleReport
<1>2. MemberTypes'
  <2>1. CASE r.stamp > last[m]
    <3>1. /\ limit' = [limit EXCEPT ![m] = r.shares[m]]
          /\ quota' = [quota EXCEPT ![m] = r.shares[m]]
          /\ last' = [last EXCEPT ![m] = r.stamp]
          /\ valid' = [valid EXCEPT ![m] = TRUE]
          /\ got' = [got EXCEPT ![m] = @ \cup {r.stamp}]
          /\ UNCHANGED <<conn, dynamic, clock>>
      BY <2>1 DEF HandleReport, coordVars
    <3>2. quota' \in [Members -> Nat] /\ limit' \in [Members -> Nat]
      BY <1>1, <3>1 DEF MemberTypes
    <3>3. last' \in [Members -> 0 .. clock] /\ valid' \in [Members -> BOOLEAN]
      BY <1>1, <3>1 DEF MemberTypes
    <3>4. got' \in [Members -> SUBSET (1 .. clock)]
      BY <1>1, <3>1 DEF MemberTypes
    <3>5. QED
      BY <1>1, <3>1, <3>2, <3>3, <3>4 DEF MemberTypes
  <2>2. CASE ~(r.stamp > last[m])
    BY <1>1, <2>2 DEF HandleReport, MemberTypes, coordVars
  <2>3. QED
    BY <2>1, <2>2
<1>3. Applied(m)'
  <2>1. CASE r.stamp > last[m]
    <3>1. /\ conn' = conn /\ dynamic' = dynamic /\ dynamic[m] /\ m \in DOMAIN r.shares
          /\ got'[m] = got[m] \cup {r.stamp} /\ last'[m] = r.stamp /\ valid'[m] = TRUE
          /\ quota'[m] = r.shares[m] /\ limit'[m] = r.shares[m] /\ reports' = reports
      BY <1>1, <2>1 DEF HandleReport, MemberTypes, tableVars
    <3>2. \A t \in got'[m] : t <= last'[m]
      BY <1>1, <2>1, <3>1 DEF Applied, MemberTypes
    <3>3. \E s \in reports' : /\ s.stamp = last'[m] /\ s.stamp \in got'[m]
                              /\ m \in DOMAIN s.shares /\ quota'[m] = s.shares[m]
      BY <3>1
    <3>4. QED
      BY <3>1, <3>2, <3>3 DEF Applied
  <2>2. CASE ~(r.stamp > last[m])
    <3>1. /\ UNCHANGED <<conn, dynamic, quota, last, valid, limit, reports>>
          /\ got'[m] = got[m] \cup {r.stamp}
      BY <1>1, <2>2 DEF HandleReport, MemberTypes, tableVars
    <3>2. r.stamp <= last[m]
      BY <1>1, <2>2 DEF MemberTypes
    <3>3. QED
      BY <1>1, <3>1, <3>2 DEF Applied
  <2>3. QED
    BY <2>1, <2>2
<1>4. QED
  BY <1>2, <1>3, OthersKept, <1>1 DEF HandleReport, MemberTypes

LEMMA LifecycleStep ==
    ASSUME IInv, NEW m \in Members,
           Configure(m) \/ Connect(m) \/ Restore(m) \/ Restart(m)
    PROVE  IInv'
<1>1. MemberTypes /\ Applied(m) /\ clock \in Nat
  BY DEF IInv, CoordTypes
<1>2. CASE Configure(m)
  <2>1. MemberTypes'
    <3>1. PICK d \in BOOLEAN :
            /\ dynamic' = [dynamic EXCEPT ![m] = d]
            /\ quota' = IF d THEN quota ELSE [quota EXCEPT ![m] = MaxOpen]
      BY <1>2 DEF Configure
    <3>2. dynamic' \in [Members -> BOOLEAN] /\ quota' \in [Members -> Nat]
      BY <1>1, <3>1 DEF MemberTypes
    <3>3. \/ UNCHANGED <<valid, last, got>>
          \/ /\ valid' = [valid EXCEPT ![m] = FALSE] /\ last' = [last EXCEPT ![m] = 0]
             /\ got' = [got EXCEPT ![m] = {}]
      BY <1>2 DEF Configure
    <3>4. /\ valid' \in [Members -> BOOLEAN] /\ last' \in [Members -> 0 .. clock]
          /\ got' \in [Members -> SUBSET (1 .. clock)]
      <4>1. CASE UNCHANGED <<valid, last, got>>
        BY <1>1, <4>1 DEF MemberTypes
      <4>2. CASE /\ valid' = [valid EXCEPT ![m] = FALSE] /\ last' = [last EXCEPT ![m] = 0]
                 /\ got' = [got EXCEPT ![m] = {}]
        <5>1. 0 \in 0 .. clock
          BY <1>1
        <5>2. QED
          BY <1>1, <4>2, <5>1 DEF MemberTypes
      <4>3. QED
        BY <3>3, <4>1, <4>2
    <3>5. /\ conn' \in [Members -> {"configured", "connected", "up"}]
          /\ limit' \in [Members -> Nat] /\ clock' = clock
      BY <1>1, <1>2 DEF Configure, MemberTypes, coordVars
    <3>6. QED
      BY <3>2, <3>4, <3>5 DEF MemberTypes
  <2>2. Applied(m)'
    BY <1>1, <1>2 DEF Configure, MemberTypes, Applied, tableVars
  <2>3. QED
    BY <1>1, <1>2, <2>1, <2>2, OthersKept DEF Configure, MemberTypes
<1>3. CASE Connect(m)
  <2>1. MemberTypes'
    BY <1>1, <1>3 DEF Connect, MemberTypes, coordVars
  <2>2. Applied(m)'
    BY <1>1, <1>3 DEF Connect, MemberTypes, Applied, tableVars
  <2>3. QED
    BY <1>1, <1>3, <2>1, <2>2, OthersKept DEF Connect, MemberTypes
<1>4. CASE Restore(m)
  <2>1. MemberTypes'
    BY <1>1, <1>4 DEF Restore, MemberTypes, coordVars
  <2>2. Applied(m)'
    BY <1>1, <1>4 DEF Restore, MemberTypes, Applied, tableVars
  <2>3. QED
    BY <1>1, <1>4, <2>1, <2>2, OthersKept DEF Restore, MemberTypes
<1>5. CASE Restart(m)
  <2>1. MemberTypes'
    BY <1>1, <1>5 DEF Restart, MemberTypes, coordVars
  <2>2. Applied(m)'
    BY <1>1, <1>5 DEF Restart, MemberTypes, Applied, tableVars
  <2>3. QED
    BY <1>1, <1>5, <2>1, <2>2, OthersKept DEF Restart, MemberTypes
<1>6. QED
  BY <1>2, <1>3, <1>4, <1>5

LEMMA NextIInv == IInv /\ [Next]_vars => IInv'
<1> SUFFICES ASSUME IInv, [Next]_vars PROVE IInv'
  OBVIOUS
<1>1. CASE StartRound \/ Stored \/ Created \/ CreateFails \/ Finalize \/ CoordinatorRestart
  BY <1>1, CoordinatorStep
<1>2. CASE \E d \in detached : Publish(d)
  BY <1>2, PublishStep
<1>3. CASE \E m \in Members : \E r \in Rounds : Respond(m, r) \/ Answer(m, r)
  BY <1>3, AnswerStep
<1>4. CASE \E m \in Members : \E r \in reports : HandleReport(m, r)
  BY <1>4, HandleReportStep
<1>5. CASE \E m \in Members : Configure(m) \/ Connect(m) \/ Restore(m) \/ Restart(m)
  BY <1>5, LifecycleStep
<1>6. CASE UNCHANGED vars
  <2>1. UNCHANGED <<coordVars, tableVars, memberVars, came>> /\ clock \in Nat
    BY <1>6 DEF vars, IInv, CoordTypes
  <2>2. reports \subseteq reports' /\ clock' \in Nat /\ clock <= clock'
    BY <2>1 DEF coordVars, tableVars
  <2>3. MemberTypes' /\ \A m \in Members : Applied(m)'
    BY <2>1, <2>2, MembersKept
  <2>4. QED
    BY <2>1, <2>3, CoordKept DEF IInv
<1>7. QED
  BY <1>1, <1>2, <1>3, <1>4, <1>5, <1>6 DEF Next

LEMMA AlwaysIInv == Spec => []IInv
  BY InitIInv, NextIInv, PTL DEF Spec

(***************************************************************************)
(* The theorems.                                                           *)
(***************************************************************************)
(* Types: quotas, limits and stamps keep their ranges, and only rounds     *)
(* that were asked are answered and reported.                              *)
THEOREM QuotaTypes == Spec => []TypeOK
<1>1. IInv => TypeOK
  BY TypesSplit DEF IInv
<1>2. QED
  BY <1>1, AlwaysIInv, PTL

(* A report names only members whose answer was heard in its own round.    *)
THEOREM Census == Spec => []CensusOfRound
<1>1. IInv => CensusOfRound
  BY DEF IInv
<1>2. QED
  BY <1>1, AlwaysIInv, PTL

(* Reports heard late, twice or out of order never displace a newer one.   *)
THEOREM Newest == Spec => []NewestReportHeld
<1>1. IInv => NewestReportHeld
  BY DEF IInv, Applied, NewestReportHeld
<1>2. QED
  BY <1>1, AlwaysIInv, PTL

(* A pool that is in use has its member's quota, and one connection while  *)
(* a dynamic member has not heard a report.                                *)
THEOREM LimitFollows == Spec => []LimitIsQuota
<1>1. IInv => LimitIsQuota
  BY DEF IInv, Applied, LimitIsQuota
<1>2. QED
  BY <1>1, AlwaysIInv, PTL

(* AllocateFleetDBConnections: when there is a connection for every member *)
(* that answered, each of them, and nobody else, gets a share, the shares  *)
(* add up to the usable connections and differ by one at most; otherwise   *)
(* nobody gets one.                                                        *)
THEOREM EvenDivision ==
    \A S \in SUBSET Members :
        IF S # {} /\ Cardinality(S) <= Usable
        THEN /\ DOMAIN Shares(S) = S
             /\ MapThenSumSet(LAMBDA m : Shares(S)[m], S) = Usable
             /\ \A m, n \in S : Shares(S)[m] <= Shares(S)[n] + 1
        ELSE DOMAIN Shares(S) = {}
<1> SUFFICES ASSUME NEW S \in SUBSET Members
             PROVE  IF S # {} /\ Cardinality(S) <= Usable
                    THEN /\ DOMAIN Shares(S) = S
                         /\ Sum(Shares(S), S) = Usable
                         /\ \A m, n \in S : Shares(S)[m] <= Shares(S)[n] + 1
                    ELSE DOMAIN Shares(S) = {}
  BY DEF Sum
<1>1. Cardinality(S) \in Nat /\ Usable \in Int
  BY FS_Subset, FS_CardinalityType DEF Usable, Reserved
<1>2. CASE S # {} /\ Cardinality(S) <= Usable
  <2>1. ~(S = {} \/ Usable < Cardinality(S))
    BY <1>1, <1>2
  <2>2. DOMAIN Shares(S) = S
    BY <2>1 DEF Shares
  <2> QED
    BY <1>2, <2>2, SharesTotal
<1>3. CASE ~(S # {} /\ Cardinality(S) <= Usable)
  <2>1. S = {} \/ Usable < Cardinality(S)
    BY <1>1, <1>3
  <2> QED
    BY <1>3, <2>1 DEF Shares
<1> QED
  BY <1>2, <1>3

(* Members that have applied the same report keep their pools together     *)
(* within the budget, and use all of it when all have applied it, whatever *)
(* reloads, reconnects and late reports came in between.                   *)
THEOREM Budget == Spec => []BudgetKept
<1>1. ASSUME IInv, NEW r \in reports
      PROVE  LET S == {m \in Members : Holds(m, r)} IN
             /\ Limits(S) <= Usable \/ S = {}
             /\ S # {} /\ S = DOMAIN r.shares => Limits(S) = Usable
             /\ \A m, n \in S : limit[m] <= limit[n] + 1
  <2> DEFINE S == {m \in Members : Holds(m, r)}
             D == DOMAIN r.shares
  <2>1. ASSUME NEW m \in S PROVE m \in D /\ limit[m] = r.shares[m]
    <3>1. /\ m \in Members /\ conn[m] = "up" /\ last[m] = r.stamp /\ Applied(m)
          /\ r.stamp # 0
      BY <1>1 DEF IInv, Holds, ReportTypes, CoordTypes
    <3>2. PICK p \in reports : p.stamp = last[m] /\ m \in DOMAIN p.shares
                               /\ quota[m] = p.shares[m]
      BY <3>1 DEF Applied
    <3>3. p = r
      BY <1>1, <3>1, <3>2 DEF IInv, Divided
    <3> QED
      BY <3>1, <3>2, <3>3 DEF Applied
  <2>2. CASE S = {}
    BY <2>2
  <2>3. CASE S # {}
    <3>1. PICK X \in SUBSET Members : r.shares = Shares(X)
      BY <1>1 DEF IInv, Divided
    <3> HIDE DEF S, D
    <3>2. D # {} /\ S \in SUBSET D
      BY <2>1, <2>3
    <3>3. D = X /\ Sum(r.shares, D) = Usable
          /\ \A m, n \in D : r.shares[m] <= r.shares[n] + 1
      BY <3>1, <3>2, SharesTotal DEF D
    <3>4. IsFiniteSet(D) /\ IsFiniteSet(S)
      BY <3>2, <3>3, FS_Subset
    <3>5. \A m \in D : r.shares[m] \in Nat
      BY <1>1 DEF IInv, ReportTypes, D
    <3>6. Sum(r.shares, S) <= Usable
      BY <3>2, <3>3, <3>4, <3>5, SumPart
    <3>7. Limits(S) = Sum(limit, S)
      BY DEF Limits, Sum
    <3>8. Sum(limit, S) = Sum(r.shares, S)
      BY <2>1, <3>4, SumSame
    <3>9. \A m, n \in S : limit[m] <= limit[n] + 1
      BY <2>1, <3>2, <3>3
    <3>10. /\ Limits(S) <= Usable \/ S = {}
           /\ S # {} /\ S = D => Limits(S) = Usable
           /\ \A m, n \in S : limit[m] <= limit[n] + 1
      BY <3>3, <3>6, <3>7, <3>8, <3>9
    <3> QED
      BY <3>10 DEF S, D
  <2> QED
    BY <2>2, <2>3
<1>2. IInv => BudgetKept
  BY <1>1, Zenon DEF BudgetKept
<1> QED
  BY <1>2, AlwaysIInv, PTL
=============================================================================
