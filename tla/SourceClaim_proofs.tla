------------------------- MODULE SourceClaim_proofs -------------------------
(***************************************************************************)
(* Proofs about SourceClaim, for any number of sources, engines and        *)
(* fetched sources and any intervals.                                      *)
(***************************************************************************)
EXTENDS SourceClaim, TLAPS

(* A job that is not free has a source and an engine. *)
JobsFilled == \A j \in Jobs : st[j] # "free" => src[j] \in Sources /\ eng[j] \in Engines

(* Until something disturbs a claim no row in work looks abandoned. *)
RowsFresh == ~disturbed => \A j \in Jobs : Live(j) => age[src[j]] <= Expiry

(* The inductive invariant. *)
IInv ==
    /\ TypeOK
    /\ JobsFilled
    /\ ClaimsDisjoint
    /\ RowsFresh
    /\ FetchedOnce

USE RankAssumption, NoneAssumption, TimesAssumption, LimitAssumption, SwitchAssumption
DEF RankAssumption, NoneAssumption, TimesAssumption, LimitAssumption, SwitchAssumption

(* The age after which a processing row counts as abandoned is the shorter *)
(* of the two intervals that apply to it.                                  *)
LEMMA ExpiryFacts ==
    /\ Expiry \in Nat /\ Expiry <= Timeout
    /\ IfOk # Off => Expiry <= IfOk
  BY DEF Expiry, Off

(* All rows new, no job. *)
LEMMA InitIInv == Init => IInv
<1> SUFFICES ASSUME Init PROVE IInv
  OBVIOUS
<1>1. 0 \in 0 .. MaxAge /\ 0 \in 0 .. Timeout
  OBVIOUS
<1>2. TypeOK
  BY <1>1 DEF Init, TypeOK, Statuses, Phases
<1>3. \A j \in Jobs : st[j] = "free" /\ ~Live(j)
  BY DEF Init, Live
<1>4. QED
  BY <1>2, <1>3 DEF IInv, JobsFilled, ClaimsDisjoint, RowsFresh, FetchedOnce

(* A row in undisturbed work is not eligible. *)
LEMMA InWorkNotEligible ==
    ASSUME IInv, ~disturbed, NEW j \in Jobs, Live(j)
    PROVE  ~Eligible(src[j])
<1>1. src[j] \in Sources /\ age[src[j]] \in Int /\ age[src[j]] <= Expiry
  BY DEF IInv, TypeOK, JobsFilled, RowsFresh, Live
<1>2. status[src[j]] = "processing"
  BY DEF IInv, FetchedOnce
<1>3. QED
  BY <1>1, <1>2, ExpiryFacts DEF Eligible, Off

(* Steps that end jobs and leave the rows alone (ClaimAbort, FinishLost,   *)
(* DropQueued, Crash).                                                     *)
LEMMA FreeIInv ==
    ASSUME IInv, NEW J \in SUBSET Jobs, Free(J),
           UNCHANGED <<status, engine, age, edit, disturbed>>
    PROVE  IInv'
<1>1. /\ st' \in [Jobs -> Phases]
      /\ src' \in [Jobs -> Sources \cup {None}]
      /\ eng' \in [Jobs -> Engines \cup {None}]
      /\ run' \in [Jobs -> 0 .. Timeout]
  BY DEF Free, IInv, TypeOK, Phases
<1>2. \A j \in Jobs : st'[j] # "free" =>
         st'[j] = st[j] /\ src'[j] = src[j] /\ eng'[j] = eng[j]
  BY DEF Free, IInv, TypeOK
<1>3. TypeOK'
  BY <1>1 DEF IInv, TypeOK
<1>4. JobsFilled' /\ ClaimsDisjoint'
  BY <1>2 DEF IInv, JobsFilled, ClaimsDisjoint
<1>5. \A j \in Jobs : Live(j)' => Live(j) /\ src'[j] = src[j] /\ eng'[j] = eng[j]
  BY <1>2 DEF Live
<1>6. \A s \in Sources : Locked(s)' => Locked(s)
  BY <1>2 DEF Locked
<1>7. RowsFresh' /\ FetchedOnce'
  BY <1>5, <1>6 DEF IInv, JobsFilled, RowsFresh, FetchedOnce, Live
<1>8. QED
  BY <1>3, <1>4, <1>7 DEF IInv

(* Steps that write a row which no live job is on, or write the status it  *)
(* has; jobs do not move (Schedule, Import, EditWrite, SetStatus).               *)
LEMMA WriteIInv ==
    ASSUME IInv, NEW s \in Sources, NEW new \in Statuses, Write(s, new), ~Locked(s),
           edit' \in [Sources -> Statuses \cup {None}],
           disturbed' \in BOOLEAN, disturbed => disturbed',
           ~disturbed' => (new = status[s] \/ ~LiveOn(s)),
           UNCHANGED <<engine, st, src, eng, run>>
    PROVE  IInv'
<1>1. /\ status' \in [Sources -> Statuses] /\ age' \in [Sources -> 0 .. MaxAge]
      /\ \A t \in Sources : t # s => status'[t] = status[t] /\ age'[t] = age[t]
      /\ status'[s] = new /\ age'[s] = 0
  <2>1. 0 \in 0 .. MaxAge
    OBVIOUS
  <2>2. QED
    BY <2>1 DEF Write, IInv, TypeOK
<1>2. TypeOK'
  BY <1>1 DEF IInv, TypeOK
<1>3. JobsFilled' /\ ClaimsDisjoint'
  BY DEF IInv, JobsFilled, ClaimsDisjoint
<1>4. RowsFresh'
  <2> SUFFICES ASSUME ~disturbed', NEW j \in Jobs, Live(j)
               PROVE  age'[src[j]] <= Expiry
    BY DEF RowsFresh, Live, Expiry
  <2>1. src[j] \in Sources /\ age[src[j]] <= Expiry
    BY DEF IInv, JobsFilled, RowsFresh, Live
  <2>2. QED
    BY <2>1, <1>1, ExpiryFacts
<1>5. FetchedOnce'
  <2> SUFFICES ASSUME ~disturbed', NEW j \in Jobs, Live(j)
               PROVE  /\ status'[src[j]] = "processing" /\ engine[src[j]] = eng[j]
                      /\ ~Locked(src[j])
                      /\ \A k \in Jobs : Live(k) /\ src[k] = src[j] => k = j
    BY DEF FetchedOnce, Live, Locked
  <2>1. /\ status[src[j]] = "processing" /\ engine[src[j]] = eng[j]
        /\ ~Locked(src[j])
        /\ \A k \in Jobs : Live(k) /\ src[k] = src[j] => k = j
    BY DEF IInv, FetchedOnce
  <2>2. src[j] \in Sources /\ LiveOn(src[j])
    BY DEF IInv, JobsFilled, Live, LiveOn
  <2>3. QED
    BY <2>1, <2>2, <1>1
<1>6. QED
  BY <1>2, <1>3, <1>4, <1>5 DEF IInv

(* A claim transaction locks eligible rows: none is in undisturbed work. *)
LEMMA ClaimBeginIInv ==
    ASSUME IInv, NEW e \in Engines, ClaimBegin(e)
    PROVE  IInv'
<1> DEFINE S == TopRows(Selectable)
<1>1. PICK f \in [S -> {j \in Jobs : st[j] = "free"}] :
         /\ \A s, t \in S : f[s] = f[t] => s = t
         /\ st' = [j \in Jobs |-> IF \E s \in S : f[s] = j THEN "claiming" ELSE st[j]]
         /\ src' = [j \in Jobs |->
                      IF \E s \in S : f[s] = j THEN CHOOSE s \in S : f[s] = j ELSE src[j]]
         /\ eng' = [j \in Jobs |-> IF \E s \in S : f[s] = j THEN e ELSE eng[j]]
  BY DEF ClaimBegin
<1>2. UNCHANGED <<status, engine, age, run, edit, disturbed>>
  BY DEF ClaimBegin
<1>3. \A s \in S : s \in Sources /\ Eligible(s) /\ ~Locked(s)
  BY DEF TopRows, Selectable
<1> HIDE DEF S
<1> DEFINE Taken == {j \in Jobs : \E s \in S : f[s] = j}
<1>4. \A j \in Taken : /\ j \in Jobs /\ st[j] = "free" /\ st'[j] = "claiming"
                       /\ src'[j] \in S /\ f[src'[j]] = j /\ eng'[j] = e
  BY <1>1
<1>5. \A j \in Jobs \ Taken : st'[j] = st[j] /\ src'[j] = src[j] /\ eng'[j] = eng[j]
  BY <1>1
<1>6. Taken \subseteq Jobs
  OBVIOUS
<1>6a. /\ DOMAIN st' = Jobs /\ DOMAIN src' = Jobs /\ DOMAIN eng' = Jobs
       /\ st' = [j \in Jobs |-> st'[j]] /\ src' = [j \in Jobs |-> src'[j]]
       /\ eng' = [j \in Jobs |-> eng'[j]]
  BY <1>1
<1> HIDE DEF Taken
<1>7. TypeOK'
  <2>1. \A j \in Jobs : /\ st'[j] \in Phases /\ src'[j] \in Sources \cup {None}
                        /\ eng'[j] \in Engines \cup {None}
    BY <1>3, <1>4, <1>5, <1>6 DEF IInv, TypeOK, Phases
  <2>2. /\ st' \in [Jobs -> Phases] /\ src' \in [Jobs -> Sources \cup {None}]
        /\ eng' \in [Jobs -> Engines \cup {None}]
    BY <2>1, <1>6a
  <2>3. QED
    BY <2>2, <1>2 DEF IInv, TypeOK
<1>8. JobsFilled'
  BY <1>3, <1>4, <1>5 DEF IInv, JobsFilled
<1>9. ClaimsDisjoint'
  <2> SUFFICES ASSUME NEW j \in Jobs, NEW k \in Jobs, st'[j] = "claiming",
                      st'[k] = "claiming", src'[j] = src'[k]
               PROVE  j = k
    BY DEF ClaimsDisjoint
  <2>1. CASE j \in Taken /\ k \in Taken
    BY <2>1, <1>4
  <2>2. CASE j \notin Taken /\ k \notin Taken
    BY <2>2, <1>5 DEF IInv, ClaimsDisjoint
  <2>3. ASSUME NEW a \in Taken, NEW b \in Jobs \ Taken,
               st'[b] = "claiming", src'[a] = src'[b]
        PROVE  FALSE
    BY <2>3, <1>3, <1>4, <1>5 DEF Locked
  <2>4. QED
    BY <2>1, <2>2, <2>3
<1>10. \A j \in Jobs : Live(j)' => /\ Live(j) /\ j \notin Taken
                                  /\ src'[j] = src[j] /\ eng'[j] = eng[j]
  BY <1>4, <1>5 DEF Live
<1>11. RowsFresh'
  BY <1>2, <1>10 DEF IInv, RowsFresh, Expiry
<1>12. FetchedOnce'
  <2> SUFFICES ASSUME ~disturbed, NEW j \in Jobs, Live(j)'
               PROVE  /\ status[src[j]] = "processing" /\ engine[src[j]] = eng[j]
                      /\ ~Locked(src[j])'
                      /\ \A k \in Jobs : Live(k)' /\ src'[k] = src[j] => k = j
    BY <1>2, <1>10 DEF FetchedOnce, Locked
  <2>1. /\ Live(j)
        /\ status[src[j]] = "processing" /\ engine[src[j]] = eng[j] /\ ~Locked(src[j])
        /\ \A k \in Jobs : Live(k) /\ src[k] = src[j] => k = j
    BY <1>10 DEF IInv, FetchedOnce
  <2>2. src[j] \notin S
    BY <2>1, <1>3, InWorkNotEligible
  <2>3. ASSUME NEW k \in Jobs, st'[k] = "claiming", src'[k] = src[j] PROVE FALSE
    <3>1. k \notin Taken
      BY <2>2, <2>3, <1>4
    <3>2. QED
      BY <3>1, <2>1, <2>3, <1>5 DEF Locked
  <2>4. ~Locked(src[j])'
    <3>1. src'[j] = src[j]
      BY <1>10
    <3>2. ~\E k \in Jobs : st'[k] = "claiming" /\ src'[k] = src'[j]
      BY <3>1, <2>3
    <3>3. QED
      BY <3>2 DEF Locked
  <2>5. QED
    BY <2>1, <2>4, <1>10
<1>13. QED
  BY <1>7, <1>8, <1>9, <1>11, <1>12 DEF IInv

(* The rows of e's transaction change hands; no undisturbed work is on     *)
(* them. Stated once for the two ways a commit ends on the engine's side.  *)
LEMMA CommitRowsFacts ==
    ASSUME IInv, NEW e \in Engines, CommitRows(e)
    PROVE  /\ status' \in [Sources -> Statuses]
           /\ engine' \in [Sources -> Engines \cup {None}]
           /\ age' \in [Sources -> 0 .. MaxAge]
           /\ \A s \in Sources : s \in ClaimedRows(e) =>
                status'[s] = "processing" /\ engine'[s] = e /\ age'[s] = 0
           /\ \A s \in Sources : s \notin ClaimedRows(e) =>
                status'[s] = status[s] /\ engine'[s] = engine[s] /\ age'[s] = age[s]
           /\ \A j \in Jobs : ~disturbed /\ Live(j) => src[j] \notin ClaimedRows(e)
<1>1. 0 \in 0 .. MaxAge
  OBVIOUS
<1>2. status' \in [Sources -> Statuses]
  BY DEF CommitRows, IInv, TypeOK, Statuses
<1>3. engine' \in [Sources -> Engines \cup {None}] /\ age' \in [Sources -> 0 .. MaxAge]
  BY <1>1 DEF CommitRows, IInv, TypeOK
<1>4. \A s \in Sources : s \in ClaimedRows(e) =>
         status'[s] = "processing" /\ engine'[s] = e /\ age'[s] = 0
  BY DEF CommitRows
<1>5. \A s \in Sources : s \notin ClaimedRows(e) =>
         status'[s] = status[s] /\ engine'[s] = engine[s] /\ age'[s] = age[s]
  BY DEF CommitRows
<1>6. \A j \in Jobs : ~disturbed /\ Live(j) => src[j] \notin ClaimedRows(e)
  BY DEF ClaimedRows, Claiming, IInv, FetchedOnce, Locked
<1>7. QED
  BY <1>2, <1>3, <1>4, <1>5, <1>6

(* The engine sees its commit: the rows it locked are its work, and no     *)
(* other undisturbed work was on them.                                     *)
LEMMA ClaimCommitIInv ==
    ASSUME IInv, NEW e \in Engines, ClaimCommit(e)
    PROVE  IInv'
<1>1. CommitRows(e)
  BY DEF ClaimCommit
<1>2. /\ st' = [j \in Jobs |-> IF j \in Claiming(e) THEN "queued" ELSE st[j]]
      /\ UNCHANGED <<src, eng, run, edit, disturbed>>
  BY DEF ClaimCommit
<1>3. \A j \in Claiming(e) : /\ j \in Jobs /\ st[j] = "claiming" /\ eng[j] = e
                             /\ st'[j] = "queued" /\ src[j] \in ClaimedRows(e)
  BY <1>2 DEF Claiming, ClaimedRows
<1>4. \A j \in Jobs : j \notin Claiming(e) => st'[j] = st[j]
  BY <1>2
<1>5. TypeOK'
  BY <1>1, <1>2, CommitRowsFacts DEF IInv, TypeOK, Phases
<1>6. JobsFilled' /\ ClaimsDisjoint'
  BY <1>2, <1>3, <1>4 DEF IInv, JobsFilled, ClaimsDisjoint
<1>7. RowsFresh'
  <2> SUFFICES ASSUME ~disturbed, NEW j \in Jobs, Live(j)'
               PROVE  age'[src[j]] <= Expiry
    BY <1>2 DEF RowsFresh, Expiry
  <2>1. CASE j \in Claiming(e)
    BY <2>1, <1>1, <1>3, CommitRowsFacts, ExpiryFacts DEF IInv, JobsFilled
  <2>2. CASE j \notin Claiming(e)
    <3>1. Live(j) /\ src[j] \in Sources
      BY <2>2, <1>4 DEF Live, IInv, JobsFilled
    <3>2. age[src[j]] <= Expiry /\ age'[src[j]] = age[src[j]]
      BY <3>1, <1>1, CommitRowsFacts DEF IInv, RowsFresh
    <3>3. QED
      BY <3>2
  <2>3. QED
    BY <2>1, <2>2
<1>8. FetchedOnce'
  <2> SUFFICES ASSUME ~disturbed, NEW j \in Jobs, Live(j)'
               PROVE  /\ status'[src[j]] = "processing" /\ engine'[src[j]] = eng[j]
                      /\ \A k \in Jobs : src[k] = src[j] => st'[k] # "claiming"
                      /\ \A k \in Jobs : Live(k)' /\ src[k] = src[j] => k = j
    BY <1>2 DEF FetchedOnce, Locked
  <2>1. CASE j \in Claiming(e)
    <3>1. status'[src[j]] = "processing" /\ engine'[src[j]] = eng[j]
      BY <2>1, <1>1, <1>3, CommitRowsFacts DEF IInv, JobsFilled
    <3>2. \A k \in Jobs : src[k] = src[j] /\ st[k] = "claiming" => k = j
      BY <2>1, <1>3 DEF IInv, ClaimsDisjoint
    <3>3. \A k \in Jobs : Live(k) => src[k] # src[j]
      BY <2>1, <1>1, <1>3, CommitRowsFacts
    <3>4. QED
      BY <2>1, <3>1, <3>2, <3>3, <1>3, <1>4 DEF Live
  <2>2. CASE j \notin Claiming(e)
    <3>1. Live(j) /\ src[j] \in Sources
      BY <2>2, <1>4 DEF Live, IInv, JobsFilled
    <3>2. /\ status[src[j]] = "processing" /\ engine[src[j]] = eng[j] /\ ~Locked(src[j])
          /\ \A k \in Jobs : Live(k) /\ src[k] = src[j] => k = j
      BY <3>1 DEF IInv, FetchedOnce
    <3>3. status'[src[j]] = "processing" /\ engine'[src[j]] = eng[j]
      BY <3>1, <3>2, <1>1, CommitRowsFacts
    <3>4. \A k \in Jobs : src[k] = src[j] => st[k] # "claiming"
      BY <3>2 DEF Locked
    <3>5. QED
      BY <3>2, <3>3, <3>4, <1>3, <1>4 DEF Live
  <2>3. QED
    BY <2>1, <2>2
<1>9. QED
  BY <1>5, <1>6, <1>7, <1>8 DEF IInv

(* The commit is lost on its way back: the rows stay processing, no job    *)
(* has them.                                                               *)
LEMMA ClaimCommitUnseenIInv ==
    ASSUME IInv, NEW e \in Engines, ClaimCommitUnseen(e)
    PROVE  IInv'
<1>1. CommitRows(e) /\ Free(Claiming(e)) /\ UNCHANGED <<edit, disturbed>>
  BY DEF ClaimCommitUnseen
<1>2. /\ st' \in [Jobs -> Phases]
      /\ src' \in [Jobs -> Sources \cup {None}]
      /\ eng' \in [Jobs -> Engines \cup {None}]
      /\ run' \in [Jobs -> 0 .. Timeout]
  BY <1>1 DEF Free, IInv, TypeOK, Phases
<1>3. \A j \in Jobs : st'[j] # "free" =>
         st'[j] = st[j] /\ src'[j] = src[j] /\ eng'[j] = eng[j]
  BY <1>1 DEF Free, IInv, TypeOK
<1>4. TypeOK'
  BY <1>1, <1>2, CommitRowsFacts DEF IInv, TypeOK
<1>5. JobsFilled' /\ ClaimsDisjoint'
  BY <1>3 DEF IInv, JobsFilled, ClaimsDisjoint
<1>6. ASSUME ~disturbed, NEW j \in Jobs, Live(j)'
      PROVE  /\ Live(j) /\ src'[j] = src[j] /\ eng'[j] = eng[j] /\ src[j] \in Sources
             /\ status'[src[j]] = status[src[j]] /\ engine'[src[j]] = engine[src[j]]
             /\ age'[src[j]] = age[src[j]]
  <2>1. Live(j) /\ src'[j] = src[j] /\ eng'[j] = eng[j]
    BY <1>6, <1>3 DEF Live
  <2>2. src[j] \in Sources /\ src[j] \notin ClaimedRows(e)
    BY <1>6, <2>1, <1>1, CommitRowsFacts DEF IInv, JobsFilled, Live
  <2>3. QED
    BY <2>1, <2>2, <1>1, CommitRowsFacts
<1>7. \A s \in Sources : Locked(s)' => Locked(s)
  BY <1>3 DEF Locked
<1>8. RowsFresh'
  BY <1>1, <1>6 DEF IInv, RowsFresh, Expiry
<1>9. FetchedOnce'
  <2> SUFFICES ASSUME ~disturbed, NEW j \in Jobs, Live(j)'
               PROVE  /\ status'[src'[j]] = "processing" /\ engine'[src'[j]] = eng'[j]
                      /\ ~\E k \in Jobs : st'[k] = "claiming" /\ src'[k] = src'[j]
                      /\ \A k \in Jobs : Live(k)' /\ src'[k] = src'[j] => k = j
    BY <1>1 DEF FetchedOnce, Locked
  <2>1. /\ status[src[j]] = "processing" /\ engine[src[j]] = eng[j] /\ ~Locked(src[j])
        /\ \A k \in Jobs : Live(k) /\ src[k] = src[j] => k = j
    BY <1>6 DEF IInv, FetchedOnce
  <2>2. ~\E k \in Jobs : st'[k] = "claiming" /\ src'[k] = src'[j]
    BY <2>1, <1>3, <1>6 DEF Locked
  <2>3. QED
    BY <2>1, <2>2, <1>6
<1>10. QED
  BY <1>4, <1>5, <1>8, <1>9 DEF IInv

(* A pipeline takes a source: the job stays in work, nothing else moves. *)
LEMMA StartCrawlIInv ==
    ASSUME IInv, NEW j \in Jobs, StartCrawl(j)
    PROVE  IInv'
<1>1. /\ st[j] = "queued" /\ st' = [st EXCEPT ![j] = "crawling"]
      /\ UNCHANGED <<status, engine, age, src, eng, run, edit, disturbed>>
  BY DEF StartCrawl
<1>2. TypeOK'
  BY <1>1 DEF IInv, TypeOK, Phases
<1>3. \A k \in Jobs : /\ st'[k] = "claiming" <=> st[k] = "claiming"
                      /\ st'[k] = "free" <=> st[k] = "free"
                      /\ Live(k)' <=> Live(k)
  BY <1>1 DEF Live, IInv, TypeOK
<1>4. JobsFilled' /\ ClaimsDisjoint' /\ RowsFresh'
  BY <1>1, <1>3 DEF IInv, JobsFilled, ClaimsDisjoint, RowsFresh, Expiry
<1>5. FetchedOnce'
  <2>1. \A s : Locked(s)' <=> Locked(s)
    BY <1>1, <1>3 DEF Locked
  <2>2. \A k \in Jobs : Locked(src[k])' <=> Locked(src[k])
    BY <1>1, <1>3 DEF Locked
  <2>3. QED
    BY <1>1, <1>3, <2>2 DEF IInv, FetchedOnce
<1>6. QED
  BY <1>2, <1>4, <1>5 DEF IInv

(* The outcome of a crawl is written: in undisturbed work nobody else is   *)
(* on the row.                                                             *)
LEMMA FinishCrawlIInv ==
    ASSUME IInv, NEW j \in Jobs, FinishCrawl(j)
    PROVE  IInv'
<1>1. PICK outcome \in {"completed", "error"} : Write(src[j], outcome)
  BY DEF FinishCrawl
<1>2. /\ st[j] = "crawling" /\ Free({j})
      /\ UNCHANGED <<engine, edit, disturbed>>
  BY DEF FinishCrawl
<1>3. src[j] \in Sources /\ Live(j)
  BY <1>2 DEF IInv, JobsFilled, Live
<1>4. /\ status' \in [Sources -> Statuses] /\ age' \in [Sources -> 0 .. MaxAge]
      /\ \A t \in Sources : t # src[j] => status'[t] = status[t] /\ age'[t] = age[t]
  <2>1. 0 \in 0 .. MaxAge
    OBVIOUS
  <2>2. QED
    BY <1>1, <1>3, <2>1 DEF Write, IInv, TypeOK, Statuses
<1>5. /\ st' \in [Jobs -> Phases]
      /\ src' \in [Jobs -> Sources \cup {None}]
      /\ eng' \in [Jobs -> Engines \cup {None}]
      /\ run' \in [Jobs -> 0 .. Timeout]
  BY <1>2 DEF Free, IInv, TypeOK, Phases
<1>6. TypeOK'
  BY <1>2, <1>4, <1>5 DEF IInv, TypeOK
<1>7. /\ st'[j] = "free"
      /\ \A k \in Jobs : k # j => st'[k] = st[k] /\ src'[k] = src[k] /\ eng'[k] = eng[k]
  BY <1>2 DEF Free
<1>8. JobsFilled' /\ ClaimsDisjoint'
  BY <1>7 DEF IInv, JobsFilled, ClaimsDisjoint
<1>9. ASSUME ~disturbed, NEW k \in Jobs, Live(k)'
      PROVE  /\ Live(k) /\ k # j /\ src'[k] = src[k] /\ eng'[k] = eng[k]
             /\ src[k] \in Sources /\ src[k] # src[j]
  <2>1. k # j /\ Live(k) /\ src'[k] = src[k] /\ eng'[k] = eng[k]
    BY <1>9, <1>7 DEF Live
  <2>2. src[k] \in Sources /\ src[k] # src[j]
    BY <2>1, <1>3, <1>9 DEF IInv, JobsFilled, FetchedOnce, Live
  <2>3. QED
    BY <2>1, <2>2
<1>10. RowsFresh'
  BY <1>2, <1>4, <1>9 DEF IInv, RowsFresh, Expiry
<1>11. FetchedOnce'
  <2> SUFFICES ASSUME ~disturbed, NEW k \in Jobs, Live(k)'
               PROVE  /\ status'[src'[k]] = "processing" /\ engine'[src'[k]] = eng'[k]
                      /\ ~\E i \in Jobs : st'[i] = "claiming" /\ src'[i] = src'[k]
                      /\ \A i \in Jobs : Live(i)' /\ src'[i] = src'[k] => i = k
    BY <1>2 DEF FetchedOnce, Locked
  <2>1. /\ status[src[k]] = "processing" /\ engine[src[k]] = eng[k] /\ ~Locked(src[k])
        /\ \A i \in Jobs : Live(i) /\ src[i] = src[k] => i = k
    BY <1>9 DEF IInv, FetchedOnce
  <2>2. ~\E i \in Jobs : st'[i] = "claiming" /\ src'[i] = src'[k]
    BY <2>1, <1>7, <1>9 DEF Locked
  <2>3. QED
    BY <2>1, <2>2, <1>2, <1>4, <1>9
<1>12. QED
  BY <1>6, <1>8, <1>10, <1>11 DEF IInv

(* The read half of a console edit moves nothing but what was read. *)
LEMMA EditReadIInv ==
    ASSUME IInv, NEW s \in Sources, EditRead(s)
    PROVE  IInv'
<1>1. /\ edit' \in [Sources -> Statuses \cup {None}]
      /\ UNCHANGED <<status, engine, age, st, src, eng, run, disturbed>>
  BY DEF EditRead, IInv, TypeOK
<1>2. TypeOK'
  BY <1>1 DEF IInv, TypeOK
<1>3. JobsFilled' /\ ClaimsDisjoint' /\ RowsFresh' /\ FetchedOnce'
  BY <1>1 DEF IInv, JobsFilled, ClaimsDisjoint, RowsFresh, FetchedOnce, Live, Locked, Expiry
<1>4. QED
  BY <1>2, <1>3 DEF IInv

(* Time passes: a row in work that would look abandoned disturbs its claim. *)
LEMMA TickIInv ==
    ASSUME IInv, Tick
    PROVE  IInv'
<1>1. /\ \A j \in Jobs : st[j] = "crawling" => run[j] < Timeout
      /\ age' = [s \in Sources |-> IF age[s] < MaxAge THEN age[s] + 1 ELSE MaxAge]
      /\ run' = [j \in Jobs |-> IF st[j] = "crawling" THEN run[j] + 1 ELSE run[j]]
      /\ disturbed' = (disturbed \/ \E s \in Sources : LiveOn(s) /\ age'[s] > Expiry)
      /\ UNCHANGED <<status, engine, st, src, eng, edit>>
  BY DEF Tick
<1>2. \A s \in Sources : age'[s] \in 0 .. MaxAge
  BY <1>1 DEF IInv, TypeOK
<1>3. \A j \in Jobs : run'[j] \in 0 .. Timeout
  BY <1>1 DEF IInv, TypeOK
<1>4. age' \in [Sources -> 0 .. MaxAge] /\ run' \in [Jobs -> 0 .. Timeout]
  <2>1. age' = [s \in Sources |-> age'[s]] /\ run' = [j \in Jobs |-> run'[j]]
    BY <1>1
  <2>2. QED
    BY <1>2, <1>3, <2>1
<1>5. disturbed' \in BOOLEAN /\ (disturbed => disturbed')
  BY <1>1 DEF IInv, TypeOK
<1>6. TypeOK'
  BY <1>1, <1>4, <1>5 DEF IInv, TypeOK
<1>7. JobsFilled' /\ ClaimsDisjoint'
  BY <1>1 DEF IInv, JobsFilled, ClaimsDisjoint
<1>8. RowsFresh'
  <2> SUFFICES ASSUME ~disturbed', NEW j \in Jobs, Live(j)
               PROVE  age'[src[j]] <= Expiry
    BY <1>1 DEF RowsFresh, Live, Expiry
  <2>1. src[j] \in Sources /\ LiveOn(src[j])
    BY DEF IInv, JobsFilled, Live, LiveOn
  <2>2. ~(age'[src[j]] > Expiry)
    BY <1>1, <2>1
  <2>3. age'[src[j]] \in Int /\ Expiry \in Int
    BY <1>2, <2>1, ExpiryFacts
  <2>4. QED
    BY <2>2, <2>3
<1>9. FetchedOnce'
  BY <1>1, <1>5 DEF IInv, FetchedOnce, Live, Locked
<1>10. QED
  BY <1>6, <1>7, <1>8, <1>9 DEF IInv

(* One step per action. *)
LEMMA NextIInv == IInv /\ [Next]_vars => IInv'
<1> SUFFICES ASSUME IInv, [Next]_vars PROVE IInv'
  OBVIOUS
<1>1. ASSUME NEW e \in Engines, ClaimBegin(e) PROVE IInv'
  BY <1>1, ClaimBeginIInv
<1>2. ASSUME NEW e \in Engines, ClaimCommit(e) PROVE IInv'
  BY <1>2, ClaimCommitIInv
<1>3. ASSUME NEW e \in Engines, ClaimCommitUnseen(e) PROVE IInv'
  BY <1>3, ClaimCommitUnseenIInv
<1>4. ASSUME NEW e \in Engines, ClaimAbort(e) PROVE IInv'
  <2>1. Claiming(e) \in SUBSET Jobs
    BY DEF Claiming
  <2>2. QED
    BY <1>4, <2>1, FreeIInv DEF ClaimAbort
<1>5. ASSUME NEW e \in Engines, Crash(e) PROVE IInv'
  <2> DEFINE J == {j \in Jobs : eng[j] = e}
  <2>1. J \in SUBSET Jobs
    OBVIOUS
  <2>2. Free(J) /\ UNCHANGED <<status, engine, age, edit, disturbed>>
    BY <1>5 DEF Crash
  <2> HIDE DEF J
  <2>3. QED
    BY <2>1, <2>2, FreeIInv
<1>6. ASSUME NEW j \in Jobs, StartCrawl(j) PROVE IInv'
  BY <1>6, StartCrawlIInv
<1>7. ASSUME NEW j \in Jobs, FinishCrawl(j) PROVE IInv'
  BY <1>7, FinishCrawlIInv
<1>8. ASSUME NEW j \in Jobs, FinishLost(j) \/ DropQueued(j) PROVE IInv'
  <2>1. Free({j}) /\ UNCHANGED <<status, engine, age, edit, disturbed>>
    BY <1>8 DEF FinishLost, DropQueued
  <2>2. {j} \in SUBSET Jobs
    OBVIOUS
  <2>3. QED
    BY <2>1, <2>2, FreeIInv
<1>9. ASSUME NEW s \in Sources, Schedule(s) \/ Import(s) PROVE IInv'
  <2>1. PICK new \in {"pending", "new", status[s]} :
          Write(s, new) /\ (new # status[s] => status[s] # "processing")
    BY <1>9 DEF Schedule, Import
  <2>2. ~Locked(s) /\ UNCHANGED <<engine, st, src, eng, run, edit, disturbed>>
    BY <1>9 DEF Schedule, Import
  <2>3. ~disturbed => (new = status[s] \/ ~LiveOn(s))
    BY <2>1 DEF LiveOn, IInv, FetchedOnce
  <2>4. new \in Statuses /\ edit' \in [Sources -> Statuses \cup {None}]
        /\ disturbed' \in BOOLEAN
    BY <2>1, <2>2 DEF IInv, TypeOK, Statuses
  <2>5. QED
    BY <2>1, <2>2, <2>3, <2>4, WriteIInv
<1>10. ASSUME NEW s \in Sources, EditRead(s) PROVE IInv'
  BY <1>10, EditReadIInv
<1>11. ASSUME NEW s \in Sources, EditWrite(s) PROVE IInv'
  <2>1. /\ edit[s] # None /\ ~Locked(s) /\ Write(s, edit[s])
        /\ edit' = [edit EXCEPT ![s] = None]
        /\ disturbed' = (disturbed \/ edit[s] # status[s])
        /\ UNCHANGED <<engine, st, src, eng, run>>
    BY <1>11 DEF EditWrite
  <2>2. edit[s] \in Statuses /\ edit' \in [Sources -> Statuses \cup {None}]
    BY <2>1 DEF IInv, TypeOK
  <2>3. disturbed' \in BOOLEAN /\ (disturbed => disturbed')
        /\ (~disturbed' => edit[s] = status[s])
    BY <2>1 DEF IInv, TypeOK
  <2>4. QED
    BY <2>1, <2>2, <2>3, WriteIInv
<1>12. ASSUME NEW s \in Sources, SetStatus(s) PROVE IInv'
  <2>1. PICK new \in Statuses : Write(s, new)
    BY <1>12 DEF SetStatus
  <2>2. /\ ~Locked(s) /\ disturbed' = (disturbed \/ LiveOn(s))
        /\ UNCHANGED <<engine, st, src, eng, run, edit>>
    BY <1>12 DEF SetStatus
  <2>3. edit' \in [Sources -> Statuses \cup {None}]
    BY <2>2 DEF IInv, TypeOK
  <2>4. disturbed' \in BOOLEAN /\ (disturbed => disturbed')
        /\ (~disturbed' => ~LiveOn(s))
    BY <2>2 DEF IInv, TypeOK, LiveOn
  <2>5. QED
    BY <2>1, <2>2, <2>3, <2>4, WriteIInv
<1>13. CASE Tick
  BY <1>13, TickIInv
<1>14. CASE UNCHANGED vars
  BY <1>14 DEF vars, IInv, TypeOK, JobsFilled, ClaimsDisjoint, RowsFresh, FetchedOnce,
     Live, Locked, Expiry
<1>15. QED
  BY <1>1, <1>2, <1>3, <1>4, <1>5, <1>6, <1>7, <1>8, <1>9, <1>10, <1>11, <1>12, <1>13,
     <1>14 DEF Next

(* update_sources, the queue, UpdateSourceState, rescheduling and edits    *)
(* keep the inductive invariant, and with it the types of every variable.  *)
THEOREM ClaimInvariant == Spec => []IInv
BY InitIInv, NextIInv, PTL DEF Spec

(* Rows, jobs and open claims keep their types, whoever writes them. *)
THEOREM ClaimTypes == Spec => []TypeOK
BY ClaimInvariant, PTL DEF IInv

(* FOR UPDATE SKIP LOCKED keeps two open claim transactions of             *)
(* retrieveAvailableSources off the same row, whatever LIMIT and intervals.*)
THEOREM Disjoint == Spec => []ClaimsDisjoint
<1>1. IInv => ClaimsDisjoint
  BY DEF IInv
<1>2. QED
  BY <1>1, ClaimInvariant, PTL

(* Until a claim is disturbed, a source fetched by retrieveAvailableSources *)
(* is fetched by one engine only and its row says processing, by it.       *)
THEOREM Fetched == Spec => []FetchedOnce
<1>1. IInv => FetchedOnce
  BY DEF IInv
<1>2. QED
  BY <1>1, ClaimInvariant, PTL
=============================================================================
