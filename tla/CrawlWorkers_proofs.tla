------------------------ MODULE CrawlWorkers_proofs -------------------------
(***************************************************************************)
(* Proofs about CrawlWorkers, for any site, number of workers and limits.  *)
(* They need one worker at least: with none (Workers = 1) no link is ever  *)
(* taken, and AllLinksTried does not hold.                                 *)
(***************************************************************************)
EXTENDS CrawlWorkers, FiniteSetTheorems, SequenceTheorems, TLAPS

Busy == {w \in W : pc[w] \in {"busy", "marking"}}
Out == {w \in W : pc[w] = "out"}
Holders(u) == {w \in W : link[w] = u}

Types ==
    /\ phase \in {"crawl", "done", "failed", "crashed"}
    /\ left \in Nat /\ jobs \in Seq(Links) /\ newLinks \in Seq(Links)
    /\ pc \in [W -> {"idle", "busy", "marking", "out"}]
    /\ link \in [W -> Links \cup {None}]
    /\ result \in [W -> {"ok", "error", "critical"}]
    /\ pages \in Nat /\ visited \subseteq Links /\ errs \in Nat
    /\ stop \in BOOLEAN /\ late \in BOOLEAN /\ cleared \in BOOLEAN /\ halted \in BOOLEAN
    /\ tries \in [Links -> Nat]

(* A worker has a link exactly while it has a page. *)
LinkHeld == \A w \in W : link[w] \in Links <=> w \in Busy

(* A worker with a page has passed the test of the limit. *)
Room == MaxLinks > 0 => pages + Cardinality(Busy) <= MaxLinks + Cardinality(W) - 1

(* A page that is not in the map was loaded by workers that still have it. *)
Repeats ==
    ~cleared => \A u \in Links :
        /\ u \notin visited => tries[u] <= Cardinality(Holders(u))
        /\ tries[u] <= Cardinality(W)

(* An error is the last thing a worker sends. *)
Errors == errs <= Cardinality(Out)

(* Why a worker has left. *)
Reason == Out # {} => jobs = <<>> \/ halted \/ Full \/ errs > 0

(* The loop is left when no depth may follow. *)
Depth == phase = "crawl" => left > 0

IInv == Types /\ LinkHeld /\ Room /\ Repeats /\ Errors /\ Reason /\ Depth

USE WorkersAssumption, SiteAssumption, LimitAssumption
    DEF WorkersAssumption, SiteAssumption, LimitAssumption

(***************************************************************************)
(* Sets of workers.                                                        *)
(***************************************************************************)
LEMMA WFinite == IsFiniteSet(W) /\ Cardinality(W) = Workers - Used /\ Workers - Used \in Nat
<1>1. Workers - Used \in Nat
  BY DEF Used
<1>2. QED
  BY <1>1, FS_Interval DEF W

LEMMA SubsetFacts ==
    ASSUME NEW S \in SUBSET W
    PROVE  IsFiniteSet(S) /\ Cardinality(S) \in Nat /\ Cardinality(S) <= Cardinality(W)
  BY WFinite, FS_Subset, FS_CardinalityType

LEMMA OneMore ==
    ASSUME NEW S \in SUBSET W, NEW w \in W \ S
    PROVE  Cardinality(S \cup {w}) = Cardinality(S) + 1
  BY SubsetFacts, FS_AddElement

LEMMA OneLess ==
    ASSUME NEW S \in SUBSET W, NEW w \in S
    PROVE  Cardinality(S \ {w}) = Cardinality(S) - 1
  BY SubsetFacts, FS_RemoveElement

LEMMA NoWorker == Cardinality({}) = 0
  BY FS_EmptySet

LEMMA SetsOfWorkers ==
    /\ Busy \in SUBSET W /\ Out \in SUBSET W
    /\ \A u : Holders(u) \in SUBSET W
  BY DEF Busy, Out, Holders

LEMMA InitIInv == ASSUME W # {}, Init PROVE IInv
<1>1. Cardinality(W) \in Nat /\ Cardinality(W) >= 1
  <2>1. PICK w \in W : TRUE
    OBVIOUS
  <2>2. Cardinality({w}) = 1 /\ {w} \in SUBSET W
    BY FS_Singleton
  <2>3. QED
    BY <2>2, SubsetFacts, WFinite
<1>2. Types /\ Depth
  <2>1. DepthLimit \in Nat \ {0}
    BY DEF DepthLimit
  <2>2. tries \in [Links -> Nat] /\ jobs \in Seq(Links) /\ newLinks \in Seq(Links)
    BY DEF Init
  <2>3. /\ pc \in [W -> {"idle", "busy", "marking", "out"}]
        /\ link \in [W -> Links \cup {None}] /\ result \in [W -> {"ok", "error", "critical"}]
    BY DEF Init
  <2>4. phase \in {"crawl", "done", "failed", "crashed"} /\ left \in Nat /\ left > 0
    BY <2>1 DEF Init
  <2>5. QED
    BY <2>2, <2>3, <2>4 DEF Init, Types, Depth
<1>3. Busy = {} /\ Out = {} /\ \A u \in Links : Holders(u) = {}
  BY DEF Init, Busy, Out, Holders
<1>4. LinkHeld
  BY <1>3 DEF Init, LinkHeld
<1>5. Room /\ Errors /\ Reason
  BY <1>1, <1>3, NoWorker DEF Init, Room, Errors, Reason
<1>6. Repeats
  <2> SUFFICES ASSUME NEW u \in Links
               PROVE  /\ u \notin visited => tries[u] <= Cardinality(Holders(u))
                      /\ tries[u] <= Cardinality(W)
    BY DEF Repeats
  <2>1. Cardinality(Holders(u)) = 0
    BY <1>3, NoWorker
  <2>2. (u \notin visited => tries[u] = 0) /\ tries[u] \in {0, 1}
    BY DEF Init
  <2>3. QED
    BY <1>1, <2>1, <2>2
<1>7. QED
  BY <1>2, <1>4, <1>5, <1>6 DEF IInv

(***************************************************************************)
(* The steps of a worker.                                                  *)
(***************************************************************************)
LEMMA LoadStep ==
    ASSUME IInv, NEW w \in W, Receive(w), pc' = [pc EXCEPT ![w] = "busy"] PROVE IInv'
<1>0. PICK u \in Links : u = Head(jobs)
  BY HeadTailProperties DEF Receive, IInv, Types
<1>1. /\ phase = "crawl" /\ pc[w] = "idle" /\ jobs # <<>> /\ jobs' = Tail(jobs)
      /\ u \in Links /\ Tail(jobs) \in Seq(Links)
  BY HeadTailProperties DEF Receive, IInv, Types
<1>2. pc \in [W -> {"idle", "busy", "marking", "out"}] /\ pc'[w] = "busy"
  BY DEF IInv, Types
<1>3. /\ ~Full /\ u \notin visited
      /\ link' = [link EXCEPT ![w] = u] /\ tries' = [tries EXCEPT ![u] = @ + 1]
      /\ UNCHANGED halted
  BY <1>0, <1>1, <1>2 DEF Receive
<1>4. UNCHANGED <<phase, left, newLinks, result, pages, visited, errs, envVars>>
  BY DEF Receive
<1>5. Types'
  <2>1. pc' \in [W -> {"idle", "busy", "marking", "out"}]
    BY <1>2
  <2>2. link' \in [W -> Links \cup {None}]
    BY <1>1, <1>3 DEF IInv, Types
  <2>3. tries' \in [Links -> Nat]
    BY <1>1, <1>3 DEF IInv, Types
  <2>4. jobs' \in Seq(Links)
    BY <1>1
  <2>5. QED
    BY <1>3, <1>4, <2>1, <2>2, <2>3, <2>4 DEF IInv, Types, envVars
<1>6. w \notin Busy /\ Busy' = Busy \cup {w} /\ Out' = Out
  BY <1>1, <1>2 DEF Busy, Out
<1>7. link[w] \notin Links
  BY <1>6 DEF IInv, LinkHeld
<1>8. /\ w \notin Holders(u) /\ Holders(u)' = Holders(u) \cup {w}
      /\ \A v \in Links \ {u} : Holders(v)' = Holders(v)
  <2>1. link' = [v \in W |-> IF v = w THEN u ELSE link[v]] /\ u \in Links
    BY <1>1, <1>3 DEF IInv, Types
  <2>2. w \notin Holders(u)
    BY <1>7, <2>1 DEF Holders
  <2>3. Holders(u)' = Holders(u) \cup {w}
    <3>1. Holders(u)' = {v \in W : link'[v] = u}
      BY DEF Holders
    <3>2. \A v \in W : link'[v] = u <=> v = w \/ link[v] = u
      BY <2>1
    <3>3. QED
      BY <3>1, <3>2 DEF Holders
  <2>4. ASSUME NEW v \in Links \ {u} PROVE Holders(v)' = Holders(v)
    BY <1>7, <2>1 DEF Holders
  <2>5. QED
    BY <2>2, <2>3, <2>4
<1>9. LinkHeld'
  BY <1>1, <1>3, <1>6 DEF LinkHeld, IInv, Types
<1>10. Room'
  <2>1. Cardinality(Busy') \in Nat /\ Cardinality(Busy') <= Cardinality(W) /\ Cardinality(W) \in Nat
    BY <1>6, SubsetFacts, SetsOfWorkers, WFinite
  <2>2. MaxLinks > 0 => pages < MaxLinks
    BY <1>3 DEF Full, IInv, Types
  <2>3. QED
    BY <1>4, <2>1, <2>2 DEF Room, IInv, Types
<1>11. Repeats'
  <2> SUFFICES ASSUME ~cleared, NEW v \in Links
               PROVE  /\ v \notin visited => tries'[v] <= Cardinality(Holders(v)')
                      /\ tries'[v] <= Cardinality(W)
    BY <1>4 DEF Repeats, envVars
  <2>1. /\ v \notin visited => tries[v] <= Cardinality(Holders(v))
        /\ tries[v] <= Cardinality(W) /\ tries[v] \in Nat
    BY DEF IInv, Repeats, Types
  <2>2. CASE v = u
    <3>1. Cardinality(Holders(u)') = Cardinality(Holders(u)) + 1
      BY <1>8, OneMore, SetsOfWorkers
    <3>2. Cardinality(Holders(u)') <= Cardinality(W) /\ Cardinality(Holders(u)) \in Nat
          /\ Cardinality(W) \in Nat
      BY <1>8, SubsetFacts, SetsOfWorkers, WFinite
    <3>3. tries'[u] = tries[u] + 1
      BY <1>1, <1>3 DEF IInv, Types
    <3>4. tries[u] <= Cardinality(Holders(u)) /\ tries[u] \in Nat
      BY <1>3, <2>1, <2>2
    <3>5. tries'[u] <= Cardinality(Holders(u)') /\ tries'[u] <= Cardinality(W)
      BY <3>1, <3>2, <3>3, <3>4
    <3>6. Holders(v)' = Holders(u)'
      BY <2>2 DEF Holders
    <3>7. QED
      BY <2>2, <3>5, <3>6
  <2>3. CASE v # u
    BY <1>3, <1>8, <2>1, <2>3 DEF IInv, Types
  <2>4. QED
    BY <2>2, <2>3
<1>12. Errors' /\ Reason' /\ Depth'
  BY <1>1, <1>3, <1>4, <1>6 DEF IInv, Errors, Reason, Full, Depth
<1>13. QED
  BY <1>5, <1>9, <1>10, <1>11, <1>12 DEF IInv

(* A link that is dropped, a worker that leaves. *)
LEMMA IdleStep ==
    ASSUME IInv, NEW w \in W,
           Receive(w) \/ Drained(w), pc' = pc \/ pc' = [pc EXCEPT ![w] = "out"]
    PROVE  IInv'
<1>1. /\ phase = "crawl" /\ pc[w] = "idle"
      /\ pc \in [W -> {"idle", "busy", "marking", "out"}]
  BY DEF Receive, Drained, IInv, Types
<1>2. UNCHANGED <<phase, left, newLinks, link, tries, result, pages, visited, errs, envVars>>
  BY <1>1 DEF Receive, Drained, loop
<1>3. /\ jobs' \in Seq(Links) /\ (jobs = <<>> => jobs' = <<>>)
      /\ halted' \in BOOLEAN /\ (halted => halted')
      /\ pc' # pc => jobs' = <<>> \/ halted' \/ Full
  <2>1. jobs \in Seq(Links) /\ halted \in BOOLEAN
    BY DEF IInv, Types
  <2>2. CASE Receive(w)
    <3>1. jobs # <<>> /\ jobs' = Tail(jobs) /\ jobs' \in Seq(Links)
      BY <2>1, <2>2, HeadTailProperties DEF Receive
    <3>2. \/ (stop \/ Full) /\ halted' = (halted \/ stop)
          \/ pc' = pc /\ UNCHANGED halted
          \/ pc' = [pc EXCEPT ![w] = "busy"]
      BY <2>2 DEF Receive
    <3>3. pc' # [pc EXCEPT ![w] = "busy"]
      BY <1>1
    <3>4. stop \in BOOLEAN
      BY DEF IInv, Types
    <3>5. halted' \in BOOLEAN /\ (halted => halted') /\ (pc' # pc => halted' \/ Full)
      BY <2>1, <3>2, <3>3, <3>4
    <3>6. QED
      BY <3>1, <3>5
  <2>3. CASE Drained(w)
    BY <2>1, <2>3 DEF Drained, loop
  <2>4. QED
    BY <2>2, <2>3
<1>4. Types'
  BY <1>1, <1>2, <1>3 DEF IInv, Types, envVars
<1>5. Busy' = Busy /\ (Out' = Out \/ (w \notin Out /\ Out' = Out \cup {w} /\ pc' # pc))
  BY <1>1 DEF Busy, Out
<1>6. LinkHeld' /\ Room' /\ Repeats' /\ Depth'
  BY <1>2, <1>5 DEF IInv, LinkHeld, Room, Repeats, Depth, Holders, envVars
<1>7. Errors'
  <2>1. Cardinality(Out') \in Nat /\ Cardinality(Out) \in Nat
        /\ Cardinality(Out') >= Cardinality(Out)
    <3>1. Cardinality(Out) \in Nat
      BY SubsetFacts, SetsOfWorkers
    <3>2. CASE Out' = Out
      BY <3>1, <3>2
    <3>3. CASE w \notin Out /\ Out' = Out \cup {w}
      <4>1. Cardinality(Out \cup {w}) = Cardinality(Out) + 1
        BY <3>3, OneMore, SetsOfWorkers
      <4>2. QED
        BY <3>1, <3>3, <4>1
    <3>4. QED
      BY <1>5, <3>2, <3>3
  <2>2. QED
    BY <1>2, <2>1 DEF IInv, Errors, Types
<1>8. Reason'
  BY <1>2, <1>3, <1>5 DEF IInv, Reason, Full
<1>9. QED
  BY <1>4, <1>6, <1>7, <1>8 DEF IInv

LEMMA ProcessStep ==
    ASSUME IInv, NEW w \in W, Process(w) PROVE IInv'
<1>1. /\ pc[w] = "busy" /\ pc' = [pc EXCEPT ![w] = "marking"]
      /\ UNCHANGED <<phase, left, jobs, link, pages, errs, envVars, halted, tries>>
  BY DEF Process
<1>2. link[w] \in Links
  BY <1>1 DEF IInv, LinkHeld, Busy
<1>3. /\ visited \subseteq visited' /\ visited' \subseteq Links /\ newLinks' \in Seq(Links)
      /\ result' \in [W -> {"ok", "error", "critical"}]
  <2>1. /\ LinksOn[link[w]] \in Seq(Links) /\ newLinks \in Seq(Links)
        /\ result \in [W -> {"ok", "error", "critical"}] /\ visited \subseteq Links
    BY <1>2 DEF IInv, Types
  <2>2. newLinks \o LinksOn[link[w]] \in Seq(Links)
    BY <2>1, ConcatProperties
  <2>3. \/ visited' = visited \cup {link[w]} /\ newLinks' = newLinks \o LinksOn[link[w]]
        \/ UNCHANGED <<visited, newLinks>>
    BY DEF Process
  <2>4. result' \in [W -> {"ok", "error", "critical"}]
    BY <2>1 DEF Process
  <2>5. QED
    BY <1>2, <2>1, <2>2, <2>3, <2>4
<1>4. Types'
  BY <1>1, <1>3 DEF IInv, Types, envVars
<1>5. Busy' = Busy /\ Out' = Out
  BY <1>1 DEF Busy, Out, IInv, Types
<1>6. LinkHeld' /\ Room' /\ Errors' /\ Reason' /\ Depth'
  BY <1>1, <1>5 DEF IInv, LinkHeld, Room, Errors, Reason, Depth, Full
<1>7. Repeats'
  BY <1>1, <1>3 DEF IInv, Repeats, Holders, envVars
<1>8. QED
  BY <1>4, <1>6, <1>7 DEF IInv

LEMMA MarkStep ==
    ASSUME IInv, NEW w \in W, Mark(w) PROVE IInv'
<1>1. /\ pc[w] = "marking" /\ visited' = visited \cup {link[w]}
      /\ link' = [link EXCEPT ![w] = None]
      /\ UNCHANGED <<phase, left, jobs, newLinks, result, envVars, halted, tries>>
  BY DEF Mark, loop
<1>2. pc \in [W -> {"idle", "busy", "marking", "out"}] /\ w \in Busy /\ link[w] \in Links
  BY <1>1 DEF IInv, Types, LinkHeld, Busy
<1>3. pages' \in {pages, pages + 1} /\ pages \in Nat
  BY DEF Mark, IInv, Types
<1>4. \/ pc' = [pc EXCEPT ![w] = "idle"] /\ errs' = errs
      \/ pc' = [pc EXCEPT ![w] = "out"] /\ errs' = errs /\ Full'
      \/ pc' = [pc EXCEPT ![w] = "out"] /\ errs' = errs + 1
  BY DEF Mark
<1>5. Types'
  <2>1. /\ pc' \in [W -> {"idle", "busy", "marking", "out"}]
        /\ link' \in [W -> Links \cup {None}]
    BY <1>1, <1>2, <1>4 DEF IInv, Types
  <2>2. errs' \in Nat /\ pages' \in Nat /\ visited' \subseteq Links
    BY <1>1, <1>2, <1>3, <1>4 DEF IInv, Types
  <2>3. QED
    BY <1>1, <2>1, <2>2 DEF IInv, Types, envVars
<1>6. Busy' = Busy \ {w} /\ w \notin Out
  BY <1>1, <1>2, <1>4 DEF Busy, Out
<1>7. \/ pc' = [pc EXCEPT ![w] = "idle"] /\ Out' = Out
      \/ pc' = [pc EXCEPT ![w] = "out"] /\ Out' = Out \cup {w}
  BY <1>1, <1>2, <1>4 DEF Out
<1>8. LinkHeld' /\ Depth'
  BY <1>1, <1>6 DEF IInv, LinkHeld, Depth, Types
<1>9. Room'
  <2>1. Cardinality(Busy') = Cardinality(Busy) - 1 /\ Cardinality(Busy) \in Nat
        /\ Cardinality(W) \in Nat
    BY <1>2, <1>6, OneLess, SubsetFacts, SetsOfWorkers, WFinite
  <2>2. QED
    BY <1>3, <2>1 DEF IInv, Room
<1>10. Repeats'
  <2> SUFFICES ASSUME ~cleared, NEW v \in Links
               PROVE  /\ v \notin visited' => tries[v] <= Cardinality(Holders(v)')
                      /\ tries[v] <= Cardinality(W)
    BY <1>1 DEF Repeats, envVars
  <2>1. /\ v \notin visited => tries[v] <= Cardinality(Holders(v))
        /\ tries[v] <= Cardinality(W)
    BY DEF IInv, Repeats
  <2>2. CASE v = link[w]
    BY <1>1, <2>1, <2>2
  <2>3. CASE v # link[w]
    <3>1. Holders(v)' = Holders(v)
      BY <1>1, <2>3 DEF Holders, IInv, Types
    <3>2. QED
      BY <1>1, <2>1, <3>1
  <2>4. QED
    BY <2>2, <2>3
<1>11. Errors'
  <2>1. Cardinality(Out \cup {w}) = Cardinality(Out) + 1 /\ Cardinality(Out) \in Nat
    BY <1>6, OneMore, SubsetFacts, SetsOfWorkers
  <2>2. CASE Out' = Out /\ errs' = errs
    BY <2>2 DEF IInv, Errors
  <2>3. CASE Out' = Out \cup {w} /\ errs' \in {errs, errs + 1}
    BY <2>1, <2>3 DEF IInv, Errors, Types
  <2>4. "idle" # "out"
    OBVIOUS
  <2>5. QED
    BY <1>2, <1>4, <1>7, <2>2, <2>3
<1>12. Reason'
  <2> SUFFICES ASSUME Out' # {} PROVE jobs = <<>> \/ halted \/ Full' \/ errs' > 0
    BY <1>1 DEF Reason
  <2>1. errs' >= errs /\ errs \in Nat /\ (Full => Full')
    BY <1>3, <1>4 DEF IInv, Types, Full
  <2>2. CASE Out # {}
    <3>1. jobs = <<>> \/ halted \/ Full \/ errs > 0
      BY <2>2 DEF IInv, Reason
    <3>2. errs > 0 => errs' > 0
      BY <1>4, <2>1
    <3>3. QED
      BY <2>1, <3>1, <3>2
  <2>3. CASE Out = {}
    BY <1>2, <1>4, <1>7, <2>1, <2>3
  <2>4. QED
    BY <2>2, <2>3
<1>13. QED
  BY <1>5, <1>8, <1>9, <1>10, <1>11, <1>12 DEF IInv

(***************************************************************************)
(* The depth loop and what happens around it.                              *)
(***************************************************************************)
LEMMA DepthStep ==
    ASSUME IInv, NextDepth PROVE IInv'
<1>1. /\ AllOut /\ errs = 0 /\ newLinks' = <<>>
      /\ UNCHANGED <<link, result, pages, visited, errs, envVars, tries>>
  BY DEF NextDepth
<1>2. Kept \in Seq(Links)
  <2>1. newLinks \in Seq(Links) /\ pages \in Nat
    BY DEF IInv, Types
  <2>2. MaxLinks > 0 /\ pages < MaxLinks /\ pages + Len(newLinks) > MaxLinks
        => SubSeq(newLinks, 1, MaxLinks - pages) \in Seq(Links)
    BY <2>1, SubSeqProperties
  <2>3. QED
    BY <2>1, <2>2 DEF Kept
<1>3. left' \in Nat /\ (phase' = "crawl" => left' > 0)
  <2>1. left \in Nat /\ left' \in {left, left - 1}
    BY DEF NextDepth, IInv, Types
  <2>2. left > 0 /\ (phase' = "crawl" => left' > 0)
    BY DEF NextDepth, IInv, Depth
  <2>3. QED
    BY <2>1, <2>2
<1>4. \/ /\ jobs' = Kept /\ pc' = [v \in W |-> "idle"] /\ halted' = FALSE /\ phase' = phase
      \/ /\ phase' = "done" /\ UNCHANGED <<jobs, pc, halted>>
  BY DEF NextDepth
<1>5. Types'
  <2>1. /\ pc' \in [W -> {"idle", "busy", "marking", "out"}]
        /\ jobs' \in Seq(Links) /\ halted' \in BOOLEAN
        /\ phase' \in {"crawl", "done", "failed", "crashed"}
    BY <1>2, <1>4 DEF IInv, Types
  <2>2. newLinks' \in Seq(Links)
    BY <1>1
  <2>3. QED
    BY <1>1, <1>3, <2>1, <2>2 DEF IInv, Types, envVars
<1>6. Busy = {}
  BY <1>1 DEF AllOut, Busy
<1>7. Busy' = {} /\ (Out' = {} \/ (Out' = Out /\ UNCHANGED <<jobs, halted>>))
  BY <1>4, <1>6 DEF Busy, Out
<1>8. LinkHeld' /\ Room' /\ Repeats'
  BY <1>1, <1>6, <1>7 DEF IInv, LinkHeld, Room, Repeats, Holders, envVars
<1>9. Errors'
  BY <1>1, <1>7, SubsetFacts, SetsOfWorkers, NoWorker DEF IInv, Errors
<1>10. Reason'
  BY <1>1, <1>7 DEF IInv, Reason, Full
<1>11. QED
  BY <1>3, <1>5, <1>8, <1>9, <1>10 DEF IInv, Depth

LEMMA AroundStep ==
    ASSUME IInv, MapCrash \/ Failed \/ Timeout \/ CloseSession \/ Reset PROVE IInv'
<1>1. UNCHANGED <<left, jobs, pc, link, result, pages, errs, halted, tries>>
  BY DEF MapCrash, Failed, Timeout, CloseSession, Reset, loop, envVars
<1>2. /\ phase' \in {"crawl", "done", "failed", "crashed"}
      /\ newLinks' \in Seq(Links) /\ visited' \subseteq Links
      /\ stop' \in BOOLEAN /\ late' \in BOOLEAN /\ cleared' \in BOOLEAN
      /\ ~cleared' => ~cleared /\ visited' = visited
      /\ phase' = "crawl" => phase = "crawl"
  <2>1. Types
    BY DEF IInv
  <2>2. CASE MapCrash \/ Failed
    BY <2>1, <2>2 DEF MapCrash, Failed, envVars, Types
  <2>3. CASE Timeout \/ Reset
    BY <2>1, <2>3 DEF Timeout, Reset, loop, Types
  <2>4. CASE CloseSession
    <3>1. phase' \in {"crawl", "crashed"} /\ phase = "crawl"
      BY <2>4 DEF CloseSession
    <3>2. QED
      BY <2>1, <2>4, <3>1 DEF CloseSession, Types
  <2>5. QED
    BY <2>2, <2>3, <2>4
<1>3. Types'
  BY <1>1, <1>2 DEF IInv, Types
<1>4. LinkHeld' /\ Room' /\ Errors' /\ Reason' /\ Depth'
  BY <1>1, <1>2 DEF IInv, LinkHeld, Room, Errors, Reason, Depth, Busy, Out, Full
<1>5. Repeats'
  BY <1>1, <1>2 DEF IInv, Repeats, Holders
<1>6. QED
  BY <1>3, <1>4, <1>5 DEF IInv

LEMMA NextIInv == IInv /\ [Next]_vars => IInv'
<1> SUFFICES ASSUME IInv, [Next]_vars PROVE IInv'
  OBVIOUS
<1>1. ASSUME NEW w \in W, WorkerStep(w) PROVE IInv'
  <2>1. CASE Receive(w)
    <3>1. pc' = pc \/ pc' = [pc EXCEPT ![w] = "out"] \/ pc' = [pc EXCEPT ![w] = "busy"]
      BY <2>1 DEF Receive
    <3>2. QED
      BY <2>1, <3>1, LoadStep, IdleStep
  <2>2. CASE Drained(w)
    BY <2>2, IdleStep DEF Drained
  <2>3. CASE Process(w)
    BY <2>3, ProcessStep
  <2>4. CASE Mark(w)
    BY <2>4, MarkStep
  <2>5. QED
    BY <1>1, <2>1, <2>2, <2>3, <2>4 DEF WorkerStep
<1>2. CASE NextDepth
  BY <1>2, DepthStep
<1>3. CASE MapCrash \/ Failed \/ Timeout \/ CloseSession \/ Reset
  BY <1>3, AroundStep
<1>4. CASE UNCHANGED vars
  <2>1. Types' /\ Depth'
    BY <1>4 DEF vars, IInv, Types, Depth
  <2>2. LinkHeld' /\ Room' /\ Errors' /\ Reason'
    BY <1>4 DEF vars, IInv, LinkHeld, Room, Errors, Reason, Busy, Out, Full
  <2>3. Repeats'
    BY <1>4 DEF vars, IInv, Repeats, Holders
  <2>4. QED
    BY <2>1, <2>2, <2>3 DEF IInv
<1>5. QED
  BY <1>1, <1>2, <1>3, <1>4 DEF Next

LEMMA AlwaysIInv == ASSUME W # {} PROVE Spec => []IInv
<1>1. Init => IInv
  BY InitIInv
<1>2. QED
  BY <1>1, NextIInv, PTL DEF Spec

(***************************************************************************)
(* The theorems.                                                           *)
(***************************************************************************)
(* Types; in particular the error channel, which has room for one error    *)
(* of each worker, never blocks one.                                       *)
THEOREM WorkerTypes == ASSUME W # {} PROVE Spec => []TypeOK
<1>1. IInv => TypeOK
  <2>1. Cardinality(Out) \in Nat /\ Cardinality(Out) <= Workers - Used /\ Workers - Used \in Nat
    BY SubsetFacts, SetsOfWorkers, WFinite
  <2>2. QED
    BY <2>1 DEF IInv, Types, Errors, TypeOK
<1>2. QED
  BY <1>1, AlwaysIInv, PTL

(* The workers overshoot MaxLinks by less than their number.               *)
THEOREM Overshoot == ASSUME W # {} PROVE Spec => []PagesBounded
<1>1. IInv => PagesBounded
  <2>1. Cardinality(Busy) \in Nat /\ Cardinality(W) \in Nat
    BY SubsetFacts, SetsOfWorkers, WFinite
  <2>2. QED
    BY <2>1 DEF IInv, Types, Room, PagesBounded
<1>2. QED
  BY <1>1, AlwaysIInv, PTL

(* A page is loaded at most once by each worker before the map is cleared. *)
THEOREM FewRepeats == ASSUME W # {} PROVE Spec => []PageRepeats
<1>1. IInv => PageRepeats
  BY DEF IInv, Repeats, PageRepeats
<1>2. QED
  BY <1>1, AlwaysIInv, PTL

(* Links are left in the channel only for one of the three reasons.        *)
THEOREM LinksTried == ASSUME W # {} PROVE Spec => []AllLinksTried
<1>1. IInv => AllLinksTried
  BY DEF IInv, Reason, AllLinksTried, AllOut, Out
<1>2. QED
  BY <1>1, AlwaysIInv, PTL
=============================================================================
