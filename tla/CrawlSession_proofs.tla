------------------------ MODULE CrawlSession_proofs -------------------------
(***************************************************************************)
(* Proofs about CrawlSession, for any number of crawls, pipelines, VDIs    *)
(* and status entries.                                                     *)
(***************************************************************************)
EXTENDS CrawlSession, TLAPS

Early == {"init", "reconnect", "work", "reopen"}
Closing == {"closing", "quitting", "record"}

(* Before its browser is there, nothing of a crawl but startCrawling is.   *)
Before(c) ==
    /\ outer[c] \in {"new", "acquire", "noVDI"} => lease[c] = None
    /\ outer[c] = "start" => lease[c] = vdi[c] /\ vdi[c] # None
    /\ outer[c] \in {"new", "acquire", "noVDI", "start"} =>
         /\ inner[c] = "off" /\ net[c] = "off" /\ sent[c] = 0 /\ ~returned[c]
         /\ browser[c] = None /\ c \notin late /\ c \notin failed
    /\ outer[c] # "new" => idx[c] \in Entries

(* Only the timer lets CrawlWebsite go on before the inner goroutine ends, *)
(* which does not touch the browser once it has returned the VDI.          *)
Order(c) ==
    /\ c \notin late /\ inner[c] \notin {"off", "gone"} => outer[c] = "select"
    /\ c \notin late /\ inner[c] \in Early => sent[c] = 0 /\ lease[c] = vdi[c]
    /\ c \notin late /\ sent[c] = 1 => browser[c] = None
    /\ outer[c] = "select" => inner[c] # "off"
    /\ browser[c] # None => lease[c] = browser[c] \/ c \in late

(* Who has set the returned flag has sent the VDI back or is doing so.     *)
Return(c) ==
    /\ returned[c] => \/ lease[c] = None \/ sent[c] = 1
                      \/ opLock[c] = "inner" /\ inner[c] = "quitting"
                      \/ opLock[c] = "outer" /\ outer[c] = "quitting"
    /\ outer[c] \in {"record", "closed"} => lease[c] = None \/ sent[c] = 1
    /\ outer[c] = "closed" => row[c] # "processing"

(* A crawl that timed out failed, and is recorded so.                      *)
Late(c) ==
    c \in late =>
        /\ c \in failed /\ outer[c] \in Closing \cup {"closed"}
        /\ outer[c] \in Closing => outcome[c] = "error"
        /\ outer[c] = "closed" => row[c] = "error"

(* Network collection, and when it is over.                                *)
Net(c) ==
    /\ inner[c] \in {"off", "init", "reconnect"} => net[c] = "off"
    /\ inner[c] = "gone" /\ c \notin failed => net[c] = "done"

Life(c) == Before(c) /\ Order(c) /\ Return(c) /\ Late(c) /\ Net(c)

(* A crawl alone on its entry: the entry, then the err of CrawlWebsite,    *)
(* then the row tell whether it failed.                                    *)
Told(c) ==
    c \notin shared =>
        /\ outer[c] \in {"acquire", "start"} =>
             ~entry[idx[c]].err /\ entry[idx[c]].run # 3
        /\ outer[c] = "select" =>
             /\ c \in failed <=> entry[idx[c]].err
             /\ entry[idx[c]].run = 3 => entry[idx[c]].err
        /\ outer[c] \in Closing => (outcome[c] = "error" <=> c \in failed)
        /\ outer[c] = "closed" => (row[c] = "error" <=> c \in failed)

(* Such a crawl is alone on it.                                            *)
Apart(c, d) == c \notin shared /\ Live(c) /\ Live(d) /\ c # d => idx[c] # idx[d]

IInv ==
    /\ TypeOK
    /\ \A c \in Crawls : Life(c) /\ Told(c)
    /\ \A c, d \in Crawls : Apart(c, d)

USE NoneAssumption, BoundAssumption DEF NoneAssumption, BoundAssumption

(* Nothing has begun.                                                      *)
LEMMA InitInv == Init => IInv
  BY DEF Init, IInv, TypeOK, Life, Before, Order, Return, Late, Net, Told, Apart, Live,
         Entries, Status, Unused, Closing, Early

(***************************************************************************)
(* What a step of one crawl leaves to the others.                          *)
(***************************************************************************)
(* Everything of crawl d is as it was, but perhaps its entry.              *)
Same(d) ==
    /\ outer'[d] = outer[d] /\ inner'[d] = inner[d] /\ net'[d] = net[d]
    /\ outcome'[d] = outcome[d] /\ lease'[d] = lease[d] /\ vdi'[d] = vdi[d]
    /\ browser'[d] = browser[d] /\ returned'[d] = returned[d] /\ opLock'[d] = opLock[d]
    /\ sent'[d] = sent[d] /\ row'[d] = row[d]
    /\ d \in late' <=> d \in late
    /\ d \in failed' <=> d \in failed

(* A crawl whose state a step leaves alone keeps its part of IInv.         *)
LEMMA SameLife ==
    ASSUME NEW d \in Crawls, Same(d), Life(d), idx'[d] = idx[d]
    PROVE  Life(d)'
  BY DEF Same, Life, Before, Order, Return, Late, Net, Entries

(* A step of crawl c after it has been taken, which writes to no entry but *)
(* its own.                                                                *)
Own(c) ==
    /\ Live(c)' => Live(c)
    /\ idx' = idx /\ shared' = shared
    /\ \A d \in Crawls \ {c} : Same(d)
    /\ \/ entry' = entry
       \/ Live(c) /\ \A i \in Entries \ {idx[c]} : entry'[i] = entry[i]

(* For a step of crawl c, only what IInv says of c has to be shown.        *)
LEMMA OwnStep ==
    ASSUME IInv, NEW c \in Crawls, Own(c), TypeOK', Life(c)', Told(c)'
    PROVE  IInv'
<1>1. \A d \in Crawls : Life(d)'
  <2> SUFFICES ASSUME NEW d \in Crawls, d # c PROVE Life(d)'
    OBVIOUS
  <2> QED
    BY SameLife DEF IInv, Own
<1>2. \A d \in Crawls : Live(d)' => Live(d)
  <2> SUFFICES ASSUME NEW d \in Crawls, d # c PROVE Live(d)' => Live(d)
    BY DEF Own
  <2> QED
    BY DEF Own, Live, Same
<1>3. \A d \in Crawls : Told(d)'
  <2> SUFFICES ASSUME NEW d \in Crawls, d # c, d \notin shared PROVE Told(d)'
    BY DEF Told, Own
  <2>1. Same(d) /\ Told(d) /\ idx'[d] = idx[d] /\ Life(d)
    BY DEF Own, IInv
  <2>2. CASE outer[d] \in {"acquire", "start", "select"}
    <3>1. idx[d] \in Entries /\ Live(d)
      BY <2>1, <2>2 DEF Life, Before, Live
    <3>2. ~Live(c) \/ idx[d] # idx[c]
      BY <3>1 DEF IInv, Apart
    <3>3. entry'[idx[d]] = entry[idx[d]]
      BY <3>1, <3>2 DEF Own
    <3> QED
      BY <2>1, <2>2, <3>3 DEF Told, Same, Own, Closing
  <2>3. CASE outer[d] \notin {"acquire", "start", "select"}
    BY <2>1, <2>3 DEF Told, Same, Own, Closing
  <2> QED
    BY <2>2, <2>3
<1>4. \A d, x \in Crawls : Apart(d, x)'
  BY <1>2 DEF IInv, Apart, Own
<1> QED
  BY <1>1, <1>3, <1>4 DEF IInv

(* Each field written at the end of a crawl has its type.                  *)
LEMMA StatusField ==
    ASSUME NEW e \in Status
    PROVE  /\ [e EXCEPT !.run = 2] \in Status /\ [e EXCEPT !.run = 3] \in Status
           /\ [e EXCEPT !.crawl = FALSE] \in Status
           /\ [e EXCEPT !.err = FALSE] \in Status /\ [e EXCEPT !.err = TRUE] \in Status
<1>1. [e EXCEPT !.run = 2] \in Status
  BY DEF Status
<1>2. [e EXCEPT !.run = 3] \in Status
  BY DEF Status
<1>3. [e EXCEPT !.crawl = FALSE] \in Status
  BY DEF Status
<1>4. [e EXCEPT !.err = FALSE] \in Status
  BY DEF Status
<1>5. [e EXCEPT !.err = TRUE] \in Status
  BY DEF Status
<1> QED
  BY <1>1, <1>2, <1>3, <1>4, <1>5

(* So have they together.                                                  *)
LEMMA FailedStatus ==
    ASSUME NEW e \in Status
    PROVE  /\ [e EXCEPT !.run = 3, !.crawl = FALSE, !.err = TRUE] \in Status
           /\ [e EXCEPT !.run = 3, !.err = TRUE] \in Status
           /\ [e EXCEPT !.run = 2, !.err = FALSE] \in Status
<1> DEFINE two == [e EXCEPT !.run = 2]
           three == [e EXCEPT !.run = 3]
           still == [three EXCEPT !.crawl = FALSE]
<1>1. two \in Status /\ three \in Status
  BY StatusField
<1>2. still \in Status
  BY <1>1, StatusField
<1> HIDE DEF two, three, still
<1>3. /\ [still EXCEPT !.err = TRUE] \in Status
      /\ [three EXCEPT !.err = TRUE] \in Status
      /\ [two EXCEPT !.err = FALSE] \in Status
  BY <1>1, <1>2, StatusField
<1> QED
  BY <1>3 DEF two, three, still

(***************************************************************************)
(* The steps of a crawl, one lemma each.                                   *)
(***************************************************************************)
(* startCrawling: the lease begins and is the VDI of the crawl.            *)
LEMMA AcquireInv ==
    ASSUME IInv, NEW c \in Crawls, Acquire(c)
    PROVE  IInv'
<1> USE DEF Acquire, Mark, Pool!Take, pipeVars, goVars, vdiVars, histVars
<1>1. TypeOK /\ Life(c) /\ Told(c) /\ idx[c] \in Entries
  BY DEF IInv, Life, Before, Order, Net, TypeOK, Early
<1>2. Own(c)
  BY <1>1 DEF Own, Same, Live, TypeOK, Early
<1>3. TypeOK'
  <2>1. entry[idx[c]] \in Status
    BY <1>1 DEF TypeOK
  <2>2. entry' \in [Entries -> Status]
    BY <1>1, <2>1 DEF TypeOK, Status
  <2> QED
    BY <1>1, <2>2 DEF TypeOK
<1>4. Life(c)'
  BY <1>1 DEF TypeOK, Life, Before, Order, Return, Late, Net, Early, Closing
<1>5. Told(c)'
  BY <1>1 DEF TypeOK, Status, Life, Before, Order, Late, Net, Told, Early, Closing
<1> QED
  BY <1>2, <1>3, <1>4, <1>5, OwnStep

(* startCrawling without a VDI.                                            *)
LEMMA AcquireFailInv ==
    ASSUME IInv, NEW c \in Crawls, AcquireFail(c)
    PROVE  IInv'
<1> USE DEF AcquireFail, pipeVars, goVars, vdiVars, histVars
<1>1. TypeOK /\ Life(c) /\ Told(c) /\ idx[c] \in Entries
  BY DEF IInv, Life, Before, Order, Net, TypeOK, Early
<1>2. Own(c)
  BY <1>1 DEF Own, Same, Live, TypeOK, Early
<1>3. TypeOK'
  BY <1>1 DEF TypeOK
<1>4. Life(c)'
  BY <1>1 DEF TypeOK, Life, Before, Order, Return, Late, Net, Early, Closing
<1>5. Told(c)'
  BY <1>1 DEF TypeOK, Status, Life, Before, Order, Late, Net, Told, Early, Closing
<1> QED
  BY <1>2, <1>3, <1>4, <1>5, OwnStep

(* startCrawling: the lease ends, after the browser unless late.           *)
LEMMA GiveBackInv ==
    ASSUME IInv, NEW c \in Crawls, GiveBack(c)
    PROVE  IInv'
<1> USE DEF GiveBack, Pool!Give, pipeVars, goVars, vdiVars, histVars
<1>1. TypeOK /\ Life(c) /\ Told(c)
  BY DEF IInv
<1>2. Own(c)
  BY <1>1 DEF Own, Same, Live, TypeOK, Early
<1>3. TypeOK'
  BY <1>1 DEF TypeOK
<1>4. Life(c)'
  BY <1>1 DEF TypeOK, Life, Before, Order, Return, Late, Net, Early, Closing
<1>5. Told(c)'
  BY <1>1 DEF TypeOK, Status, Life, Before, Order, Late, Net, Told, Early, Closing
<1> QED
  BY <1>2, <1>3, <1>4, <1>5, OwnStep

(* CrawlWebsite of a network source: no browser, no failure.               *)
LEMMA StartNetworkInv ==
    ASSUME IInv, NEW c \in Crawls, StartNetwork(c)
    PROVE  IInv'
<1> USE DEF StartNetwork, Mark, pipeVars, goVars, vdiVars, histVars
<1>1. TypeOK /\ Life(c) /\ Told(c) /\ idx[c] \in Entries
  BY DEF IInv, Life, Before, Order, Net, TypeOK, Early
<1>2. Own(c)
  BY <1>1 DEF Own, Same, Live, TypeOK, Early
<1>3. TypeOK'
  <2>1. entry[idx[c]] \in Status
    BY <1>1 DEF TypeOK
  <2>2. entry' \in [Entries -> Status]
    BY <1>1, <2>1 DEF TypeOK, Status
  <2> QED
    BY <1>1, <2>2 DEF TypeOK
<1>4. Life(c)'
  BY <1>1 DEF TypeOK, Life, Before, Order, Return, Late, Net, Early, Closing
<1>5. Told(c)'
  BY <1>1 DEF TypeOK, Status, Life, Before, Order, Late, Net, Told, Early, Closing
<1> QED
  BY <1>2, <1>3, <1>4, <1>5, OwnStep

(* CrawlWebsite of a mailbox: err and the entry agree.                     *)
LEMMA StartEmailInv ==
    ASSUME IInv, NEW c \in Crawls, StartEmail(c)
    PROVE  IInv'
<1> USE DEF StartEmail, Mark, pipeVars, goVars, vdiVars, histVars
<1>1. TypeOK /\ Life(c) /\ Told(c) /\ idx[c] \in Entries
  BY DEF IInv, Life, Before, Order, Net, TypeOK, Early
<1>2. Own(c)
  BY <1>1 DEF Own, Same, Live, TypeOK, Early
<1>3. TypeOK'
  <2>1. entry[idx[c]] \in Status
    BY <1>1 DEF TypeOK
  <2>2. entry' \in [Entries -> Status]
    <3>1. PICK ok \in BOOLEAN :
            entry' = [entry EXCEPT ![idx[c]] =
                        [entry[idx[c]] EXCEPT !.run = IF ok THEN 2 ELSE 3, !.err = ~ok]]
      OBVIOUS
    <3>2. CASE ok
      <4>1. entry' = [entry EXCEPT ![idx[c]] =
                        [entry[idx[c]] EXCEPT !.run = 2, !.err = FALSE]]
        BY <3>1, <3>2
      <4> QED
        BY <4>1, <1>1, <2>1, FailedStatus DEF TypeOK
    <3>3. CASE ~ok
      <4>1. entry' = [entry EXCEPT ![idx[c]] =
                        [entry[idx[c]] EXCEPT !.run = 3, !.err = TRUE]]
        BY <3>1, <3>3
      <4> QED
        BY <4>1, <1>1, <2>1, FailedStatus DEF TypeOK
    <3> QED
      BY <3>2, <3>3
  <2> QED
    BY <1>1, <2>2 DEF TypeOK
<1>4. Life(c)'
  BY <1>1 DEF TypeOK, Life, Before, Order, Return, Late, Net, Early, Closing
<1>5. Told(c)'
  BY <1>1 DEF TypeOK, Status, Life, Before, Order, Late, Net, Told, Early, Closing
<1> QED
  BY <1>2, <1>3, <1>4, <1>5, OwnStep

(* CrawlWebsite of a web source: the browser is on the lease.              *)
LEMMA StartWebInv ==
    ASSUME IInv, NEW c \in Crawls, StartWeb(c)
    PROVE  IInv'
<1> USE DEF StartWeb, Mark, pipeVars, goVars, vdiVars, histVars
<1>1. TypeOK /\ Life(c) /\ Told(c) /\ idx[c] \in Entries
  BY DEF IInv, Life, Before, Order, Net, TypeOK, Early
<1>2. Own(c)
  BY <1>1 DEF Own, Same, Live, TypeOK, Early
<1>3. TypeOK'
  <2>1. entry[idx[c]] \in Status
    BY <1>1 DEF TypeOK
  <2>2. entry' \in [Entries -> Status]
    BY <1>1, <2>1 DEF TypeOK, Status
  <2> QED
    BY <1>1, <2>2 DEF TypeOK
<1>4. Life(c)'
  BY <1>1 DEF TypeOK, Life, Before, Order, Return, Late, Net, Early, Closing
<1>5. Told(c)'
  BY <1>1 DEF TypeOK, Status, Life, Before, Order, Late, Net, Told, Early, Closing
<1> QED
  BY <1>2, <1>3, <1>4, <1>5, OwnStep

(* CrawlWebsite without a session: it fails at once.                       *)
LEMMA ConnectFailsInv ==
    ASSUME IInv, NEW c \in Crawls, ConnectFails(c)
    PROVE  IInv'
<1> USE DEF ConnectFails, Mark, pipeVars, goVars, vdiVars, histVars
<1>1. TypeOK /\ Life(c) /\ Told(c) /\ idx[c] \in Entries
  BY DEF IInv, Life, Before, Order, Net, TypeOK, Early
<1>2. Own(c)
  BY <1>1 DEF Own, Same, Live, TypeOK, Early
<1>3. TypeOK'
  <2>1. entry[idx[c]] \in Status
    BY <1>1 DEF TypeOK
  <2>2. entry' \in [Entries -> Status]
    BY <1>1, <2>1, FailedStatus DEF TypeOK
  <2> QED
    BY <1>1, <2>2 DEF TypeOK
<1>4. Life(c)'
  BY <1>1 DEF TypeOK, Life, Before, Order, Return, Late, Net, Early, Closing
<1>5. Told(c)'
  BY <1>1 DEF TypeOK, Status, Life, Before, Order, Late, Net, Told, Early, Closing
<1> QED
  BY <1>2, <1>3, <1>4, <1>5, OwnStep

(* The timer: from here on the crawl is late and failed.                   *)
LEMMA TimeoutInv ==
    ASSUME IInv, NEW c \in Crawls, Timeout(c)
    PROVE  IInv'
<1> USE DEF Timeout, Mark, Status3, pipeVars, goVars, vdiVars, histVars
<1>1. TypeOK /\ Life(c) /\ Told(c) /\ idx[c] \in Entries
  BY DEF IInv, Life, Before, Order, Net, TypeOK, Early
<1>2. Own(c)
  BY <1>1 DEF Own, Same, Live, TypeOK, Early
<1>3. TypeOK'
  <2>1. entry[idx[c]] \in Status
    BY <1>1 DEF TypeOK
  <2>2. entry' \in [Entries -> Status]
    BY <1>1, <2>1, FailedStatus DEF TypeOK
  <2> QED
    BY <1>1, <2>2 DEF TypeOK
<1>4. Life(c)'
  BY <1>1 DEF TypeOK, Life, Before, Order, Return, Late, Net, Early, Closing
<1>5. Told(c)'
  BY <1>1 DEF TypeOK, Status, Life, Before, Order, Late, Net, Told, Early, Closing
<1> QED
  BY <1>2, <1>3, <1>4, <1>5, OwnStep

(* The select reads the entry, which says whether it failed.               *)
LEMMA InnerDoneInv ==
    ASSUME IInv, NEW c \in Crawls, InnerDone(c)
    PROVE  IInv'
<1> USE DEF InnerDone, pipeVars, goVars, vdiVars, histVars
<1>1. TypeOK /\ Life(c) /\ Told(c) /\ idx[c] \in Entries
  BY DEF IInv, Life, Before, Order, Net, TypeOK, Early
<1>2. Own(c)
  BY <1>1 DEF Own, Same, Live, TypeOK, Early
<1>3. TypeOK'
  BY <1>1 DEF TypeOK
<1>4. Life(c)'
  BY <1>1 DEF TypeOK, Life, Before, Order, Return, Late, Net, Early, Closing
<1>5. Told(c)'
  BY <1>1 DEF TypeOK, Status, Life, Before, Order, Late, Net, Told, Early, Closing
<1> QED
  BY <1>2, <1>3, <1>4, <1>5, OwnStep

(* closeSession returns the VDI, or finds that another does.               *)
LEMMA CloseReturnInv ==
    ASSUME IInv, NEW c \in Crawls, CloseReturn(c)
    PROVE  IInv'
<1> USE DEF CloseReturn, pipeVars, goVars, vdiVars, histVars
<1>1. TypeOK /\ Life(c) /\ Told(c) /\ idx[c] \in Entries
  BY DEF IInv, Life, Before, Order, Net, TypeOK, Early
<1>2. Own(c)
  BY <1>1 DEF Own, Same, Live, TypeOK, Early
<1>3. TypeOK'
  <2>1. outer' \in [Crawls -> {"new", "acquire", "noVDI", "start", "select", "closing",
                             "quitting", "record", "closed"}]
    BY <1>1 DEF TypeOK
  <2>2. returned' \in [Crawls -> BOOLEAN]
    BY <1>1 DEF TypeOK
  <2>3. opLock' \in [Crawls -> {"free", "outer", "inner"}]
    BY <1>1 DEF TypeOK
  <2>4. UNCHANGED <<job, slot, entry, idx, inner, net, outcome, lease, vdi, browser, sent,
                    row, late, failed, shared, hung>>
    OBVIOUS
  <2> HIDE DEF CloseReturn
  <2> QED
    BY <1>1, <2>1, <2>2, <2>3, <2>4 DEF TypeOK
<1>4. Life(c)'
  BY <1>1 DEF TypeOK, Life, Before, Order, Return, Late, Net, Early, Closing
<1>5. Told(c)'
  BY <1>1 DEF TypeOK, Status, Life, Before, Order, Late, Net, Told, Early, Closing
<1> QED
  BY <1>2, <1>3, <1>4, <1>5, OwnStep

(* The browser is quit, then the VDI sent.                                 *)
LEMMA CloseQuitInv ==
    ASSUME IInv, NEW c \in Crawls, CloseQuit(c)
    PROVE  IInv'
<1> USE DEF CloseQuit, Quit, pipeVars, goVars, vdiVars, histVars
<1>1. TypeOK /\ Life(c) /\ Told(c) /\ idx[c] \in Entries
  BY DEF IInv, Life, Before, Order, Net, TypeOK, Early
<1>2. Own(c)
  BY <1>1 DEF Own, Same, Live, TypeOK, Early
<1>3. TypeOK'
  BY <1>1 DEF TypeOK
<1>4. Life(c)'
  BY <1>1 DEF TypeOK, Life, Before, Order, Return, Late, Net, Early, Closing
<1>5. Told(c)'
  BY <1>1 DEF TypeOK, Status, Life, Before, Order, Late, Net, Told, Early, Closing
<1> QED
  BY <1>2, <1>3, <1>4, <1>5, OwnStep

(* closeSession turns err into the outcome of the row.                     *)
LEMMA CloseRecordInv ==
    ASSUME IInv, NEW c \in Crawls, CloseRecord(c)
    PROVE  IInv'
<1> USE DEF CloseRecord, Mark, pipeVars, goVars, vdiVars, histVars
<1>1. TypeOK /\ Life(c) /\ Told(c) /\ idx[c] \in Entries
  BY DEF IInv, Life, Before, Order, Net, TypeOK, Early
<1>2. Own(c)
  BY <1>1 DEF Own, Same, Live, TypeOK, Early
<1>3. TypeOK'
  <2>1. entry[idx[c]] \in Status
    BY <1>1 DEF TypeOK
  <2>2. entry' \in [Entries -> Status]
    BY <1>1, <2>1 DEF TypeOK, Status
  <2> QED
    BY <1>1, <2>2 DEF TypeOK
<1>4. Life(c)'
  BY <1>1 DEF TypeOK, Life, Before, Order, Return, Late, Net, Early, Closing
<1>5. Told(c)'
  BY <1>1 DEF TypeOK, Status, Life, Before, Order, Late, Net, Told, Early, Closing
<1> QED
  BY <1>2, <1>3, <1>4, <1>5, OwnStep

(* The first page fails: the inner goroutine is gone.                      *)
LEMMA InitFailsInv ==
    ASSUME IInv, NEW c \in Crawls, InitFails(c)
    PROVE  IInv'
<1> USE DEF InitFails, Mark, InnerFails, Status3, pipeVars, goVars, vdiVars, histVars
<1>1. TypeOK /\ Life(c) /\ Told(c) /\ idx[c] \in Entries
  BY DEF IInv, Life, Before, Order, Net, TypeOK, Early
<1>2. Own(c)
  BY <1>1 DEF Own, Same, Live, TypeOK, Early
<1>3. TypeOK'
  <2>1. entry[idx[c]] \in Status
    BY <1>1 DEF TypeOK
  <2>2. entry' \in [Entries -> Status]
    BY <1>1, <2>1, FailedStatus DEF TypeOK
  <2> QED
    BY <1>1, <2>2 DEF TypeOK
<1>4. Life(c)'
  BY <1>1 DEF TypeOK, Life, Before, Order, Return, Late, Net, Early, Closing
<1>5. Told(c)'
  BY <1>1 DEF TypeOK, Status, Life, Before, Order, Late, Net, Told, Early, Closing
<1> QED
  BY <1>2, <1>3, <1>4, <1>5, OwnStep

(* Network collection starts with the workers.                             *)
LEMMA RefreshInv ==
    ASSUME IInv, NEW c \in Crawls, Refresh(c)
    PROVE  IInv'
<1> USE DEF Refresh, Mark, StartWork, pipeVars, goVars, vdiVars, histVars
<1>1. TypeOK /\ Life(c) /\ Told(c) /\ idx[c] \in Entries
  BY DEF IInv, Life, Before, Order, Net, TypeOK, Early
<1>2. Own(c)
  BY <1>1 DEF Own, Same, Live, TypeOK, Early
<1>3. TypeOK'
  <2>1. entry[idx[c]] \in Status
    BY <1>1 DEF TypeOK
  <2>2. entry' \in [Entries -> Status]
    BY <1>1, <2>1 DEF TypeOK, Status
  <2> QED
    BY <1>1, <2>2 DEF TypeOK
<1>4. Life(c)'
  BY <1>1 DEF TypeOK, Life, Before, Order, Return, Late, Net, Early, Closing
<1>5. Told(c)'
  BY <1>1 DEF TypeOK, Status, Life, Before, Order, Late, Net, Told, Early, Closing
<1> QED
  BY <1>2, <1>3, <1>4, <1>5, OwnStep

(* The session does not answer.                                            *)
LEMMA SessionLostInv ==
    ASSUME IInv, NEW c \in Crawls, SessionLost(c)
    PROVE  IInv'
<1> USE DEF SessionLost, pipeVars, goVars, vdiVars, histVars
<1>1. TypeOK /\ Life(c) /\ Told(c) /\ idx[c] \in Entries
  BY DEF IInv, Life, Before, Order, Net, TypeOK, Early
<1>2. Own(c)
  BY <1>1 DEF Own, Same, Live, TypeOK, Early
<1>3. TypeOK'
  BY <1>1 DEF TypeOK
<1>4. Life(c)'
  BY <1>1 DEF TypeOK, Life, Before, Order, Return, Late, Net, Early, Closing
<1>5. Told(c)'
  BY <1>1 DEF TypeOK, Status, Life, Before, Order, Late, Net, Told, Early, Closing
<1> QED
  BY <1>2, <1>3, <1>4, <1>5, OwnStep

(* A new session is on the VDI of the crawl, still leased.                 *)
LEMMA ReconnectInv ==
    ASSUME IInv, NEW c \in Crawls, Reconnect(c)
    PROVE  IInv'
<1> USE DEF Reconnect, Mark, NewSession, StartWork, pipeVars, goVars, vdiVars, histVars
<1>1. TypeOK /\ Life(c) /\ Told(c) /\ idx[c] \in Entries
  BY DEF IInv, Life, Before, Order, Net, TypeOK, Early
<1>2. Own(c)
  BY <1>1 DEF Own, Same, Live, TypeOK, Early
<1>3. TypeOK'
  <2>1. entry[idx[c]] \in Status
    BY <1>1 DEF TypeOK
  <2>2. entry' \in [Entries -> Status]
    BY <1>1, <2>1 DEF TypeOK, Status
  <2> QED
    BY <1>1, <2>2 DEF TypeOK
<1>4. Life(c)'
  BY <1>1 DEF TypeOK, Life, Before, Order, Return, Late, Net, Early, Closing
<1>5. Told(c)'
  BY <1>1 DEF TypeOK, Status, Life, Before, Order, Late, Net, Told, Early, Closing
<1> QED
  BY <1>2, <1>3, <1>4, <1>5, OwnStep

(* No new session.                                                         *)
LEMMA ReconnectFailsInv ==
    ASSUME IInv, NEW c \in Crawls, ReconnectFails(c)
    PROVE  IInv'
<1> USE DEF ReconnectFails, Mark, InnerFails, Status3, pipeVars, goVars, vdiVars,
           histVars
<1>1. TypeOK /\ Life(c) /\ Told(c) /\ idx[c] \in Entries
  BY DEF IInv, Life, Before, Order, Net, TypeOK, Early
<1>2. Own(c)
  BY <1>1 DEF Own, Same, Live, TypeOK, Early
<1>3. TypeOK'
  <2>1. entry[idx[c]] \in Status
    BY <1>1 DEF TypeOK
  <2>2. entry' \in [Entries -> Status]
    BY <1>1, <2>1, FailedStatus DEF TypeOK
  <2> QED
    BY <1>1, <2>2 DEF TypeOK
<1>4. Life(c)'
  BY <1>1 DEF TypeOK, Life, Before, Order, Return, Late, Net, Early, Closing
<1>5. Told(c)'
  BY <1>1 DEF TypeOK, Status, Life, Before, Order, Late, Net, Told, Early, Closing
<1> QED
  BY <1>2, <1>3, <1>4, <1>5, OwnStep

(* A worker or the first page asks for a new session.                      *)
LEMMA ReopenInv ==
    ASSUME IInv, NEW c \in Crawls, Reopen(c)
    PROVE  IInv'
<1> USE DEF Reopen, pipeVars, goVars, vdiVars, histVars
<1>1. TypeOK /\ Life(c) /\ Told(c) /\ idx[c] \in Entries
  BY DEF IInv, Life, Before, Order, Net, TypeOK, Early
<1>2. Own(c)
  BY <1>1 DEF Own, Same, Live, TypeOK, Early
<1>3. TypeOK'
  BY <1>1 DEF TypeOK
<1>4. Life(c)'
  BY <1>1 DEF TypeOK, Life, Before, Order, Return, Late, Net, Early, Closing
<1>5. Told(c)'
  BY <1>1 DEF TypeOK, Status, Life, Before, Order, Late, Net, Told, Early, Closing
<1> QED
  BY <1>2, <1>3, <1>4, <1>5, OwnStep

(* It gets one, on the VDI still leased unless late.                       *)
LEMMA ReopenedInv ==
    ASSUME IInv, NEW c \in Crawls, Reopened(c)
    PROVE  IInv'
<1> USE DEF Reopened, NewSession, Unlocked, pipeVars, goVars, vdiVars, histVars
<1>1. TypeOK /\ Life(c) /\ Told(c) /\ idx[c] \in Entries
  BY DEF IInv, Life, Before, Order, Net, TypeOK, Early
<1>2. Own(c)
  BY <1>1 DEF Own, Same, Live, TypeOK, Early
<1>3. TypeOK'
  BY <1>1 DEF TypeOK
<1>4. Life(c)'
  BY <1>1 DEF TypeOK, Life, Before, Order, Return, Late, Net, Early, Closing
<1>5. Told(c)'
  BY <1>1 DEF TypeOK, Status, Life, Before, Order, Late, Net, Told, Early, Closing
<1> QED
  BY <1>2, <1>3, <1>4, <1>5, OwnStep

(* It gets none.                                                           *)
LEMMA ReopenFailsInv ==
    ASSUME IInv, NEW c \in Crawls, ReopenFails(c)
    PROVE  IInv'
<1> USE DEF ReopenFails, Mark, InnerFails, Status3, Unlocked, pipeVars, goVars, vdiVars,
           histVars
<1>1. TypeOK /\ Life(c) /\ Told(c) /\ idx[c] \in Entries
  BY DEF IInv, Life, Before, Order, Net, TypeOK, Early
<1>2. Own(c)
  BY <1>1 DEF Own, Same, Live, TypeOK, Early
<1>3. TypeOK'
  <2>1. entry[idx[c]] \in Status
    BY <1>1 DEF TypeOK
  <2>2. entry' \in [Entries -> Status]
    BY <1>1, <2>1, FailedStatus DEF TypeOK
  <2> QED
    BY <1>1, <2>2 DEF TypeOK
<1>4. Life(c)'
  BY <1>1 DEF TypeOK, Life, Before, Order, Return, Late, Net, Early, Closing
<1>5. Told(c)'
  BY <1>1 DEF TypeOK, Status, Life, Before, Order, Late, Net, Told, Early, Closing
<1> QED
  BY <1>2, <1>3, <1>4, <1>5, OwnStep

(* A critical error of a worker.                                           *)
LEMMA WorkFailsInv ==
    ASSUME IInv, NEW c \in Crawls, WorkFails(c)
    PROVE  IInv'
<1> USE DEF WorkFails, Mark, InnerFails, Status3, pipeVars, goVars, vdiVars, histVars
<1>1. TypeOK /\ Life(c) /\ Told(c) /\ idx[c] \in Entries
  BY DEF IInv, Life, Before, Order, Net, TypeOK, Early
<1>2. Own(c)
  BY <1>1 DEF Own, Same, Live, TypeOK, Early
<1>3. TypeOK'
  <2>1. entry[idx[c]] \in Status
    BY <1>1 DEF TypeOK
  <2>2. entry' \in [Entries -> Status]
    BY <1>1, <2>1, FailedStatus DEF TypeOK
  <2> QED
    BY <1>1, <2>2 DEF TypeOK
<1>4. Life(c)'
  BY <1>1 DEF TypeOK, Life, Before, Order, Return, Late, Net, Early, Closing
<1>5. Told(c)'
  BY <1>1 DEF TypeOK, Status, Life, Before, Order, Late, Net, Told, Early, Closing
<1> QED
  BY <1>2, <1>3, <1>4, <1>5, OwnStep

(* The workers are through.                                                *)
LEMMA WorkDoneInv ==
    ASSUME IInv, NEW c \in Crawls, WorkDone(c)
    PROVE  IInv'
<1> USE DEF WorkDone, Mark, pipeVars, goVars, vdiVars, histVars
<1>1. TypeOK /\ Life(c) /\ Told(c) /\ idx[c] \in Entries
  BY DEF IInv, Life, Before, Order, Net, TypeOK, Early
<1>2. Own(c)
  BY <1>1 DEF Own, Same, Live, TypeOK, Early
<1>3. TypeOK'
  <2>1. entry[idx[c]] \in Status
    BY <1>1 DEF TypeOK
  <2>2. entry' \in [Entries -> Status]
    BY <1>1, <2>1 DEF TypeOK, Status
  <2> QED
    BY <1>1, <2>2 DEF TypeOK
<1>4. Life(c)'
  BY <1>1 DEF TypeOK, Life, Before, Order, Return, Late, Net, Early, Closing
<1>5. Told(c)'
  BY <1>1 DEF TypeOK, Status, Life, Before, Order, Late, Net, Told, Early, Closing
<1> QED
  BY <1>2, <1>3, <1>4, <1>5, OwnStep

(* The inner goroutine returns the VDI, or closeSession does.              *)
LEMMA InnerReturnInv ==
    ASSUME IInv, NEW c \in Crawls, InnerReturn(c)
    PROVE  IInv'
<1> USE DEF InnerReturn, pipeVars, goVars, vdiVars, histVars
<1>1. TypeOK /\ Life(c) /\ Told(c) /\ idx[c] \in Entries
  BY DEF IInv, Life, Before, Order, Net, TypeOK, Early
<1>2. Own(c)
  BY <1>1 DEF Own, Same, Live, TypeOK, Early
<1>3. TypeOK'
  <2>1. inner' \in [Crawls -> {"off", "init", "reconnect", "work", "reopen",
                             "return", "quitting", "netwait", "gone"}]
    BY <1>1 DEF TypeOK
  <2>2. returned' \in [Crawls -> BOOLEAN]
    BY <1>1 DEF TypeOK
  <2>3. opLock' \in [Crawls -> {"free", "outer", "inner"}]
    BY <1>1 DEF TypeOK
  <2>4. UNCHANGED <<job, slot, entry, idx, outer, net, outcome, lease, vdi, browser, sent,
                    row, late, failed, shared, hung>>
    OBVIOUS
  <2> HIDE DEF InnerReturn
  <2> QED
    BY <1>1, <2>1, <2>2, <2>3, <2>4 DEF TypeOK
<1>4. Life(c)'
  BY <1>1 DEF TypeOK, Life, Before, Order, Return, Late, Net, Early, Closing
<1>5. Told(c)'
  BY <1>1 DEF TypeOK, Status, Life, Before, Order, Late, Net, Told, Early, Closing
<1> QED
  BY <1>2, <1>3, <1>4, <1>5, OwnStep

(* As CloseQuit.                                                           *)
LEMMA InnerQuitInv ==
    ASSUME IInv, NEW c \in Crawls, InnerQuit(c)
    PROVE  IInv'
<1> USE DEF InnerQuit, Quit, pipeVars, goVars, vdiVars, histVars
<1>1. TypeOK /\ Life(c) /\ Told(c) /\ idx[c] \in Entries
  BY DEF IInv, Life, Before, Order, Net, TypeOK, Early
<1>2. Own(c)
  BY <1>1 DEF Own, Same, Live, TypeOK, Early
<1>3. TypeOK'
  BY <1>1 DEF TypeOK
<1>4. Life(c)'
  BY <1>1 DEF TypeOK, Life, Before, Order, Return, Late, Net, Early, Closing
<1>5. Told(c)'
  BY <1>1 DEF TypeOK, Status, Life, Before, Order, Late, Net, Told, Early, Closing
<1> QED
  BY <1>2, <1>3, <1>4, <1>5, OwnStep

(* The inner goroutine leaves when network collection is over.             *)
LEMMA InnerEndInv ==
    ASSUME IInv, NEW c \in Crawls, InnerEnd(c)
    PROVE  IInv'
<1> USE DEF InnerEnd, Mark, pipeVars, goVars, vdiVars, histVars
<1>1. TypeOK /\ Life(c) /\ Told(c) /\ idx[c] \in Entries
  BY DEF IInv, Life, Before, Order, Net, TypeOK, Early
<1>2. Own(c)
  BY <1>1 DEF Own, Same, Live, TypeOK, Early
<1>3. TypeOK'
  <2>1. entry[idx[c]] \in Status
    BY <1>1 DEF TypeOK
  <2>2. entry' \in [Entries -> Status]
    BY <1>1, <2>1 DEF TypeOK, Status
  <2> QED
    BY <1>1, <2>2 DEF TypeOK
<1>4. Life(c)'
  BY <1>1 DEF TypeOK, Life, Before, Order, Return, Late, Net, Early, Closing
<1>5. Told(c)'
  BY <1>1 DEF TypeOK, Status, Life, Before, Order, Late, Net, Told, Early, Closing
<1> QED
  BY <1>2, <1>3, <1>4, <1>5, OwnStep

(* Network collection may end after the crawl.                             *)
LEMMA NetDoneInv ==
    ASSUME IInv, NEW c \in Crawls, NetDone(c)
    PROVE  IInv'
<1> USE DEF NetDone, Mark, pipeVars, goVars, vdiVars, histVars
<1>1. TypeOK /\ Life(c) /\ Told(c) /\ idx[c] \in Entries
  BY DEF IInv, Life, Before, Order, Net, TypeOK, Early
<1>2. Own(c)
  BY <1>1 DEF Own, Same, Live, TypeOK, Early
<1>3. TypeOK'
  <2>1. entry[idx[c]] \in Status
    BY <1>1 DEF TypeOK
  <2>2. entry' \in [Entries -> Status]
    BY <1>1, <2>1 DEF TypeOK, Status
  <2> QED
    BY <1>1, <2>2 DEF TypeOK
<1>4. Life(c)'
  BY <1>1 DEF TypeOK, Life, Before, Order, Return, Late, Net, Early, Closing
<1>5. Told(c)'
  BY <1>1 DEF TypeOK, Status, Life, Before, Order, Late, Net, Told, Early, Closing
<1> QED
  BY <1>2, <1>3, <1>4, <1>5, OwnStep

(* A hanging browser changes nothing else.                                 *)
LEMMA HangInv ==
    ASSUME IInv, NEW c \in Crawls, Hang(c)
    PROVE  IInv'
<1> USE DEF Hang, pipeVars, goVars, vdiVars, histVars
<1>1. TypeOK /\ Life(c) /\ Told(c)
  BY DEF IInv
<1>2. Own(c)
  BY <1>1 DEF Own, Same, Live, TypeOK, Early
<1>3. TypeOK'
  BY <1>1 DEF TypeOK
<1>4. Life(c)'
  BY <1>1 DEF TypeOK, Life, Before, Order, Return, Late, Net, Early, Closing
<1>5. Told(c)'
  BY <1>1 DEF TypeOK, Status, Life, Before, Order, Late, Net, Told, Early, Closing
<1> QED
  BY <1>2, <1>3, <1>4, <1>5, OwnStep

(***************************************************************************)
(* The steps that are not a crawl's.                                       *)
(***************************************************************************)
(* A pipeline overwrites an entry: others that use it are shared.          *)
LEMMA TakeInv ==
    ASSUME IInv, NEW p \in Pipelines, NEW c \in Crawls, Take(p, c)
    PROVE  IInv'
<1> USE DEF Take, vdiVars
<1>1. TypeOK /\ Life(c) /\ ~Live(c)
  BY DEF IInv, Life, Before, Live
<1>2. PICK i \in Entries :
        LET others == {d \in Crawls : idx[d] = i /\ Live(d)} IN
        /\ entry' = [entry EXCEPT ![i] = Fresh]
        /\ idx' = [idx EXCEPT ![c] = i]
        /\ slot' = [slot EXCEPT ![p] = i]
        /\ shared' = shared \cup others \cup (IF others = {} THEN {} ELSE {c})
  OBVIOUS
<1>3. TypeOK'
  <2>1. Fresh \in Status
    <3>1. Unused \in Status
      BY DEF Unused, Status
    <3>2. \A e \in Status : [e EXCEPT !.run = 1] \in Status
      BY DEF Status
    <3> QED
      BY <3>1, <3>2 DEF Fresh
  <2> QED
    BY <1>1, <1>2, <2>1 DEF TypeOK
<1>4. \A d \in Crawls \ {c} : Same(d) /\ idx'[d] = idx[d] /\ Live(d)' = Live(d)
  BY <1>1, <1>2 DEF Same, TypeOK, Live
<1>5. /\ idx'[c] = i /\ entry'[i] = Fresh
      /\ \A d \in Crawls : idx[d] = i /\ Live(d) => d \in shared' /\ c \in shared'
      /\ shared \subseteq shared'
  BY <1>1, <1>2 DEF TypeOK
<1>6. \A d \in Crawls : Life(d)'
  <2>1. Life(c)'
    BY <1>1, <1>5 DEF TypeOK, Life, Before, Order, Return, Late, Net, Early, Closing
  <2> QED
    BY <1>4, <2>1, SameLife DEF IInv
<1>7. \A d \in Crawls : Told(d)'
  <2>1. Told(c)'
    BY <1>1, <1>5 DEF TypeOK, Told, Fresh, Unused, Closing
  <2> SUFFICES ASSUME NEW d \in Crawls, d # c, d \notin shared' PROVE Told(d)'
    BY <2>1 DEF Told
  <2>2. Same(d) /\ Told(d) /\ idx'[d] = idx[d] /\ Life(d) /\ d \notin shared
    BY <1>4, <1>5 DEF IInv
  <2>3. CASE outer[d] \in {"acquire", "start", "select"}
    <3>1. idx[d] \in Entries /\ idx[d] # i
      BY <1>5, <2>2, <2>3 DEF Life, Before, Live
    <3>2. entry'[idx[d]] = entry[idx[d]]
      BY <1>1, <1>2, <3>1 DEF TypeOK
    <3> QED
      BY <2>2, <2>3, <3>2 DEF Told, Same, Closing
  <2>4. CASE outer[d] \notin {"acquire", "start", "select"}
    BY <2>2, <2>4 DEF Told, Same, Closing
  <2> QED
    BY <2>3, <2>4
<1>8. \A d, x \in Crawls : Apart(d, x)'
  BY <1>4, <1>5 DEF IInv, Apart
<1> QED
  BY <1>3, <1>6, <1>7, <1>8 DEF IInv

(* The pipeline goes on; nothing of the crawl changes.                     *)
LEMMA ReleasedInv ==
    ASSUME IInv, NEW p \in Pipelines, Released(p)
    PROVE  IInv'
<1> USE DEF Released, goVars, vdiVars, histVars
<1>1. TypeOK'
  BY DEF IInv, TypeOK
<1>2. \A d \in Crawls : Life(d)' /\ Told(d)'
  BY DEF IInv, Life, Before, Order, Return, Late, Net, Told
<1>3. \A d, x \in Crawls : Apart(d, x)'
  BY DEF IInv, Apart, Live
<1> QED
  BY <1>1, <1>2, <1>3 DEF IInv

(* A report clears a status, but not the error it holds.                   *)
LEMMA ReportInv ==
    ASSUME IInv, NEW i \in Entries, Report(i)
    PROVE  IInv'
<1> USE DEF Report, pipeVars, goVars, vdiVars, histVars
<1>1. TypeOK /\ entry[i] \in Status
  BY DEF IInv, TypeOK
<1>2. TypeOK'
  <2>1. [entry[i] EXCEPT !.run = 0] \in Status
    BY <1>1 DEF Status
  <2> QED
    BY <1>1, <2>1 DEF TypeOK
<1>3. \A d \in Crawls : Life(d)'
  <2> SUFFICES ASSUME NEW d \in Crawls PROVE Life(d)'
    OBVIOUS
  <2> QED
    BY SameLife DEF IInv, Same
<1>4. \A d \in Crawls : Told(d)'
  <2> SUFFICES ASSUME NEW d \in Crawls PROVE Told(d)'
    OBVIOUS
  <2>1. outer[d] # "new" => idx[d] \in Entries
    BY DEF IInv, Life, Before
  <2>2. \A k \in Entries : /\ entry'[k].err = entry[k].err
                           /\ entry'[k].run = 3 => entry[k].run = 3
    BY <1>1 DEF TypeOK, Status
  <2> QED
    BY <2>1, <2>2 DEF IInv, Told, Closing
<1>5. \A d, x \in Crawls : Apart(d, x)'
  BY DEF IInv, Apart, Live
<1> QED
  BY <1>2, <1>3, <1>4, <1>5 DEF IInv

(* A stuttering step.                                                      *)
LEMMA StutterInv == IInv /\ UNCHANGED vars => IInv'
<1> SUFFICES ASSUME IInv, UNCHANGED vars PROVE IInv'
  OBVIOUS
<1>1. TypeOK'
  BY DEF IInv, TypeOK, vars
<1>2. \A d \in Crawls : Life(d)' /\ Told(d)'
  BY DEF IInv, Life, Before, Order, Return, Late, Net, Told, vars
<1>3. \A d, x \in Crawls : Apart(d, x)'
  BY DEF IInv, Apart, Live, vars
<1> QED
  BY <1>1, <1>2, <1>3 DEF IInv

(***************************************************************************)
(* The invariant, and what follows from it.                                *)
(***************************************************************************)
(* Every step keeps IInv.                                                  *)
LEMMA NextInv == IInv /\ [Next]_vars => IInv'
<1> SUFFICES ASSUME IInv, [Next]_vars PROVE IInv'
  OBVIOUS
<1>1. CASE \E p \in Pipelines : Released(p)
  BY <1>1, ReleasedInv
<1>2. CASE \E p \in Pipelines, c \in Crawls : Take(p, c)
  BY <1>2, TakeInv
<1>3. CASE \E i \in Entries : Report(i)
  BY <1>3, ReportInv
<1>4. CASE \E c \in Crawls : OuterStep(c)
  BY <1>4, AcquireInv, AcquireFailInv, StartNetworkInv, StartEmailInv,
     StartWebInv, ConnectFailsInv, TimeoutInv, InnerDoneInv, CloseReturnInv,
     CloseQuitInv, CloseRecordInv
     DEF OuterStep
<1>5. CASE \E c \in Crawls : InnerStep(c)
  BY <1>5, InitFailsInv, RefreshInv, SessionLostInv, ReconnectInv,
     ReconnectFailsInv, ReopenInv, ReopenedInv, ReopenFailsInv, WorkFailsInv,
     WorkDoneInv, InnerReturnInv, InnerQuitInv, InnerEndInv
     DEF InnerStep
<1>6. CASE \E c \in Crawls : GiveBack(c) \/ NetDone(c) \/ Hang(c)
  BY <1>6, GiveBackInv, NetDoneInv, HangInv
<1>7. CASE UNCHANGED vars
  BY <1>7, StutterInv
<1> QED
  BY <1>1, <1>2, <1>3, <1>4, <1>5, <1>6, <1>7 DEF Next

(* Every step keeps the invariant, so it holds in every reachable state.   *)
THEOREM Invariance == Spec => []IInv
  BY InitInv, NextInv, PTL DEF Spec

(* The variables of a crawl, its pipeline and its VDI stay in their types. *)
THEOREM SessionTypes == Spec => []TypeOK
<1>1. IInv => TypeOK
  BY DEF IInv
<1> QED
  BY <1>1, Invariance, PTL

(* Unless its timer fired, a crawl uses a browser only on the VDI leased   *)
(* to it: CrawlWebsite, RefreshVDIConnection and getURLContent open        *)
(* sessions on sel, and ReturnVDIInstance quits before it sends.           *)
THEOREM LateUse == Spec => []OnlyLateUseWithoutLease
<1>1. IInv => OnlyLateUseWithoutLease
  BY DEF IInv, Life, Order, OnlyLateUseWithoutLease
<1> QED
  BY <1>1, Invariance, PTL

(* When closeSession has released the pipeline, the VDI of the crawl is    *)
(* back or in the channel, whoever of the two goroutines returned it.      *)
THEOREM Returned == Spec => []ReleasedAfterReturn
<1>1. IInv => ReleasedAfterReturn
  BY DEF IInv, Life, Return, ReleasedAfterReturn
<1> QED
  BY <1>1, Invariance, PTL

(* For a crawl alone on its status entry, the row closeSession leaves is   *)
(* an error exactly when the crawl failed, whatever reports, the timer and *)
(* the inner goroutine do to the entry in the meantime.                    *)
THEOREM Outcome == Spec => []OutcomeTruthful
<1>1. IInv => OutcomeTruthful
  <2> SUFFICES ASSUME IInv, NEW c \in Crawls, outer[c] = "closed", c \notin shared
               PROVE  /\ row[c] = "error" <=> c \in failed
                      /\ row[c] = "completed" => net[c] # "run"
    BY DEF OutcomeTruthful
  <2>1. Life(c) /\ Told(c) /\ inner[c] \in {"off", "init", "reconnect", "work", "reopen",
                             "return", "quitting", "netwait", "gone"}
    BY DEF IInv, TypeOK
  <2>2. row[c] = "error" <=> c \in failed
    BY <2>1 DEF Told
  <2>3. ASSUME row[c] = "completed" PROVE net[c] # "run"
    <3>1. c \notin failed /\ c \notin late
      BY <2>1, <2>2, <2>3 DEF Life, Late
    <3>2. inner[c] \in {"off", "gone"}
      BY <2>1, <3>1 DEF Life, Order
    <3> QED
      BY <2>1, <3>1, <3>2 DEF Life, Net
  <2> QED
    BY <2>2, <2>3
<1> QED
  BY <1>1, Invariance, PTL

(* After the pipeline is released only the inner goroutine of a crawl that *)
(* timed out writes the row of its source again.                           *)
THEOREM LateOutcomes == Spec => NoLateOutcome
<1>1. IInv /\ [Next]_vars =>
        [\A c \in Crawls : (outer[c] = "closed" /\ row'[c] # row[c]) => c \in late]_vars
  <2> SUFFICES ASSUME IInv, Next, NEW c \in Crawls, outer[c] = "closed", row'[c] # row[c]
               PROVE  c \in late
    OBVIOUS
  <2>1. \A d \in Crawls : OuterStep(d) => d # c
    BY DEF OuterStep, Acquire, AcquireFail, StartNetwork, StartEmail, StartWeb,
           ConnectFails, Timeout, InnerDone, CloseReturn, CloseQuit, CloseRecord
  <2>2. \A d \in Crawls \ {c} : ~OuterStep(d) /\ ~InnerStep(d)
    <3> SUFFICES ASSUME NEW d \in Crawls, d # c, OuterStep(d) \/ InnerStep(d) PROVE FALSE
      OBVIOUS
    <3>1. row'[c] = row[c]
      BY DEF IInv, TypeOK, OuterStep, Acquire, AcquireFail, StartNetwork, StartEmail,
             StartWeb, ConnectFails, Timeout, InnerDone, CloseReturn, CloseQuit,
             CloseRecord, InnerStep, InitFails, Refresh, SessionLost, Reconnect,
             ReconnectFails, Reopen, Reopened, ReopenFails, WorkFails, WorkDone,
             InnerReturn, InnerQuit, InnerEnd
    <3> QED
      BY <3>1
  <2>3. InnerStep(c)
    BY <2>1, <2>2 DEF Next, Released, Take, Report, GiveBack, NetDone, Hang
  <2>4. inner[c] \in Early
    BY <2>3 DEF Early, InnerStep, InitFails, Refresh, SessionLost, Reconnect,
           ReconnectFails, Reopen, Reopened, ReopenFails, WorkFails, WorkDone,
           InnerReturn, InnerQuit, InnerEnd
  <2> QED
    BY <2>4 DEF IInv, Life, Order, Early
<1> QED
  BY <1>1, Invariance, PTL DEF Spec, NoLateOutcome

(***************************************************************************)
(* The pool, seen from the crawls.                                         *)
(***************************************************************************)
(* The pool's promise, in the crawls' terms: no VDI is leased to two.      *)
LeasesExclusive ==
    \A c, d \in Crawls : (lease[c] # None /\ lease[c] = lease[d]) => c = d

(* A step takes a VDI through Acquire, gives one back through GiveBack, or *)
(* leaves every lease alone.                                               *)
LEMMA PoolStep ==
    ASSUME TypeOK, Next
    PROVE  \/ \E c \in Crawls, v \in VDIs : Pool!Take(c, v)
           \/ \E c \in Crawls : Pool!Give(c)
           \/ UNCHANGED lease
<1>1. ASSUME NEW c \in Crawls, OuterStep(c)
      PROVE  (\E v \in VDIs : Pool!Take(c, v)) \/ UNCHANGED lease
  <2>1. CASE Acquire(c)
    BY <2>1 DEF Acquire
  <2>2. CASE AcquireFail(c) \/ StartNetwork(c) \/ StartEmail(c) \/ StartWeb(c)
    BY <2>2 DEF AcquireFail, StartNetwork, StartEmail, StartWeb, vdiVars
  <2>3. CASE ConnectFails(c) \/ Timeout(c) \/ InnerDone(c)
    BY <2>3 DEF ConnectFails, Timeout, InnerDone, vdiVars
  <2>4. CASE CloseReturn(c) \/ CloseQuit(c) \/ CloseRecord(c)
    BY <2>4 DEF CloseReturn, CloseQuit, CloseRecord, vdiVars
  <2> QED
    BY <1>1, <2>1, <2>2, <2>3, <2>4 DEF OuterStep
<1>2. ASSUME NEW c \in Crawls, InnerStep(c) PROVE UNCHANGED lease
  <2>1. CASE InitFails(c) \/ Refresh(c) \/ SessionLost(c) \/ Reconnect(c)
    BY <2>1 DEF InitFails, Refresh, SessionLost, Reconnect, vdiVars
  <2>2. CASE ReconnectFails(c) \/ Reopen(c) \/ Reopened(c) \/ ReopenFails(c)
    BY <2>2 DEF ReconnectFails, Reopen, Reopened, ReopenFails, vdiVars
  <2>3. CASE WorkFails(c) \/ WorkDone(c) \/ InnerReturn(c) \/ InnerQuit(c) \/ InnerEnd(c)
    BY <2>3 DEF WorkFails, WorkDone, InnerReturn, InnerQuit, InnerEnd, vdiVars
  <2> QED
    BY <1>2, <2>1, <2>2, <2>3 DEF InnerStep
<1>3. CASE \E p \in Pipelines : Released(p) \/ \E c \in Crawls : Take(p, c)
  BY <1>3 DEF Released, Take, vdiVars
<1>4. CASE \E i \in Entries : Report(i)
  BY <1>4 DEF Report, vdiVars
<1>5. CASE \E c \in Crawls : NetDone(c) \/ Hang(c)
  BY <1>5 DEF NetDone, Hang, vdiVars
<1>6. CASE \E c \in Crawls : GiveBack(c)
  BY <1>6 DEF GiveBack
<1> QED
  BY <1>1, <1>2, <1>3, <1>4, <1>5, <1>6 DEF Next

(* The crawls of an engine use the pool as VDIOwnership allows: each step  *)
(* is one of the pool's or leaves the leases alone. That nothing is given  *)
(* back twice is ReturnedOnce, below.                                      *)
THEOREM UsesPool == Spec => Pool!Spec
<1>1. Init => Pool!Init
  BY DEF Init, Pool!Init
<1>2. IInv /\ [Next]_vars => [Pool!Next]_(Pool!vars)
  <2> SUFFICES ASSUME IInv, [Next]_vars PROVE [Pool!Next]_(Pool!vars)
    OBVIOUS
  <2>1. CASE Next
    BY <2>1, PoolStep DEF IInv, Pool!Next, Pool!vars
  <2>2. CASE UNCHANGED vars
    BY <2>2 DEF vars, Pool!vars
  <2> QED
    BY <2>1, <2>2
<1> QED
  BY <1>1, <1>2, Invariance, PTL DEF Spec, Pool!Spec

(* No step leases a VDI twice.                                             *)
LEMMA LeasesStayExclusive == LeasesExclusive /\ IInv /\ [Next]_vars => LeasesExclusive'
<1> SUFFICES ASSUME LeasesExclusive, IInv, [Next]_vars PROVE LeasesExclusive'
  OBVIOUS
<1>1. lease \in [Crawls -> VDIs \cup {None}]
  BY DEF IInv, TypeOK
<1>2. CASE \E c \in Crawls, v \in VDIs : Pool!Take(c, v)
  BY <1>1, <1>2 DEF Pool!Take, LeasesExclusive
<1>3. CASE \E c \in Crawls : Pool!Give(c)
  BY <1>1, <1>3 DEF Pool!Give, LeasesExclusive
<1>4. CASE UNCHANGED lease
  BY <1>4 DEF LeasesExclusive
<1> QED
  BY <1>2, <1>3, <1>4, PoolStep DEF IInv, vars

(* What is true of BrowserExclusive: two crawls have a browser on the same *)
(* VDI only when the timer of one of them has fired.                       *)
InTimeExclusive ==
    \A c, d \in Crawls :
        (browser[c] # None /\ browser[c] = browser[d] /\ c \notin late /\ d \notin late)
            => c = d

(* Crawls whose timers have not fired never share a browser, for any       *)
(* number of crawls, pipelines and VDIs, through refreshes and reconnects. *)
THEOREM InTimeUse == Spec => []InTimeExclusive
<1>1. Init => LeasesExclusive
  BY DEF Init, LeasesExclusive
<1>2. IInv /\ LeasesExclusive => InTimeExclusive
  BY DEF IInv, Life, Order, LeasesExclusive, InTimeExclusive
<1> QED
  BY <1>1, <1>2, Invariance, LeasesStayExclusive, PTL DEF Spec

(***************************************************************************)
(* What a crawl sends back.                                                *)
(***************************************************************************)
(* Unless its timer fired, a crawl returns its VDI once: what it has sent  *)
(* back is still leased to it, and when it is about to send there is room  *)
(* in releaseVDI and the VDI has not been given back before.               *)
SingleReturn ==
    \A c \in Crawls \ late :
        /\ sent[c] = 1 => lease[c] = vdi[c] /\ vdi[c] # None
        /\ "quitting" \in {outer[c], inner[c]} => sent[c] = 0 /\ lease[c] = vdi[c]

(* The returned flag tells whether the VDI is still to be sent.            *)
Unsent(c) == sent[c] = 0 /\ lease[c] = vdi[c]
ReturnOnce(c) ==
    c \notin late =>
        /\ outer[c] \notin {"new", "acquire", "noVDI"} => vdi[c] # None
        /\ sent[c] = 1 => lease[c] = vdi[c] /\ vdi[c] # None
        /\ ~returned[c] /\ outer[c] \notin {"new", "acquire", "noVDI"} => Unsent(c)
        /\ "quitting" \in {outer[c], inner[c]} => returned[c] /\ Unsent(c)
        /\ inner[c] = "return" => ~returned[c]
        /\ inner[c] = "netwait" => returned[c]

(* While the inner goroutine may open sessions the flag is clear.          *)
LEMMA EarlyUnsent ==
    ASSUME IInv, NEW c \in Crawls, c \notin late, inner[c] \in Early, ReturnOnce(c)
    PROVE  ~returned[c] /\ Unsent(c) /\ outer[c] = "select"
  BY DEF IInv, TypeOK, Life, Order, Return, ReturnOnce, Unsent, Early

(* Every step of a crawl's own goroutines keeps this, for every crawl.     *)
LEMMA OuterReturnOnce ==
    ASSUME IInv, NEW c \in Crawls, ReturnOnce(c), NEW d \in Crawls, OuterStep(d)
    PROVE  ReturnOnce(c)'
<1> USE DEF IInv, TypeOK, ReturnOnce, Unsent, vdiVars, histVars
<1>1. CASE Acquire(d)
  <2>1. PICK v \in VDIs : Pool!Take(d, v) /\ vdi' = [vdi EXCEPT ![d] = v]
    BY <1>1 DEF Acquire
  <2> QED
    BY <1>1, <2>1 DEF Acquire, Pool!Take, Life, Before
<1>2. CASE AcquireFail(d)
  BY <1>2 DEF AcquireFail
<1>3. CASE StartNetwork(d) \/ StartEmail(d)
  <2>1. /\ outer' = [outer EXCEPT ![d] = "closing"] /\ outer[d] = "start"
        /\ UNCHANGED <<inner, vdiVars, late>>
    BY <1>3 DEF StartNetwork, StartEmail
  <2> QED
    BY <2>1
<1>4. CASE StartWeb(d) \/ ConnectFails(d)
  BY <1>4 DEF StartWeb, ConnectFails, Life, Before
<1>5. CASE Timeout(d) \/ InnerDone(d)
  BY <1>5 DEF Timeout, InnerDone
<1>6. CASE CloseReturn(d)
  BY <1>6 DEF CloseReturn, Life, Order
<1>7. CASE CloseQuit(d)
  BY <1>7 DEF CloseQuit, Quit, Life, Order
<1>8. CASE CloseRecord(d)
  BY <1>8 DEF CloseRecord, Life, Order
<1> QED
  BY <1>1, <1>2, <1>3, <1>4, <1>5, <1>6, <1>7, <1>8 DEF OuterStep

LEMMA InnerReturnOnce ==
    ASSUME IInv, NEW c \in Crawls, ReturnOnce(c), NEW d \in Crawls, InnerStep(d)
    PROVE  ReturnOnce(c)'
<1>0. c \notin late /\ inner[c] \in Early => ~returned[c] /\ Unsent(c) /\ outer[c] = "select"
  BY EarlyUnsent
<1> USE DEF IInv, TypeOK, ReturnOnce, Unsent, vdiVars, histVars
<1>1. CASE InitFails(d) \/ Refresh(d) \/ SessionLost(d) \/ ReconnectFails(d)
  BY <1>1 DEF InitFails, Refresh, SessionLost, ReconnectFails, StartWork, InnerFails
<1>2. CASE Reconnect(d)
  BY <1>0, <1>2 DEF Reconnect, NewSession, StartWork, Early
<1>3. CASE Reopen(d)
  BY <1>3 DEF Reopen
<1>4. CASE Reopened(d)
  BY <1>0, <1>4 DEF Reopened, NewSession, Early
<1>5. CASE ReopenFails(d) \/ WorkFails(d)
  BY <1>5 DEF ReopenFails, WorkFails, InnerFails
<1>6. CASE WorkDone(d)
  BY <1>0, <1>6 DEF WorkDone, Early
<1>7. CASE InnerReturn(d)
  BY <1>7 DEF InnerReturn, Life, Order
<1>8. CASE InnerQuit(d)
  BY <1>8 DEF InnerQuit, Quit, Life, Order
<1>9. CASE InnerEnd(d)
  BY <1>9 DEF InnerEnd
<1> QED
  BY <1>1, <1>2, <1>3, <1>4, <1>5, <1>6, <1>7, <1>8, <1>9 DEF InnerStep

LEMMA NextReturnOnce ==
    ASSUME IInv, NEW c \in Crawls, ReturnOnce(c), [Next]_vars
    PROVE  ReturnOnce(c)'
<1> USE DEF ReturnOnce, Unsent, vdiVars, histVars
<1>1. CASE \E d \in Crawls : OuterStep(d)
  BY <1>1, OuterReturnOnce
<1>2. CASE \E d \in Crawls : InnerStep(d)
  BY <1>2, InnerReturnOnce
<1>3. CASE \E p \in Pipelines : Released(p)
  BY <1>3 DEF Released, goVars
<1>4. CASE \E p \in Pipelines, d \in Crawls : Take(p, d)
  BY <1>4 DEF Take, IInv, TypeOK, Life, Before
<1>5. CASE \E i \in Entries : Report(i)
  BY <1>5 DEF Report, goVars
<1>6. CASE \E d \in Crawls : GiveBack(d)
  BY <1>6 DEF GiveBack, goVars, Pool!Give, IInv, TypeOK
<1>7. CASE \E d \in Crawls : NetDone(d) \/ Hang(d)
  BY <1>7 DEF NetDone, Hang, goVars
<1>8. CASE UNCHANGED vars
  BY <1>8 DEF vars
<1> QED
  BY <1>1, <1>2, <1>3, <1>4, <1>5, <1>6, <1>7, <1>8 DEF Next

(* Whatever reconnects and the two goroutines that may return a VDI do, a  *)
(* crawl in time returns it once and never waits for room to do so. After  *)
(* a timeout this is false: ConnectVDI clears the flag of a crawl that has *)
(* given its VDI back.                                                     *)
THEOREM ReturnedOnce == Spec => []SingleReturn
<1>1. Init => \A c \in Crawls : ReturnOnce(c)
  BY DEF Init, ReturnOnce, Unsent
<1>2. IInv /\ (\A c \in Crawls : ReturnOnce(c)) /\ [Next]_vars
        => (\A c \in Crawls : ReturnOnce(c))'
  BY NextReturnOnce
<1>3. (\A c \in Crawls : ReturnOnce(c)) => SingleReturn
  BY DEF ReturnOnce, SingleReturn, Unsent
<1> QED
  BY <1>1, <1>2, <1>3, Invariance, PTL DEF Spec
=============================================================================
