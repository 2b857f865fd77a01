---------------------------- MODULE CrawlSession -----------------------------
(***************************************************************************)
(* The life of a crawl from the moment a pipeline takes its source to the  *)
(* moment nothing of it runs any more: startCrawling (main.go),            *)
(* CrawlWebsite and closeSession (crawler.go), ReturnVDIInstance and       *)
(* ConnectVDI (vdi.go), RefreshVDIConnection (web.go).                     *)
(*                                                                         *)
(* A crawl is up to four goroutines: the one of startCrawling, which       *)
(* acquires the VDI and waits to give it back; CrawlWebsite itself (outer) *)
(* with its timer; the crawling goroutine (inner), which goes on after a   *)
(* timeout; and the network collection (net). They share the entry of the  *)
(* pipeline statuses their pipeline was using when it took the source,     *)
(* whoever uses that entry now, and the browser of the VDI.                *)
(*                                                                         *)
(* The pool is VDIOwnership, the specification VDIPool implements. What    *)
(* the workers do between two looks at the session is CrawlWorkers. Web    *)
(* links found in e-mails are left out.                                    *)
(***************************************************************************)
EXTENDS Naturals, FiniteSets

CONSTANTS
    Crawls,      \* one crawl of one source
    Pipelines,   \* goroutines of the batch
    VDIs,        \* slots of the pool
    None,        \* no crawl, VDI, status index
    MaxStatus    \* bound: length of the slice of statuses

ASSUME NoneAssumption == None \notin Crawls \cup VDIs \cup Nat
ASSUME BoundAssumption == MaxStatus \in Nat \ {0}

VARIABLES
    job,       \* the crawl a pipeline waits for (crawlWG), or None
    slot,      \* the status index a pipeline remembers, or None
    entry,     \* PipelineStatus
    idx,       \* the entry a crawl's *Status points to, or None
    outer,     \* where startCrawling's and CrawlWebsite's goroutines are
    inner,     \* where the crawling goroutine is
    net,       \* network collection: "off", "run", "done"
    outcome,   \* the err of CrawlWebsite: "none", "ok", "error"
    lease,     \* the VDI leased to the crawl, or None
    vdi,       \* the VDI the crawl was given (sel), kept after its return
    browser,   \* the VDI the crawl has a browser session on, or None
    returned,  \* VDIReturned
    opLock,    \* VDIOperationMutex: "free", "outer" or "inner"
    sent,      \* VDIs in the channel releaseVDI (capacity 1)
    row,       \* Sources.status as the crawl's engine last wrote it
    late,      \* the timer of the crawl fired
    failed,    \* history: the crawl itself met an error
    shared,    \* history: the entry had two crawls at a time
    hung       \* a browser that never answers keeps the operation mutex

pipeVars == <<job, slot>>
goVars   == <<outer, inner, net, outcome>>
vdiVars  == <<lease, vdi, browser, returned, opLock, sent, hung>>
histVars == <<late, failed, shared>>
vars == <<job, slot, entry, idx, outer, inner, net, outcome, lease, vdi, browser,
          returned, opLock, sent, row, late, failed, shared, hung>>

Entries == 1 .. MaxStatus

(* A Status: PipelineRunning (0 not started, 1 running, 2 completed, 3     *)
(* error), CrawlingRunning = 1, NetInfoRunning = 1, LastError set.         *)
Status == [run : 0 .. 3, crawl : BOOLEAN, net : BOOLEAN, err : BOOLEAN]
Unused == [run |-> 0, crawl |-> FALSE, net |-> FALSE, err |-> FALSE]
Fresh  == [Unused EXCEPT !.run = 1]

TypeOK ==
    /\ job \in [Pipelines -> Crawls \cup {None}]
    /\ slot \in [Pipelines -> Entries \cup {None}]
    /\ entry \in [Entries -> Status]
    /\ idx \in [Crawls -> Entries \cup {None}]
    /\ outer \in [Crawls -> {"new", "acquire", "noVDI", "start", "select", "closing",
                             "quitting", "record", "closed"}]
    /\ inner \in [Crawls -> {"off", "init", "reconnect", "work", "reopen",
                             "return", "quitting", "netwait", "gone"}]
    /\ net \in [Crawls -> {"off", "run", "done"}]
    /\ outcome \in [Crawls -> {"none", "ok", "error"}]
    /\ lease \in [Crawls -> VDIs \cup {None}] /\ vdi \in [Crawls -> VDIs \cup {None}]
    /\ browser \in [Crawls -> VDIs \cup {None}]
    /\ returned \in [Crawls -> BOOLEAN]
    /\ opLock \in [Crawls -> {"free", "outer", "inner"}]
    /\ sent \in [Crawls -> 0 .. 1]
    /\ row \in [Crawls -> {"processing", "completed", "error"}]
    /\ late \subseteq Crawls /\ failed \subseteq Crawls
    /\ shared \subseteq Crawls /\ hung \subseteq Crawls

Init ==
    /\ job = [p \in Pipelines |-> None] /\ slot = [p \in Pipelines |-> None]
    /\ entry = [i \in Entries |-> Unused]
    /\ idx = [c \in Crawls |-> None]
    /\ outer = [c \in Crawls |-> "new"] /\ inner = [c \in Crawls |-> "off"]
    /\ net = [c \in Crawls |-> "off"] /\ outcome = [c \in Crawls |-> "none"]
    /\ lease = [c \in Crawls |-> None] /\ vdi = [c \in Crawls |-> None]
    /\ browser = [c \in Crawls |-> None]
    /\ returned = [c \in Crawls |-> FALSE]
    /\ opLock = [c \in Crawls |-> "free"]
    /\ sent = [c \in Crawls |-> 0]
    /\ row = [c \in Crawls |-> "processing"]
    /\ late = {} /\ failed = {} /\ shared = {} /\ hung = {}

(* The pool is not rebuilt: a reload waits for the end of the batch. *)
Pool == INSTANCE VDIOwnership WITH
    Clients <- Crawls, NoVDI <- None, using <- lease, rebuilt <- FALSE

(* Writes through the crawl's *Status. *)
Mark(c, new) == entry' = [entry EXCEPT ![idx[c]] = new]
Status3(c) == [entry[idx[c]] EXCEPT !.run = 3, !.crawl = FALSE, !.err = TRUE]

(***************************************************************************)
(* The pipeline (crawlSources) and the reports.                            *)
(***************************************************************************)
Busy(e) == e.run = 1 \/ e.crawl \/ e.net
FreeStatuses == {i \in Entries : ~Busy(entry[i])}
StatusIndex(p, i) ==
    IF slot[p] # None THEN i = slot[p]
    ELSE i \in FreeStatuses /\ \A k \in FreeStatuses : i <= k

(* Something of the crawl still runs. *)
Live(c) == \/ outer[c] \notin {"new", "closed"}
           \/ inner[c] \notin {"off", "gone"}
           \/ net[c] = "run"

(* The pipeline overwrites the entry and starts the crawl. *)
Take(p, c) ==
    /\ job[p] = None /\ outer[c] = "new"
    /\ \E i \in Entries :
         LET others == {d \in Crawls : idx[d] = i /\ Live(d)} IN
         /\ StatusIndex(p, i)
         /\ entry' = [entry EXCEPT ![i] = Fresh]
         /\ idx' = [idx EXCEPT ![c] = i]
         /\ slot' = [slot EXCEPT ![p] = i]
         /\ shared' = shared \cup others \cup (IF others = {} THEN {} ELSE {c})
    /\ job' = [job EXCEPT ![p] = c]
    /\ outer' = [outer EXCEPT ![c] = "acquire"]
    /\ UNCHANGED <<inner, net, outcome, vdiVars, row, late, failed>>

(* crawlWG.Wait returns. The index is kept unless network collection is    *)
(* still running on the entry.                                             *)
Released(p) ==
    /\ job[p] # None /\ outer[job[p]] = "closed"
    /\ slot' = [slot EXCEPT ![p] = IF entry[slot[p]].net THEN None ELSE slot[p]]
    /\ job' = [job EXCEPT ![p] = None]
    /\ UNCHANGED <<entry, idx, goVars, vdiVars, row, histVars>>

(* logStatus, for one entry: a completed or failed crawl is shown once. *)
Report(i) ==
    /\ entry[i].run >= 2
    /\ entry' = [entry EXCEPT ![i].run = 0]
    /\ UNCHANGED <<pipeVars, idx, goVars, vdiVars, row, histVars>>

(***************************************************************************)
(* startCrawling.                                                          *)
(***************************************************************************)
Acquire(c) ==
    /\ outer[c] = "acquire"
    /\ \E v \in VDIs : Pool!Take(c, v) /\ vdi' = [vdi EXCEPT ![c] = v]
    /\ outer' = [outer EXCEPT ![c] = "start"]
    /\ Mark(c, [entry[idx[c]] EXCEPT !.run = 1])
    /\ UNCHANGED <<pipeVars, idx, inner, net, outcome, browser, returned, opLock, sent,
                   hung, row, histVars>>

(* No slot has an allowed name: the goroutine returns without WG.Done. *)
AcquireFail(c) ==
    /\ outer[c] = "acquire"
    /\ outer' = [outer EXCEPT ![c] = "noVDI"]
    /\ UNCHANGED <<pipeVars, entry, idx, inner, net, outcome, vdiVars, row, histVars>>

(* The VDI comes through the channel: back to the pool, once. *)
GiveBack(c) ==
    /\ sent[c] = 1 /\ Pool!Give(c)
    /\ sent' = [sent EXCEPT ![c] = 0]
    /\ UNCHANGED <<pipeVars, entry, idx, goVars, vdi, browser, returned, opLock, hung,
                   row, histVars>>

(***************************************************************************)
(* CrawlWebsite.                                                           *)
(***************************************************************************)
(* A network source: its row is completed although indexing may fail.      *)
StartNetwork(c) ==
    /\ outer[c] = "start"
    /\ \E r \in {2, 3} : Mark(c, [entry[idx[c]] EXCEPT !.run = r])
    /\ row' = [row EXCEPT ![c] = "completed"]
    /\ outcome' = [outcome EXCEPT ![c] = "ok"]
    /\ outer' = [outer EXCEPT ![c] = "closing"]
    /\ UNCHANGED <<pipeVars, idx, inner, net, vdiVars, histVars>>

StartEmail(c) ==
    /\ outer[c] = "start"
    /\ \E ok \in BOOLEAN :
         /\ Mark(c, [entry[idx[c]] EXCEPT !.run = IF ok THEN 2 ELSE 3, !.err = ~ok])
         /\ outcome' = [outcome EXCEPT ![c] = IF ok THEN "ok" ELSE "error"]
         /\ failed' = IF ok THEN failed ELSE failed \cup {c}
    /\ outer' = [outer EXCEPT ![c] = "closing"]
    /\ UNCHANGED <<pipeVars, idx, inner, net, vdiVars, row, late, shared>>

(* A web source: ConnectToVDI, then the inner goroutine. *)
StartWeb(c) ==
    /\ outer[c] = "start"
    /\ browser' = [browser EXCEPT ![c] = vdi[c]]
    /\ Mark(c, [entry[idx[c]] EXCEPT !.crawl = TRUE])
    /\ outer' = [outer EXCEPT ![c] = "select"]
    /\ inner' = [inner EXCEPT ![c] = "init"]
    /\ UNCHANGED <<pipeVars, idx, net, outcome, lease, vdi, returned, opLock, sent, hung,
                   row, histVars>>

ConnectFails(c) ==
    /\ outer[c] = "start"
    /\ Mark(c, [entry[idx[c]] EXCEPT !.run = 3, !.err = TRUE])
    /\ row' = [row EXCEPT ![c] = "error"]
    /\ outcome' = [outcome EXCEPT ![c] = "error"]
    /\ failed' = failed \cup {c}
    /\ outer' = [outer EXCEPT ![c] = "closing"]
    /\ UNCHANGED <<pipeVars, idx, inner, net, vdiVars, late, shared>>

(* Faulty variant: the timer is stopped once the first page is loaded. *)
TimeoutOnFirstPage(c) ==
    /\ outer[c] = "select" /\ inner[c] = "init"
    /\ Mark(c, Status3(c))
    /\ row' = [row EXCEPT ![c] = "error"]
    /\ outcome' = [outcome EXCEPT ![c] = "error"]
    /\ late' = late \cup {c} /\ failed' = failed \cup {c}
    /\ outer' = [outer EXCEPT ![c] = "closing"]
    /\ UNCHANGED <<pipeVars, idx, inner, net, vdiVars, shared>>

(* The select: the timer, or the end of the inner goroutine. *)
Timeout(c) ==
    /\ outer[c] = "select"
    /\ Mark(c, Status3(c))
    /\ row' = [row EXCEPT ![c] = "error"]
    /\ outcome' = [outcome EXCEPT ![c] = "error"]
    /\ late' = late \cup {c} /\ failed' = failed \cup {c}
    /\ outer' = [outer EXCEPT ![c] = "closing"]
    /\ UNCHANGED <<pipeVars, idx, inner, net, vdiVars, shared>>

(* Faulty variant: only the flag is looked at, which a report may clear. *)
InnerDoneByFlag(c) ==
    /\ outer[c] = "select" /\ inner[c] = "gone"
    /\ outcome' = [outcome EXCEPT ![c] = IF entry[idx[c]].run = 3 THEN "error" ELSE "ok"]
    /\ outer' = [outer EXCEPT ![c] = "closing"]
    /\ UNCHANGED <<pipeVars, entry, idx, inner, net, vdiVars, row, histVars>>

InnerDone(c) ==
    /\ outer[c] = "select" /\ inner[c] = "gone"
    /\ LET e == entry[idx[c]] IN
         outcome' = [outcome EXCEPT ![c] = IF e.err \/ e.run = 3 THEN "error" ELSE "ok"]
    /\ outer' = [outer EXCEPT ![c] = "closing"]
    /\ UNCHANGED <<pipeVars, entry, idx, inner, net, vdiVars, row, histVars>>

(* Faulty variant: a failed crawl does not return its VDI. *)
CloseReturnOnSuccess(c) ==
    /\ outer[c] = "closing" /\ opLock[c] = "free"
    /\ IF returned[c] \/ outcome[c] = "error"
       THEN outer' = [outer EXCEPT ![c] = "record"] /\ UNCHANGED <<returned, opLock>>
       ELSE /\ returned' = [returned EXCEPT ![c] = TRUE]
            /\ opLock' = [opLock EXCEPT ![c] = "outer"]
            /\ outer' = [outer EXCEPT ![c] = "quitting"]
    /\ UNCHANGED <<pipeVars, entry, idx, inner, net, outcome, lease, vdi, browser, sent,
                   hung, row, histVars>>

(* closeSession: ReturnVDIInstance, status, source row, WG.Done. *)
CloseReturn(c) ==
    /\ outer[c] = "closing" /\ opLock[c] = "free"
    /\ IF returned[c]
       THEN outer' = [outer EXCEPT ![c] = "record"] /\ UNCHANGED <<returned, opLock>>
       ELSE /\ returned' = [returned EXCEPT ![c] = TRUE]
            /\ opLock' = [opLock EXCEPT ![c] = "outer"]
            /\ outer' = [outer EXCEPT ![c] = "quitting"]
    /\ UNCHANGED <<pipeVars, entry, idx, inner, net, outcome, lease, vdi, browser, sent,
                   hung, row, histVars>>

(* Faulty variants: the session is left open; the channel is not one deep. *)
QuitSkipped(c) ==
    /\ c \notin hung /\ sent[c] = 0
    /\ sent' = [sent EXCEPT ![c] = 1]
    /\ opLock' = [opLock EXCEPT ![c] = "free"]
    /\ UNCHANGED browser
QuitUnbounded(c) ==
    /\ c \notin hung
    /\ browser' = [browser EXCEPT ![c] = None]
    /\ sent' = [sent EXCEPT ![c] = @ + 1]
    /\ opLock' = [opLock EXCEPT ![c] = "free"]

(* QuitSelenium, then the send on releaseVDI, under the operation mutex. *)
Quit(c) ==
    /\ c \notin hung /\ sent[c] = 0
    /\ browser' = [browser EXCEPT ![c] = None]
    /\ sent' = [sent EXCEPT ![c] = 1]
    /\ opLock' = [opLock EXCEPT ![c] = "free"]

CloseQuit(c) ==
    /\ outer[c] = "quitting" /\ Quit(c)
    /\ outer' = [outer EXCEPT ![c] = "record"]
    /\ UNCHANGED <<pipeVars, entry, idx, inner, net, outcome, lease, vdi, returned, hung,
                   row, histVars>>

CloseRecord(c) ==
    /\ outer[c] = "record"
    /\ LET e == entry[idx[c]] IN
         Mark(c, IF e.run = 1 \/ outcome[c] = "error" THEN [e EXCEPT !.run = 3] ELSE e)
    /\ returned' = [returned EXCEPT ![c] = TRUE]
    /\ row' = [row EXCEPT ![c] = IF outcome[c] = "error" THEN "error" ELSE "completed"]
    /\ outer' = [outer EXCEPT ![c] = "closed"]
    /\ outcome' = [outcome EXCEPT ![c] = "none"]
    /\ UNCHANGED <<pipeVars, idx, inner, net, lease, vdi, browser, opLock, sent,
                   hung, histVars>>

(***************************************************************************)
(* The inner goroutine. Nothing but the timer bounds its browser calls.    *)
(***************************************************************************)
InnerFails(c) ==
    /\ Mark(c, Status3(c))
    /\ failed' = failed \cup {c}
    /\ inner' = [inner EXCEPT ![c] = "gone"]

(* CrawlInitialURL fails: it writes the outcome itself. *)
InitFails(c) ==
    /\ inner[c] = "init" /\ InnerFails(c)
    /\ row' = [row EXCEPT ![c] = "error"]
    /\ UNCHANGED <<pipeVars, idx, outer, net, outcome, vdiVars, late, shared>>

(* CrawlInitialURL is done. RefreshVDIConnection: the session answers, and *)
(* network collection and the workers start; or it does not, and a new     *)
(* session is opened.                                                      *)
StartWork(c) ==
    /\ net' = [net EXCEPT ![c] = "run"]
    /\ Mark(c, [entry[idx[c]] EXCEPT !.net = TRUE])
    /\ inner' = [inner EXCEPT ![c] = "work"]

Refresh(c) ==
    /\ inner[c] = "init" /\ browser[c] # None /\ StartWork(c)
    /\ UNCHANGED <<pipeVars, idx, outer, outcome, vdiVars, row, histVars>>

SessionLost(c) ==
    /\ inner[c] = "init"
    /\ inner' = [inner EXCEPT ![c] = "reconnect"]
    /\ UNCHANGED <<pipeVars, entry, idx, outer, net, outcome, vdiVars, row, histVars>>

(* ConnectVDI opens a session on sel and clears the returned flag. *)
NewSession(c) ==
    /\ browser' = [browser EXCEPT ![c] = vdi[c]]
    /\ returned' = [returned EXCEPT ![c] = FALSE]

Reconnect(c) ==
    /\ inner[c] = "reconnect" /\ NewSession(c) /\ StartWork(c)
    /\ UNCHANGED <<pipeVars, idx, outer, outcome, lease, vdi, opLock, sent, hung, row,
                   histVars>>

ReconnectFails(c) ==
    /\ inner[c] = "reconnect" /\ InnerFails(c)
    /\ row' = [row EXCEPT ![c] = "error"]
    /\ UNCHANGED <<pipeVars, idx, outer, net, outcome, vdiVars, late, shared>>

(* getURLContent tests VDIReturned, then opens a new session when the old  *)
(* one is gone; ResetVDI does it under the operation mutex.                *)
Reopen(c) ==
    /\ inner[c] \in {"init", "work"} /\ ~returned[c]
    /\ \/ UNCHANGED opLock
       \/ opLock[c] = "free" /\ opLock' = [opLock EXCEPT ![c] = "inner"]
    /\ inner' = [inner EXCEPT ![c] = "reopen"]
    /\ UNCHANGED <<pipeVars, entry, idx, outer, net, outcome, lease, vdi, browser, returned,
                   sent, hung, row, histVars>>

Unlocked(c) == [opLock EXCEPT ![c] = IF @ = "inner" THEN "free" ELSE @]

Reopened(c) ==
    /\ inner[c] = "reopen" /\ c \notin hung
    /\ NewSession(c)
    /\ opLock' = Unlocked(c)
    /\ inner' = [inner EXCEPT ![c] = IF net[c] = "off" THEN "init" ELSE "work"]
    /\ UNCHANGED <<pipeVars, entry, idx, outer, net, outcome, lease, vdi, sent, hung, row,
                   histVars>>

ReopenFails(c) ==
    /\ inner[c] = "reopen" /\ c \notin hung /\ InnerFails(c)
    /\ opLock' = Unlocked(c)
    /\ row' = [row EXCEPT ![c] = IF net[c] = "off" THEN "error" ELSE @]
    /\ UNCHANGED <<pipeVars, idx, outer, net, outcome, lease, vdi, browser, returned, sent,
                   hung, late, shared>>

(* A worker meets a critical error. *)
WorkFails(c) ==
    /\ inner[c] = "work" /\ InnerFails(c)
    /\ UNCHANGED <<pipeVars, idx, outer, net, outcome, vdiVars, row, late, shared>>

(* The workers are through, or stopped because PipelineRunning exceeds 1.  *)
WorkDone(c) ==
    /\ inner[c] = "work"
    /\ Mark(c, [entry[idx[c]] EXCEPT !.crawl = FALSE])
    /\ inner' = [inner EXCEPT ![c] = "return"]
    /\ UNCHANGED <<pipeVars, idx, outer, net, outcome, vdiVars, row, histVars>>

(* ReturnVDIInstance, before network collection is over. *)
InnerReturn(c) ==
    /\ inner[c] = "return" /\ opLock[c] = "free"
    /\ IF returned[c]
       THEN inner' = [inner EXCEPT ![c] = "netwait"] /\ UNCHANGED <<returned, opLock>>
       ELSE /\ returned' = [returned EXCEPT ![c] = TRUE]
            /\ opLock' = [opLock EXCEPT ![c] = "inner"]
            /\ inner' = [inner EXCEPT ![c] = "quitting"]
    /\ UNCHANGED <<pipeVars, entry, idx, outer, net, outcome, lease, vdi, browser, sent,
                   hung, row, histVars>>

InnerQuit(c) ==
    /\ inner[c] = "quitting" /\ Quit(c)
    /\ inner' = [inner EXCEPT ![c] = "netwait"]
    /\ UNCHANGED <<pipeVars, entry, idx, outer, net, outcome, lease, vdi, returned, hung,
                   row, histVars>>

(* wgNetInfo.Wait returns, the pipeline is completed. *)
InnerEnd(c) ==
    /\ inner[c] = "netwait" /\ net[c] = "done"
    /\ Mark(c, [entry[idx[c]] EXCEPT !.run = 2])
    /\ inner' = [inner EXCEPT ![c] = "gone"]
    /\ UNCHANGED <<pipeVars, idx, outer, net, outcome, vdiVars, row, histVars>>

(* Faulty variant: the end of the collection records the outcome. *)
NetDoneRecords(c) ==
    /\ net[c] = "run"
    /\ net' = [net EXCEPT ![c] = "done"]
    /\ Mark(c, [entry[idx[c]] EXCEPT !.net = FALSE])
    /\ row' = [row EXCEPT ![c] = "completed"]
    /\ UNCHANGED <<pipeVars, idx, outer, inner, outcome, vdiVars, histVars>>

NetDone(c) ==
    /\ net[c] = "run"
    /\ net' = [net EXCEPT ![c] = "done"]
    /\ Mark(c, [entry[idx[c]] EXCEPT !.net = FALSE])
    /\ UNCHANGED <<pipeVars, idx, outer, inner, outcome, vdiVars, row, histVars>>

(* A call to the browser under the operation mutex never returns. *)
Hang(c) ==
    /\ opLock[c] # "free" /\ hung' = hung \cup {c}
    /\ UNCHANGED <<pipeVars, entry, idx, goVars, lease, vdi, browser, returned, opLock, sent,
                   row, histVars>>

OuterStep(c) ==
    \/ Acquire(c) \/ AcquireFail(c)
    \/ StartNetwork(c) \/ StartEmail(c) \/ StartWeb(c) \/ ConnectFails(c)
    \/ Timeout(c) \/ InnerDone(c) \/ CloseReturn(c) \/ CloseQuit(c) \/ CloseRecord(c)

InnerStep(c) ==
    \/ InitFails(c) \/ Refresh(c) \/ SessionLost(c)
    \/ Reconnect(c) \/ ReconnectFails(c) \/ Reopen(c) \/ Reopened(c) \/ ReopenFails(c)
    \/ WorkFails(c) \/ WorkDone(c) \/ InnerReturn(c) \/ InnerQuit(c) \/ InnerEnd(c)

Next ==
    \/ \E p \in Pipelines : Released(p) \/ \E c \in Crawls : Take(p, c)
    \/ \E i \in Entries : Report(i)
    \/ \E c \in Crawls : GiveBack(c) \/ OuterStep(c) \/ InnerStep(c) \/ NetDone(c) \/ Hang(c)

Spec == Init /\ [][Next]_vars

(***************************************************************************)
(* The goroutines of main.go and CrawlWebsite run, the timer fires, a call *)
(* under the operation mutex returns unless it hangs, and the mutex is not *)
(* kept from a waiter for ever (Go hands it over after a millisecond). The *)
(* inner goroutine and the network collection may take for ever.           *)
(***************************************************************************)
Fairness ==
    \A c \in Crawls :
        /\ WF_vars(OuterStep(c)) /\ SF_vars(CloseReturn(c)) /\ WF_vars(GiveBack(c))
        /\ WF_vars(InnerQuit(c)) /\ WF_vars(Reopened(c) \/ ReopenFails(c))

FairSpec == Spec /\ Fairness

(***************************************************************************)
(* Properties.                                                             *)
(***************************************************************************)
(* A crawl drives a browser only on the VDI leased to it, unless its timer *)
(* has fired: every other way out of CrawlWebsite quits the session before *)
(* the VDI is sent back.                                                   *)
OnlyLateUseWithoutLease ==
    \A c \in Crawls : browser[c] # None => lease[c] = browser[c] \/ c \in late

(* "Lease represents exclusive ownership of one VDI pool slot" (vdi.go):   *)
(* no two crawls have a browser on one VDI.                                *)
BrowserExclusive ==
    \A c, d \in Crawls : (browser[c] # None /\ browser[c] = browser[d]) => c = d

(* closeSession releases the pipeline last: by then the VDI has been sent  *)
(* back and the source row has an outcome.                                 *)
ReleasedAfterReturn ==
    \A c \in Crawls : outer[c] = "closed" =>
        /\ row[c] # "processing"
        /\ lease[c] = None \/ sent[c] = 1

(* The row tells the outcome of the crawl, as long as no other crawl wrote *)
(* to the same status entry: a failure is an error, and completed means    *)
(* that network collection is over too.                                    *)
OutcomeTruthful ==
    \A c \in Crawls : outer[c] = "closed" /\ c \notin shared =>
        /\ row[c] = "error" <=> c \in failed
        /\ row[c] = "completed" => net[c] # "run"

(* A failed crawl is never recorded as completed, whoever uses its entry.  *)
FailureRecorded ==
    \A c \in Crawls : (outer[c] = "closed" /\ c \in failed) => row[c] = "error"

(* After the pipeline is released, only a crawl whose timer fired still    *)
(* writes its source's row.                                                *)
NoLateOutcome ==
    [][\A c \in Crawls : (outer[c] = "closed" /\ row'[c] # row[c]) => c \in late]_vars

(* Every crawl a pipeline starts releases it and its VDI comes back: unless *)
(* no VDI could be acquired, its browser hangs under the operation mutex,  *)
(* or hanging browsers keep every VDI.                                     *)
PipelineReleased ==
    \A c \in Crawls : (outer[c] # "new") ~>
        \/ outer[c] = "closed" /\ lease[c] = None
        \/ outer[c] = "noVDI" \/ c \in hung
        \/ \A v \in VDIs : \E d \in hung : lease[d] = v
=============================================================================
