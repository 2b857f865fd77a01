---------------------------- MODULE CrawlWorkers -----------------------------
(***************************************************************************)
(* The crawling of the links of one source (crawler.go): the depth loop of *)
(* CrawlWebsite's inner goroutine and the workers it starts for every      *)
(* depth. The workers take links from the jobs channel until it is closed  *)
(* and empty, and share, without a lock, the map of visited links and the  *)
(* counter of pages. Workers that collect network and HTTP information are *)
(* taken off the configured number first.                                  *)
(*                                                                         *)
(* Meanwhile the timer of the crawl may fire (PipelineRunning 3), the      *)
(* report may reset that flag, and closeSession of a timed-out crawl       *)
(* clears the map and the list under the workers.                          *)
(***************************************************************************)
EXTENDS Naturals, Sequences, FiniteSets

CONSTANTS
    Links,        \* normalized URLs of the site
    Home,         \* the URL of the source, loaded first
    LinksOn,      \* LinksOn[u]: the links found on page u
    Skipped,      \* links skipURL rejects
    Workers,      \* Crawler.Workers
    HTTPHeaders,  \* HTTPHeaders.Enabled: one more worker is taken off
    MaxLinks,     \* Crawler.MaxLinks, 0: no limit
    MaxDepth,     \* Crawler.MaxDepth, 0: no limit
    None          \* a worker without a link

Used == IF HTTPHeaders THEN 2 ELSE 1

(* make(chan error, Workers - Used) and the loop that starts the workers.  *)
ASSUME WorkersAssumption == Workers \in Nat /\ HTTPHeaders \in BOOLEAN /\ Used <= Workers
ASSUME SiteAssumption ==
    /\ Home \in Links /\ LinksOn \in [Links -> Seq(Links)]
    /\ Skipped \subseteq Links /\ None \notin Links
ASSUME LimitAssumption == MaxLinks \in Nat /\ MaxDepth \in Nat

W == 1 .. Workers - Used

(* checkMaxDepth; with no limit the loop moves maxDepth along. *)
DepthLimit == IF MaxDepth = 0 THEN 1 ELSE MaxDepth

VARIABLES
    phase,     \* "crawl", "done", "failed" (critical error), "crashed"
    left,      \* maxDepth - currentDepth: depths that may still be crawled
    jobs,      \* the jobs channel of this depth
    pc,        \* where each worker is
    link,      \* the link a worker has
    result,    \* how its page went
    pages,     \* Status.TotalPages
    visited,   \* visitedLinks
    newLinks,  \* links found at this depth
    errs,      \* errors in errChan
    stop,      \* Status.PipelineRunning > 1
    late,      \* the timer has fired
    cleared,   \* closeSession has cleared the map and the list
    halted,    \* history: a worker of this depth saw the flag
    tries      \* history: how often each page was loaded

loop == <<phase, left, jobs, newLinks>>
envVars == <<stop, late, cleared>>
vars == <<phase, left, jobs, pc, link, result, pages, visited, newLinks, errs, stop, late,
          cleared, halted, tries>>

TypeOK ==
    /\ phase \in {"crawl", "done", "failed", "crashed"}
    /\ left \in Nat /\ jobs \in Seq(Links) /\ newLinks \in Seq(Links)
    /\ pc \in [W -> {"idle", "busy", "marking", "out"}]
    /\ link \in [W -> Links \cup {None}]
    /\ result \in [W -> {"ok", "error", "critical"}]
    /\ pages \in Nat /\ visited \subseteq Links
    /\ errs \in Nat /\ errs <= Workers - Used
    /\ stop \in BOOLEAN /\ late \in BOOLEAN /\ cleared \in BOOLEAN /\ halted \in BOOLEAN
    /\ tries \in [Links -> Nat]

(* The first page is in (CrawlInitialURL); a restricted source is not      *)
(* crawled any further.                                                    *)
Init ==
    /\ phase \in (IF LinksOn[Home] = <<>> THEN {"done"} ELSE {"crawl", "done"})
    /\ left = DepthLimit /\ jobs = LinksOn[Home] /\ newLinks = <<>>
    /\ pc = [w \in W |-> "idle"] /\ link = [w \in W |-> None]
    /\ result = [w \in W |-> "ok"]
    /\ pages = 1 /\ visited = {Home} /\ errs = 0
    /\ stop = FALSE /\ late = FALSE /\ cleared = FALSE /\ halted = FALSE
    /\ tries = [u \in Links |-> IF u = Home THEN 1 ELSE 0]

(* Faulty: off by one. *)
FullOffByOne == MaxLinks > 0 /\ pages > MaxLinks

(* The limit on pages. *)
Full == MaxLinks > 0 /\ pages >= MaxLinks

(***************************************************************************)
(* A worker.                                                               *)
(***************************************************************************)
(* Takes a link from the channel and returns, drops it or loads its page.  *)
Receive(w) ==
    /\ phase = "crawl" /\ pc[w] = "idle" /\ jobs # <<>>
    /\ jobs' = Tail(jobs)
    /\ LET u == Head(jobs) IN
         \/ /\ stop \/ Full
            /\ pc' = [pc EXCEPT ![w] = "out"]
            /\ halted' = (halted \/ stop)
            /\ UNCHANGED <<link, tries>>
         \/ /\ ~stop /\ ~Full /\ u \in Skipped \cup visited
            /\ UNCHANGED <<pc, link, halted, tries>>
         \/ /\ ~stop /\ ~Full /\ u \notin Skipped \cup visited
            /\ pc' = [pc EXCEPT ![w] = "busy"]
            /\ link' = [link EXCEPT ![w] = u]
            /\ tries' = [tries EXCEPT ![u] = @ + 1]
            /\ UNCHANGED halted
    /\ UNCHANGED <<phase, left, newLinks, result, pages, visited, errs, envVars>>

(* The channel is closed and empty. *)
Drained(w) ==
    /\ phase = "crawl" /\ pc[w] = "idle" /\ jobs = <<>>
    /\ pc' = [pc EXCEPT ![w] = "out"]
    /\ UNCHANGED <<loop, link, result, pages, visited, errs, envVars, halted, tries>>

(* processJob: a page that is loaded is entered in the map and its links   *)
(* are appended, also when indexing it fails or it is found to be stale.   *)
Process(w) ==
    /\ phase = "crawl" /\ pc[w] = "busy"
    /\ \E r \in {"ok", "error", "critical"}, loaded \in BOOLEAN :
         /\ result' = [result EXCEPT ![w] = r]
         /\ IF loaded
            THEN visited' = visited \cup {link[w]} /\ newLinks' = newLinks \o LinksOn[link[w]]
            ELSE UNCHANGED <<visited, newLinks>>
    /\ pc' = [pc EXCEPT ![w] = "marking"]
    /\ UNCHANGED <<phase, left, jobs, link, pages, errs, envVars, halted, tries>>

(* Faulty: only pages that were loaded are entered in the map. *)
MarkLoadedOnly(w) ==
    /\ phase = "crawl" /\ pc[w] = "marking"
    /\ pages' = IF result[w] = "ok" THEN pages + 1 ELSE pages
    /\ errs' = IF result[w] = "critical" THEN errs + 1 ELSE errs
    /\ pc' = [pc EXCEPT ![w] = IF result[w] = "critical" \/ Full' THEN "out" ELSE "idle"]
    /\ link' = [link EXCEPT ![w] = None]
    /\ UNCHANGED <<loop, result, visited, envVars, halted, tries>>

(* Faulty: a worker leaves on any error, and sends only the critical ones. *)
MarkGivesUp(w) ==
    /\ phase = "crawl" /\ pc[w] = "marking"
    /\ visited' = visited \cup {link[w]}
    /\ pages' = IF result[w] = "ok" THEN pages + 1 ELSE pages
    /\ errs' = IF result[w] = "critical" THEN errs + 1 ELSE errs
    /\ pc' = [pc EXCEPT ![w] = IF result[w] # "ok" \/ Full' THEN "out" ELSE "idle"]
    /\ link' = [link EXCEPT ![w] = None]
    /\ UNCHANGED <<loop, result, envVars, halted, tries>>

(* Faulty: a worker sends every error and goes on. *)
MarkSendsAll(w) ==
    /\ phase = "crawl" /\ pc[w] = "marking"
    /\ visited' = visited \cup {link[w]}
    /\ pages' = IF result[w] = "ok" THEN pages + 1 ELSE pages
    /\ errs' = IF result[w] = "ok" THEN errs ELSE errs + 1
    /\ pc' = [pc EXCEPT ![w] = IF Full' THEN "out" ELSE "idle"]
    /\ link' = [link EXCEPT ![w] = None]
    /\ UNCHANGED <<loop, result, envVars, halted, tries>>

(* The worker's own write to the map, the counter, and its way on. *)
Mark(w) ==
    /\ phase = "crawl" /\ pc[w] = "marking"
    /\ visited' = visited \cup {link[w]}
    /\ pages' = IF result[w] = "ok" THEN pages + 1 ELSE pages
    /\ errs' = IF result[w] = "critical" THEN errs + 1 ELSE errs
    /\ pc' = [pc EXCEPT ![w] = IF result[w] = "critical" \/ Full' THEN "out" ELSE "idle"]
    /\ link' = [link EXCEPT ![w] = None]
    /\ UNCHANGED <<loop, result, envVars, halted, tries>>

(* Two goroutines in the map, one of them writing: Go may end the process. *)
Writing(w) == pc[w] = "marking"
Reading(w) == pc[w] = "idle" /\ jobs # <<>> /\ ~stop /\ ~Full
MapRace(w, x) == w # x /\ Writing(w) /\ (Writing(x) \/ Reading(x))
MapCrash ==
    /\ phase = "crawl"
    /\ \E w, x \in W : MapRace(w, x)
    /\ phase' = "crashed"
    /\ UNCHANGED <<left, jobs, newLinks, pc, link, result, pages, visited, errs, envVars,
                   halted, tries>>

(***************************************************************************)
(* The depth loop.                                                         *)
(***************************************************************************)
AllOut == \A w \in W : pc[w] = "out"

(* The links for the next depth, no more than MaxLinks leaves room for. *)
Kept ==
    IF MaxLinks = 0 \/ pages + Len(newLinks) <= MaxLinks THEN newLinks
    ELSE IF pages >= MaxLinks THEN <<>>
    ELSE SubSeq(newLinks, 1, MaxLinks - pages)

(* Faulty: the list of new links is not reset. *)
NextDepthKeeps ==
    /\ phase = "crawl" /\ AllOut /\ errs = 0
    /\ left' = IF MaxDepth = 0 THEN left ELSE left - 1
    /\ IF Kept # <<>> /\ left' > 0
       THEN jobs' = Kept /\ pc' = [w \in W |-> "idle"] /\ halted' = FALSE /\ UNCHANGED phase
       ELSE phase' = "done" /\ UNCHANGED <<jobs, pc, halted>>
    /\ UNCHANGED <<newLinks, link, result, pages, visited, errs, envVars, tries>>

(* wg.Wait has returned and no error is critical: the next depth. *)
NextDepth ==
    /\ phase = "crawl" /\ AllOut /\ errs = 0
    /\ left' = IF MaxDepth = 0 THEN left ELSE left - 1
    /\ IF Kept # <<>> /\ left' > 0
       THEN jobs' = Kept /\ pc' = [w \in W |-> "idle"] /\ halted' = FALSE /\ UNCHANGED phase
       ELSE phase' = "done" /\ UNCHANGED <<jobs, pc, halted>>
    /\ newLinks' = <<>>
    /\ UNCHANGED <<link, result, pages, visited, errs, envVars, tries>>

(* Every error a worker returns is critical. *)
Failed ==
    /\ phase = "crawl" /\ AllOut /\ errs > 0
    /\ phase' = "failed"
    /\ UNCHANGED <<left, jobs, newLinks, pc, link, result, pages, visited, errs, envVars,
                   halted, tries>>

(***************************************************************************)
(* What happens around it.                                                 *)
(***************************************************************************)
Timeout ==
    /\ phase = "crawl" /\ ~late
    /\ late' = TRUE /\ stop' = TRUE
    /\ UNCHANGED <<loop, pc, link, result, pages, visited, errs, cleared, halted, tries>>

(* closeSession, under linksMutex, which the workers take for the list but *)
(* not for the map. Writing to a nil map ends the process.                 *)
CloseSession ==
    /\ phase = "crawl" /\ late /\ ~cleared
    /\ cleared' = TRUE /\ visited' = {} /\ newLinks' = <<>>
    /\ phase' \in IF \E w \in W : Writing(w) THEN {phase, "crashed"} ELSE {phase}
    /\ UNCHANGED <<left, jobs, pc, link, result, pages, errs, stop, late, halted, tries>>

(* logStatus resets the flag, or the pipeline's next crawl does. *)
Reset ==
    /\ stop /\ stop' = FALSE
    /\ UNCHANGED <<loop, pc, link, result, pages, visited, errs, late, cleared, halted, tries>>

WorkerStep(w) == Receive(w) \/ Drained(w) \/ Process(w) \/ Mark(w)

Next ==
    \/ \E w \in W : WorkerStep(w)
    \/ MapCrash \/ NextDepth \/ Failed
    \/ Timeout \/ CloseSession \/ Reset

Spec == Init /\ [][Next]_vars

(* Workers and the loop run, and a page ends (getWithTimeout). *)
Fairness == (\A w \in W : WF_vars(WorkerStep(w))) /\ WF_vars(NextDepth) /\ WF_vars(Failed)
FairSpec == Spec /\ Fairness

(***************************************************************************)
(* Properties.                                                             *)
(***************************************************************************)
(* MaxLinks is tested before a page is loaded and the page counted after:  *)
(* the workers together overshoot it by less than their number.            *)
PagesBounded ==
    MaxLinks > 0 => pages <= MaxLinks + Cardinality(W) - 1

(* A link is tested against the map before its page is loaded and entered  *)
(* after: the workers may load it again, but each of them once, until      *)
(* closeSession clears the map.                                            *)
PageRepeats == ~cleared => \A u \in Links : tries[u] <= Cardinality(W)

(* A depth ends with links left in the channel only because of the flag,   *)
(* the limit or a critical error.                                          *)
AllLinksTried ==
    (phase = "crawl" /\ AllOut) => jobs = <<>> \/ halted \/ Full \/ errs > 0

(* "visitedLinks update (make sure this is protected if used concurrently  *)
(* elsewhere)" (web.go): nobody is in the map while a worker writes to it. *)
VisitedProtected == phase = "crawl" => \A w, x \in W : ~MapRace(w, x)

(* Even with no limit on depth and a site full of loops the crawl ends.    *)
CrawlEnds == <>(phase # "crawl")
=============================================================================
