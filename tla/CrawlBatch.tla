----------------------------- MODULE CrawlBatch ------------------------------
(***************************************************************************)
(* One engine's crawl loop (cmd/thecrowler/main.go): checkSources fetches  *)
(* a batch of sources and crawlSources crawls it, with the configuration   *)
(* lock held for reading from the fetch to the end of the batch. Inside a  *)
(* batch run the loader, one goroutine per pipeline, the refill, the       *)
(* reports and the inactivity watchdog; they share the source channel, a   *)
(* few flags and the slice of pipeline statuses. A SIGHUP waits for the    *)
(* configuration lock.                                                     *)
(*                                                                         *)
(* A batch ends when a flag or the closed channel tells its pipelines so.  *)
(* The refill, reports and watchdog of a batch that has ended may live on: *)
(* what they still can do to shared state is in BatchEnd (a claim under    *)
(* way) and Heartbeat (statuses). What a crawl does, and placeholder       *)
(* sources ("null:" urls, deleted instead of crawled), are left out.       *)
(***************************************************************************)
EXTENDS Naturals, Sequences, FiniteSets

CONSTANTS
    Sources,      \* rows other engines do not hold
    N,            \* pipelines of a batch: len(config.Selenium)
    MaxSources,   \* Crawler.MaxSources: sources a batch starts with
    None,         \* no source, no status index
    RefillEarly,  \* the refill may run before the first load is done
    NetLingers,   \* network collection may outlive its crawl
    MaxStatus     \* bound: length of the slice of statuses

ASSUME SizeAssumption ==
    /\ N \in Nat \ {0} /\ MaxSources \in Nat \ {0}
    /\ MaxStatus \in N .. 2 * N
ASSUME SwitchAssumption == RefillEarly \in BOOLEAN /\ NetLingers \in BOOLEAN
ASSUME NoneAssumption == None \notin Sources \cup Nat

VARIABLES
    main,       \* where checkSources is
    batch,      \* sources fetched for the batch, not loaded yet
    queue,      \* sourceChan
    closed,     \* sourceChan is closed
    batchDone,  \* BatchCompleted
    plRunning,  \* PipelinesRunning
    rampUp,     \* RampUpRunning
    idle,       \* since LastActivity: 0 under a minute, 1, 2 over five minutes
    timer,      \* the refill's inactivity timer
    refill,     \* where the refill goroutine is
    hand,       \* sources the refill fetched and has not queued yet
    reports,    \* the reports goroutine is running
    watchdog,   \* where the watchdog is
    pc,         \* where each pipeline is
    job,        \* the source a pipeline crawls
    slot,       \* the index in statuses a pipeline works with, or None
    running,    \* PipelineStatus: PipelineRunning of each entry
    net,        \* entries whose network collection is still running
    stale,      \* crawls whose *Status points into an outgrown array
    sighup      \* the SIGHUP handler

mainVars   == <<main, batch>>
flags      == <<batchDone, plRunning, rampUp>>
refillVars == <<timer, refill, hand>>
pipeVars   == <<pc, job, slot, running, net, stale>>
helpers    == <<reports, watchdog>>
vars == <<main, batch, queue, closed, batchDone, plRunning, rampUp, idle, timer, refill,
          hand, reports, watchdog, pc, job, slot, running, net, stale, sighup>>

Pipelines == 1 .. N
Cap       == 2 * MaxSources   \* capacity of sourceChan
LowWater  == Cap \div 2

TypeOK ==
    /\ main \in {"idle", "load", "ramp", "wait", "crashed"}
    /\ batch \subseteq Sources /\ hand \subseteq Sources
    /\ queue \subseteq Sources /\ Cardinality(queue) <= Cap
    /\ closed \in BOOLEAN /\ batchDone \in BOOLEAN
    /\ plRunning \in BOOLEAN /\ rampUp \in BOOLEAN
    /\ idle \in 0 .. 2
    /\ timer \in {"armed", "fired", "off"}
    /\ refill \in {"poll", "lock", "fetch", "push", "gone"}
    /\ reports \in BOOLEAN
    /\ watchdog \in {"on", "closing", "gone"}
    /\ pc \in [Pipelines -> {"off", "poll", "crawl", "exited"}]
    /\ job \in [Pipelines -> Sources \cup {None}]
    /\ slot \in [Pipelines -> 1 .. MaxStatus \cup {None}]
    /\ running \in Seq(0 .. 2) /\ Len(running) <= MaxStatus
    /\ net \subseteq 1 .. Len(running)
    /\ stale \subseteq Pipelines
    /\ sighup \in {"none", "waiting", "reloading"}

Init ==
    /\ main = "idle" /\ batch = {} /\ queue = {} /\ closed = FALSE
    /\ batchDone = FALSE /\ plRunning = FALSE /\ rampUp = FALSE
    /\ idle = 0 /\ timer = "off" /\ refill = "gone" /\ hand = {}
    /\ reports = FALSE /\ watchdog = "gone"
    /\ pc = [p \in Pipelines |-> "off"]
    /\ job = [p \in Pipelines |-> None]
    /\ slot = [p \in Pipelines |-> None]
    /\ running = <<>> /\ net = {} /\ stale = {}
    /\ sighup = "none"

InBatch == main \in {"load", "ramp", "wait"}

(* Rows update_sources may return: not claimed by this engine already. *)
Claimable == Sources \ (batch \cup queue \cup hand \cup {job[p] : p \in Pipelines})

(* A panic: the process ends, and everything in its memory. *)
Panic ==
    /\ main' = "crashed"
    /\ batch' = {} /\ queue' = {} /\ hand' = {} /\ refill' = "gone" /\ timer' = "off"
    /\ closed' = FALSE /\ plRunning' = FALSE /\ rampUp' = FALSE /\ idle' = 0
    /\ reports' = FALSE /\ watchdog' = "gone"
    /\ pc' = [p \in Pipelines |-> "off"]
    /\ job' = [p \in Pipelines |-> None]
    /\ slot' = [p \in Pipelines |-> None]
    /\ running' = <<>> /\ net' = {} /\ stale' = {}
    /\ sighup' = "none"
    /\ UNCHANGED batchDone

(***************************************************************************)
(* checkSources and the body of crawlSources.                              *)
(***************************************************************************)
(* RLock is not granted while a writer holds or waits for the lock. A      *)
(* batch starts with fresh flags, channel and goroutines; the statuses are *)
(* those of the batches before.                                            *)
StartBatch ==
    /\ main = "idle" /\ sighup = "none"
    /\ \E B \in (SUBSET Claimable) \ {{}} : Cardinality(B) <= MaxSources /\ batch' = B
    /\ main' = "load"
    /\ queue' = {} /\ closed' = FALSE
    /\ batchDone' = FALSE /\ plRunning' = TRUE /\ rampUp' = TRUE
    /\ idle' = 0 /\ timer' = "armed" /\ refill' = "poll" /\ hand' = {}
    /\ reports' = TRUE /\ watchdog' = "on"
    /\ UNCHANGED <<pipeVars, sighup>>

(* Faulty variant: the channel is made too small for what is sent. *)
LoadUnbounded(s) ==
    /\ main = "load" /\ s \in batch /\ ~closed
    /\ queue' = queue \cup {s} /\ batch' = batch \ {s}
    /\ UNCHANGED <<main, closed, flags, idle, refillVars, helpers, pipeVars, sighup>>

(* Faulty variant: the list of sources is not advanced. *)
LoadAgain(s) ==
    /\ main = "load" /\ s \in batch /\ ~closed
    /\ Cardinality(queue) < Cap
    /\ queue' = queue \cup {s}
    /\ \/ batch' = batch \ {s}
       \/ UNCHANGED batch
    /\ UNCHANGED <<main, closed, flags, idle, refillVars, helpers, pipeVars, sighup>>

(* The first load: the loader blocks while the channel is full. *)
Load(s) ==
    /\ main = "load" /\ s \in batch /\ ~closed
    /\ Cardinality(queue) < Cap
    /\ queue' = queue \cup {s} /\ batch' = batch \ {s}
    /\ UNCHANGED <<main, closed, flags, idle, refillVars, helpers, pipeVars, sighup>>

LoadOnClosed == main = "load" /\ batch # {} /\ closed /\ Panic

LoadDone ==
    /\ main = "load" /\ batch = {}
    /\ main' = "ramp" /\ idle' = 0
    /\ UNCHANGED <<batch, queue, closed, flags, refillVars, helpers, pipeVars, sighup>>

(* Pipelines are started in order; with a ramp-up delay PipelinesRunning   *)
(* is set again before each.                                               *)
Spawn(p) ==
    /\ main = "ramp" /\ pc[p] = "off" /\ \A q \in 1 .. p - 1 : pc[q] # "off"
    /\ pc' = [pc EXCEPT ![p] = "poll"]
    /\ plRunning' \in {plRunning, TRUE}
    /\ idle' = 0
    /\ UNCHANGED <<mainVars, queue, closed, batchDone, rampUp, refillVars, helpers,
                   job, slot, running, net, stale, sighup>>

RampDone ==
    /\ main = "ramp" /\ \A p \in Pipelines : pc[p] # "off"
    /\ main' = "wait" /\ rampUp' = FALSE
    /\ UNCHANGED <<batch, queue, closed, batchDone, plRunning, idle, refillVars, helpers,
                   pipeVars, sighup>>

(* batchWg.Wait returns; the first N statuses are reset and the lock is    *)
(* released. What is left in the channel or in the refill's hands, and     *)
(* what a claim under way still takes, is claimed for nothing. (A send     *)
(* under way on a closed channel panics first.)                            *)
BatchEnd ==
    /\ main = "wait" /\ \A p \in Pipelines : pc[p] = "exited"
    /\ ~(refill = "push" /\ closed)
    /\ main' = "idle"
    /\ running' = [i \in 1 .. Len(running) |-> IF i <= N THEN 0 ELSE running[i]]
    /\ queue' = {} /\ hand' = {} /\ refill' = "gone" /\ timer' = "off"
    /\ reports' = FALSE /\ watchdog' = "gone" /\ idle' = 0
    /\ closed' = FALSE /\ plRunning' = FALSE /\ rampUp' = FALSE
    /\ pc' = [p \in Pipelines |-> "off"]
    /\ UNCHANGED <<batch, batchDone, job, slot, net, stale, sighup>>

(***************************************************************************)
(* A pipeline.                                                             *)
(***************************************************************************)
(* getAvailableOrNewPipelineStatus: the first entry that nothing runs on,  *)
(* whoever remembers its index, or a new one.                              *)
FreeStatuses == {i \in 1 .. Len(running) : running[i] # 1 /\ i \notin net}
IsFirst(i, S) == i \in S /\ \A k \in S : i <= k
StatusIndex(p, i) ==
    IF slot[p] # None THEN i = slot[p]
    ELSE IF FreeStatuses # {} THEN IsFirst(i, FreeStatuses)
    ELSE i = Len(running) + 1 /\ i <= MaxStatus

(* Append moves the slice to a larger array when it outgrows its capacity, *)
(* N at first and 2 N then: crawls under way keep writing to the old one.  *)
Outgrown(i) == i = N + 1 /\ Len(running) = N
Crawling == {p \in Pipelines : pc[p] = "crawl"}

Take(p) ==
    /\ pc[p] = "poll" /\ ~batchDone
    /\ \E s \in queue :
         /\ queue' = queue \ {s}
         /\ job' = [job EXCEPT ![p] = s]
    /\ \E i \in 1 .. Len(running) + 1 :
         /\ StatusIndex(p, i)
         /\ slot' = [slot EXCEPT ![p] = i]
         /\ running' = IF i > Len(running) THEN Append(running, 1)
                       ELSE [running EXCEPT ![i] = 1]
         /\ net' = net \ {i}
         /\ stale' = (IF Outgrown(i) THEN Crawling ELSE stale) \ {p}
    /\ pc' = [pc EXCEPT ![p] = "crawl"]
    /\ idle' = 0
    /\ UNCHANGED <<mainVars, closed, flags, refillVars, helpers, sighup>>

(* BatchCompleted is set, or the channel is closed and drained. *)
Exit(p) ==
    /\ pc[p] = "poll" /\ (batchDone \/ (closed /\ queue = {}))
    /\ pc' = [pc EXCEPT ![p] = "exited"]
    /\ slot' = [slot EXCEPT ![p] = None]
    /\ UNCHANGED <<mainVars, queue, closed, flags, idle, refillVars, helpers,
                   job, running, net, stale, sighup>>

(* RefreshLastActivity, called by a crawl. *)
Refresh(p) ==
    /\ pc[p] = "crawl" /\ idle' = 0
    /\ UNCHANGED <<mainVars, queue, closed, flags, refillVars, helpers, pipeVars, sighup>>

(* Faulty variant: the entry is not marked. *)
FinishUnmarked(p) ==
    /\ pc[p] = "crawl"
    /\ job' = [job EXCEPT ![p] = None]
    /\ pc' = [pc EXCEPT ![p] = "poll"]
    /\ idle' = 0
    /\ UNCHANGED <<mainVars, queue, closed, flags, refillVars, helpers,
                   slot, running, net, stale, sighup>>

(* The crawl ends: crawlWG is released, the entry says completed or error. *)
(* The pipeline keeps its index unless network collection still runs on it *)
Finish(p) ==
    /\ pc[p] = "crawl"
    /\ running' = IF p \in stale THEN running ELSE [running EXCEPT ![slot[p]] = 2]
    /\ \E lingers \in {FALSE, NetLingers} :
         net' = IF lingers /\ p \notin stale THEN net \cup {slot[p]} ELSE net
    /\ slot' = [slot EXCEPT ![p] = IF slot[p] \in net' THEN None ELSE slot[p]]
    /\ stale' = stale \ {p}
    /\ job' = [job EXCEPT ![p] = None]
    /\ pc' = [pc EXCEPT ![p] = "poll"]
    /\ idle' = 0
    /\ UNCHANGED <<mainVars, queue, closed, flags, refillVars, helpers, sighup>>

NetDone(i) ==
    /\ i \in net /\ net' = net \ {i}
    /\ UNCHANGED <<mainVars, queue, closed, flags, idle, refillVars, helpers,
                   pc, job, slot, running, stale, sighup>>

(***************************************************************************)
(* Reports and the watchdog.                                               *)
(***************************************************************************)
(* Faulty variant: completed entries are reported for ever. *)
ClearedNever == running

(* logStatus shows a completed or failed entry once. *)
Cleared == [i \in 1 .. Len(running) |-> IF running[i] = 2 THEN 0 ELSE running[i]]

Report ==
    /\ reports
    /\ running' = Cleared
    /\ LET over == (\A i \in 1 .. Len(running) : running[i] = 0) /\ ~rampUp IN
         /\ reports' = ~over
         /\ plRunning' = (plRunning /\ ~over)
    /\ UNCHANGED <<mainVars, queue, closed, batchDone, rampUp, idle, refillVars, watchdog,
                   pc, job, slot, net, stale, sighup>>

(* The heartbeat event clears the entries too, and so do the reports of a  *)
(* batch that is over.                                                     *)
Heartbeat ==
    /\ running # Cleared /\ running' = Cleared
    /\ UNCHANGED <<mainVars, queue, closed, flags, idle, refillVars, helpers,
                   pc, job, slot, net, stale, sighup>>

WatchdogTest ==
    /\ watchdog = "on" /\ idle = 2 /\ ~plRunning /\ ~rampUp
    /\ watchdog' = "closing"
    /\ UNCHANGED <<mainVars, queue, closed, flags, idle, refillVars, reports, pipeVars, sighup>>

WatchdogClose ==
    /\ watchdog = "closing"
    /\ watchdog' = "gone" /\ batchDone' = TRUE /\ closed' = TRUE
    /\ UNCHANGED <<mainVars, queue, plRunning, rampUp, idle, refillVars, reports,
                   pipeVars, sighup>>

(***************************************************************************)
(* The refill goroutine.                                                   *)
(***************************************************************************)
RefillRuns == RefillEarly \/ main # "load"

(* The timer fired: go on if something was heard of within a minute, give  *)
(* up the batch (the timer is not armed again) or, when the others have    *)
(* given up already, return and close the channel.                         *)
RefillTimer ==
    /\ refill = "poll" /\ timer = "fired" /\ RefillRuns
    /\ IF plRunning \/ rampUp
       THEN /\ timer' = IF idle = 0 THEN "armed" ELSE "off"
            /\ plRunning' = (plRunning /\ idle = 0)
            /\ rampUp' = (rampUp /\ idle = 0)
            /\ batchDone' = (batchDone \/ idle # 0)
            /\ UNCHANGED <<refill, closed>>
       ELSE /\ refill' = "gone" /\ timer' = "off"
            /\ closed' = TRUE /\ batchDone' = TRUE
            /\ UNCHANGED <<plRunning, rampUp>>
    /\ UNCHANGED <<mainVars, queue, idle, hand, helpers, pipeVars, sighup>>

(* Otherwise it asks for the configuration lock ... *)
RefillLock ==
    /\ refill = "poll" /\ timer # "fired" /\ RefillRuns
    /\ refill' = "lock"
    /\ UNCHANGED <<mainVars, queue, closed, flags, idle, timer, hand, helpers, pipeVars, sighup>>

(* ... which a waiting writer keeps it from, and looks at the schedule,    *)
(* which may have ended.                                                   *)
RefillInactive ==
    /\ refill = "lock" /\ sighup = "none"
    /\ batchDone' = TRUE /\ closed' = TRUE
    /\ refill' = "gone" /\ timer' = "off"
    /\ UNCHANGED <<mainVars, queue, plRunning, rampUp, idle, hand, helpers, pipeVars, sighup>>

(* On schedule: fetch when a VDI is available and the queue is low. VDIs   *)
(* are also used by others: their number is not tracked.                   *)
RefillCheck ==
    /\ refill = "lock" /\ sighup = "none"
    /\ \E available \in BOOLEAN :
         IF available /\ Cardinality(queue) < LowWater
         THEN IF batchDone
              THEN /\ refill' = "poll"
                   /\ timer' = IF idle = 0 THEN "armed" ELSE timer
              ELSE refill' = "fetch" /\ UNCHANGED timer
         ELSE /\ refill' = "poll"
              /\ timer' = IF ~available \/ Cardinality(queue) >= Cap THEN "armed" ELSE timer
    /\ UNCHANGED <<mainVars, queue, closed, flags, idle, hand, helpers, pipeVars, sighup>>

(* The claim fails or finds nothing. *)
RefillNothing ==
    /\ refill = "fetch"
    /\ refill' = "poll"
    /\ timer' \in {timer, IF idle = 0 THEN "armed" ELSE timer}
    /\ UNCHANGED <<mainVars, queue, closed, flags, idle, hand, helpers, pipeVars, sighup>>

(* The claim returns sources (as many as the channel has room for when it  *)
(* is low, Cap at most); they are dropped if the batch was given up in the *)
(* meantime.                                                               *)
RefillFetched ==
    /\ refill = "fetch"
    /\ \E F \in (SUBSET Claimable) \ {{}} :
         /\ Cardinality(F) <= Cap
         /\ hand' = IF batchDone THEN {} ELSE F
    /\ refill' = IF batchDone THEN "poll" ELSE "push"
    /\ idle' = 0
    /\ UNCHANGED <<mainVars, queue, closed, flags, timer, helpers, pipeVars, sighup>>

(* Faulty variant: the send is a select with a default. *)
RefillPushOrDrop(s) ==
    /\ refill = "push" /\ s \in hand /\ ~closed
    /\ queue' = IF Cardinality(queue) < Cap THEN queue \cup {s} ELSE queue
    /\ hand' = hand \ {s}
    /\ IF hand' = {} THEN refill' = "poll" /\ timer' = "armed"
                     ELSE UNCHANGED <<refill, timer>>
    /\ UNCHANGED <<mainVars, closed, flags, idle, helpers, pipeVars, sighup>>

RefillPush(s) ==
    /\ refill = "push" /\ s \in hand /\ ~closed
    /\ Cardinality(queue) < Cap
    /\ queue' = queue \cup {s} /\ hand' = hand \ {s}
    /\ IF hand' = {} THEN refill' = "poll" /\ timer' = "armed"
                     ELSE UNCHANGED <<refill, timer>>
    /\ UNCHANGED <<mainVars, closed, flags, idle, helpers, pipeVars, sighup>>

(* The recover of the goroutine's deferred function sits in a second       *)
(* deferred function, where it recovers nothing.                           *)
RefillPushOnClosed == refill = "push" /\ closed /\ Panic

(***************************************************************************)
(* Time and SIGHUP.                                                        *)
(***************************************************************************)
Tick ==
    /\ InBatch /\ idle < 2 /\ idle' = idle + 1
    /\ UNCHANGED <<mainVars, queue, closed, flags, refillVars, helpers, pipeVars, sighup>>

TimerFires ==
    /\ timer = "armed" /\ timer' = "fired"
    /\ UNCHANGED <<mainVars, queue, closed, flags, idle, refill, hand, helpers, pipeVars, sighup>>

Sighup ==
    /\ main # "crashed" /\ sighup = "none" /\ sighup' = "waiting"
    /\ UNCHANGED <<mainVars, queue, closed, flags, idle, refillVars, helpers, pipeVars>>

(* Faulty variant: the batch does not hold the lock. *)
ReloadAnyTime ==
    /\ main # "crashed" /\ sighup = "waiting"
    /\ sighup' = "reloading"
    /\ UNCHANGED <<mainVars, queue, closed, flags, idle, refillVars, helpers, pipeVars>>

(* The writer gets the lock when the reader, the batch, is gone. *)
Reload ==
    /\ main = "idle" /\ sighup = "waiting"
    /\ sighup' = "reloading"
    /\ UNCHANGED <<mainVars, queue, closed, flags, idle, refillVars, helpers, pipeVars>>

ReloadDone ==
    /\ sighup = "reloading" /\ sighup' = "none"
    /\ UNCHANGED <<mainVars, queue, closed, flags, idle, refillVars, helpers, pipeVars>>

MainStep ==
    \/ StartBatch \/ LoadOnClosed \/ LoadDone \/ RampDone \/ BatchEnd
    \/ \E s \in Sources : Load(s)
    \/ \E p \in Pipelines : Spawn(p)

RefillStep ==
    \/ RefillTimer \/ RefillLock \/ RefillInactive \/ RefillCheck
    \/ RefillNothing \/ RefillFetched \/ RefillPushOnClosed
    \/ \E s \in Sources : RefillPush(s)

Next ==
    \/ MainStep
    \/ RefillStep
    \/ \E p \in Pipelines : Take(p) \/ Exit(p) \/ Refresh(p) \/ Finish(p)
    \/ \E i \in 1 .. MaxStatus : NetDone(i)
    \/ Report \/ Heartbeat \/ WatchdogTest \/ WatchdogClose
    \/ Tick \/ TimerFires \/ Sighup \/ Reload \/ ReloadDone

Spec == Init /\ [][Next]_vars

(***************************************************************************)
(* Goroutines are scheduled, timers fire, a crawl and a network collection *)
(* end (they have their own timeouts). Nothing makes sources or signals    *)
(* come, or the schedule end.                                              *)
(***************************************************************************)
Fairness ==
    /\ WF_vars(LoadDone) /\ WF_vars(RampDone) /\ WF_vars(BatchEnd)
    /\ WF_vars(\E s \in Sources : Load(s)) /\ WF_vars(LoadOnClosed)
    /\ \A p \in Pipelines :
         WF_vars(Spawn(p)) /\ WF_vars(Take(p)) /\ WF_vars(Finish(p)) /\ WF_vars(Exit(p))
    /\ \A i \in 1 .. MaxStatus : WF_vars(NetDone(i))
    /\ WF_vars(RefillStep) /\ WF_vars(Report)
    /\ WF_vars(WatchdogTest) /\ WF_vars(WatchdogClose)
    /\ WF_vars(Tick) /\ WF_vars(TimerFires)
    /\ WF_vars(Reload) /\ WF_vars(ReloadDone)

FairSpec == Spec /\ Fairness

(***************************************************************************)
(* Properties.                                                             *)
(***************************************************************************)
(* A source of the engine is in one place: the list being loaded, the      *)
(* channel, the refill's hands, one pipeline.                              *)
OnePlace ==
    /\ batch \cap queue = {} /\ batch \cap hand = {} /\ queue \cap hand = {}
    /\ \A p \in Crawling :
         /\ job[p] \notin batch \cup queue \cup hand
         /\ \A q \in Crawling : job[q] = job[p] => q = p

(* A reload replaces the configuration and the VDI pool only when no       *)
(* pipeline of the engine is crawling or may start to.                     *)
ReloadWaitsForJobs ==
    sighup = "reloading" => ~InBatch /\ Crawling = {}

(* A fetched source leaves the engine without having been crawled only     *)
(* after the batch was given up (or with the process).                     *)
NothingDropped ==
    [][ (batch \cup queue \cup hand) \ (batch' \cup queue' \cup hand' \cup
         {job'[p] : p \in Pipelines}) # {}  =>  batchDone \/ main' = "crashed" ]_vars

(* Refill blocked by the waiting writer or not, new sources or not, the    *)
(* batch ends and a SIGHUP gets its reload (or the process dies).          *)
ReloadHappens == (sighup = "waiting") ~> sighup # "waiting"

(* An entry says running only while some pipeline crawls on it.            *)
StatusTruthful ==
    \A i \in 1 .. Len(running) :
        running[i] = 1 => \E p \in Crawling : slot[p] = i

(* Each pipeline has its own entry in the slice of statuses. *)
StatusSlotExclusive ==
    \A p, q \in Crawling : slot[p] = slot[q] => p = q

(* Nobody sends on a closed channel. *)
NoSendOnClosed == main # "crashed"
=============================================================================
