----------------------------- MODULE SourceClaim -----------------------------
(***************************************************************************)
(* The life of a row of the Sources table, and of the crawls engines run   *)
(* for it. Engines share nothing but the database: they claim sources with *)
(* the SQL function update_sources inside a transaction                    *)
(* (retrieveAvailableSources), queue and crawl them, and write the outcome *)
(* with UpdateSourceState. Meanwhile listeners and imports reschedule      *)
(* sources, the console API edits rows, and an operator may set a status.  *)
(* Time is counted in ticks since a row's last_updated_at, which a trigger *)
(* sets on every UPDATE. Disabled sources and sources of other priorities  *)
(* are never eligible and are left out.                                    *)
(***************************************************************************)
EXTENDS Integers, FiniteSets

CONSTANTS
    Sources,       \* rows of Sources
    Rank,          \* Rank[s]: place of s in ORDER BY sub_priority DESC, source_id
    Engines,       \* crawler processes
    Jobs,          \* bound: fetched sources the engines may have at once
    None,          \* no engine, no source, no edit
    Limit,         \* rows a claim may take (Crawler.MaxSources)
    IfOk,          \* Crawler.CrawlingIfOk in ticks, or Off
    Interval,      \* Crawler.CrawlingInterval in ticks, or Off
    IfError,       \* Crawler.CrawlingIfError in ticks
    Timeout,       \* Crawler.ProcessingTimeout in ticks
    MaxAge,        \* bound: ages are not told apart from here on
    EditsEnabled,  \* console edits happen in this instance
    ImportsEnabled,\* sources in work are imported again in this instance
    CLIEnabled     \* cmd/updateSourceStatus is run in this instance

Off == -1          \* an empty interval in the configuration

ASSUME RankAssumption ==
    /\ Rank \in [Sources -> Int]
    /\ \A s, t \in Sources : Rank[s] = Rank[t] => s = t
ASSUME NoneAssumption == None \notin Engines \cup Sources
ASSUME TimesAssumption ==
    /\ IfOk \in Nat \cup {Off} /\ Interval \in Nat \cup {Off}
    /\ IfError \in Nat /\ Timeout \in Nat \ {0} /\ MaxAge \in Nat
    /\ IfOk < MaxAge /\ Interval < MaxAge /\ IfError < MaxAge /\ Timeout < MaxAge
ASSUME LimitAssumption == Limit \in Nat \ {0}
ASSUME SwitchAssumption ==
    EditsEnabled \in BOOLEAN /\ ImportsEnabled \in BOOLEAN /\ CLIEnabled \in BOOLEAN

VARIABLES
    status,     \* Sources.status
    engine,     \* Sources.engine: who claimed the row last
    age,        \* ticks since Sources.last_updated_at
    st,         \* where each job is
    src,        \* the source of the job
    eng,        \* the engine that runs the job
    run,        \* ticks since the job's crawl started
    edit,       \* status a console edit read and will write back, or None
    disturbed   \* history: see Disturbing below

rowVars == <<status, engine, age>>
jobVars == <<st, src, eng, run>>
vars    == <<status, engine, age, st, src, eng, run, edit, disturbed>>

Statuses == {"new", "pending", "processing", "completed", "error"}

(***************************************************************************)
(* A job is "claiming" while its engine's claim transaction holds the row  *)
(* lock, "queued" once it is in sourceChan, "crawling" in CrawlWebsite.    *)
(***************************************************************************)
Phases == {"free", "claiming", "queued", "crawling"}

TypeOK ==
    /\ status \in [Sources -> Statuses]
    /\ engine \in [Sources -> Engines \cup {None}]
    /\ age \in [Sources -> 0 .. MaxAge]
    /\ st \in [Jobs -> Phases]
    /\ src \in [Jobs -> Sources \cup {None}]
    /\ eng \in [Jobs -> Engines \cup {None}]
    /\ run \in [Jobs -> 0 .. Timeout]
    /\ edit \in [Sources -> Statuses \cup {None}]
    /\ disturbed \in BOOLEAN

Init ==
    /\ status = [s \in Sources |-> "new"]
    /\ engine = [s \in Sources |-> None]
    /\ age = [s \in Sources |-> 0]
    /\ st = [j \in Jobs |-> "free"]
    /\ src = [j \in Jobs |-> None]
    /\ eng = [j \in Jobs |-> None]
    /\ run = [j \in Jobs |-> 0]
    /\ edit = [s \in Sources |-> None]
    /\ disturbed = FALSE

(* A row claimed by a transaction that has not ended. *)
Locked(s) == \E j \in Jobs : st[j] = "claiming" /\ src[j] = s

(* A source some engine has fetched and not finished with. *)
Live(j)    == st[j] \in {"queued", "crawling"}
LiveOn(s)  == \E j \in Jobs : Live(j) /\ src[j] = s

(* An UPDATE of row s: the trigger moves last_updated_at. *)
Write(s, newStatus) ==
    /\ status' = [status EXCEPT ![s] = newStatus]
    /\ age' = [age EXCEPT ![s] = 0]

(* The jobs of set J end. *)
Free(J) ==
    /\ st' = [j \in Jobs |-> IF j \in J THEN "free" ELSE st[j]]
    /\ src' = [j \in Jobs |-> IF j \in J THEN None ELSE src[j]]
    /\ eng' = [j \in Jobs |-> IF j \in J THEN None ELSE eng[j]]
    /\ run' = [j \in Jobs |-> IF j \in J THEN 0 ELSE run[j]]

(***************************************************************************)
(* Claiming.                                                               *)
(***************************************************************************)
(* Faulty variant: rows left processing are never taken back. *)
EligibleNoTimeout(s) ==
    \/ IfOk # Off /\ age[s] > IfOk
    \/ Interval # Off /\ status[s] = "completed" /\ age[s] > Interval
    \/ status[s] = "error" /\ age[s] > IfError
    \/ status[s] \in {"pending", "new"}

(* The WHERE clause of update_sources. The first disjunct has no condition *)
(* on the status: a source being processed is fetched again when           *)
(* CrawlingIfOk is shorter than its crawl.                                 *)
Eligible(s) ==
    \/ IfOk # Off /\ age[s] > IfOk
    \/ Interval # Off /\ status[s] = "completed" /\ age[s] > Interval
    \/ status[s] = "error" /\ age[s] > IfError
    \/ status[s] \in {"pending", "new"}
    \/ status[s] = "processing" /\ age[s] > Timeout

(* Faulty variant: SKIP LOCKED is lost. *)
SelectableAll == {s \in Sources : Eligible(s)}

(* Rows the SELECT ... FOR UPDATE SKIP LOCKED sees. *)
Selectable == {s \in Sources : Eligible(s) /\ ~Locked(s)}

(* ORDER BY ... LIMIT over the rows in E. *)
TopRows(E) ==
    {s \in E : Cardinality({t \in E : Rank[t] < Rank[s]}) < Limit}

(* Engine e runs update_sources: the rows are locked until the             *)
(* transaction ends. One transaction per engine at a time.                 *)
ClaimBegin(e) ==
    LET S == TopRows(Selectable) IN
    /\ S # {}
    /\ \A j \in Jobs : eng[j] = e => st[j] # "claiming"
    /\ \E f \in [S -> {j \in Jobs : st[j] = "free"}] :
         /\ \A s, t \in S : f[s] = f[t] => s = t
         /\ st' = [j \in Jobs |-> IF \E s \in S : f[s] = j THEN "claiming" ELSE st[j]]
         /\ src' = [j \in Jobs |->
                      IF \E s \in S : f[s] = j THEN CHOOSE s \in S : f[s] = j ELSE src[j]]
         /\ eng' = [j \in Jobs |-> IF \E s \in S : f[s] = j THEN e ELSE eng[j]]
    /\ UNCHANGED <<status, engine, age, run, edit, disturbed>>

Claiming(e) == {j \in Jobs : st[j] = "claiming" /\ eng[j] = e}
ClaimedRows(e) == {src[j] : j \in Claiming(e)}

(* The rows as the committed transaction leaves them. *)
CommitRows(e) ==
    /\ status' = [s \in Sources |-> IF s \in ClaimedRows(e) THEN "processing" ELSE status[s]]
    /\ engine' = [s \in Sources |-> IF s \in ClaimedRows(e) THEN e ELSE engine[s]]
    /\ age' = [s \in Sources |-> IF s \in ClaimedRows(e) THEN 0 ELSE age[s]]

(* Commit succeeds and the engine queues what it got. *)
ClaimCommit(e) ==
    /\ Claiming(e) # {}
    /\ CommitRows(e)
    /\ st' = [j \in Jobs |-> IF j \in Claiming(e) THEN "queued" ELSE st[j]]
    /\ UNCHANGED <<src, eng, run, edit, disturbed>>

(* The database commits but the engine sees an error (connection lost,     *)
(* transaction timeout) and returns no sources.                            *)
ClaimCommitUnseen(e) ==
    /\ Claiming(e) # {}
    /\ CommitRows(e)
    /\ Free(Claiming(e))
    /\ UNCHANGED <<edit, disturbed>>

(* The query fails, or the transaction times out, and is rolled back. *)
ClaimAbort(e) ==
    /\ Claiming(e) # {}
    /\ Free(Claiming(e))
    /\ UNCHANGED <<status, engine, age, edit, disturbed>>

(***************************************************************************)
(* Crawling.                                                               *)
(***************************************************************************)
(* A pipeline takes the source from sourceChan. *)
StartCrawl(j) ==
    /\ st[j] = "queued"
    /\ st' = [st EXCEPT ![j] = "crawling"]
    /\ UNCHANGED <<status, engine, age, src, eng, run, edit, disturbed>>

(* CrawlWebsite ends and UpdateSourceState writes the outcome: by url, with *)
(* no condition on who claimed the row since. The UPDATE waits for a claim *)
(* transaction that holds the row.                                         *)
FinishCrawl(j) ==
    /\ st[j] = "crawling" /\ ~Locked(src[j])
    /\ \E outcome \in {"completed", "error"} : Write(src[j], outcome)
    /\ Free({j})
    /\ UNCHANGED <<engine, edit, disturbed>>

(* The same, when the database is not reachable: the error is only logged. *)
FinishLost(j) ==
    /\ st[j] = "crawling"
    /\ Free({j})
    /\ UNCHANGED <<status, engine, age, edit, disturbed>>

(* The batch ends (schedule over, inactivity) with the source still in     *)
(* sourceChan, or fetched by the refill and never queued.                  *)
DropQueued(j) ==
    /\ st[j] = "queued"
    /\ Free({j})
    /\ UNCHANGED <<status, engine, age, edit, disturbed>>

(* The process dies: an open transaction is rolled back. *)
Crash(e) ==
    /\ \E j \in Jobs : eng[j] = e
    /\ Free({j \in Jobs : eng[j] = e})
    /\ UNCHANGED <<status, engine, age, edit, disturbed>>

(***************************************************************************)
(* Everyone else who writes the row.                                       *)
(***************************************************************************)
(* ScheduleSourceCrawl leaves a row being processed alone. *)
Schedule(s) ==
    /\ ~Locked(s) /\ status[s] # "processing"
    /\ Write(s, "pending")
    /\ UNCHANGED <<engine, st, src, eng, run, edit, disturbed>>

(* Faulty variant: the upsert does not look at the status. *)
ImportAny(s) ==
    /\ ~Locked(s)
    /\ Write(s, "new")
    /\ UNCHANGED <<engine, st, src, eng, run, edit, disturbed>>

(* CreateSource upserts by url: a row being processed keeps its status (and *)
(* its other columns), but not its last_updated_at.                        *)
Import(s) ==
    /\ ~Locked(s) /\ (status[s] = "processing" => ImportsEnabled)
    /\ Write(s, IF status[s] = "processing" THEN "processing" ELSE "new")
    /\ UNCHANGED <<engine, st, src, eng, run, edit, disturbed>>

(* performUpdateSourceContext reads the row ...                            *)
EditRead(s) ==
    /\ EditsEnabled /\ edit[s] = None
    /\ edit' = [edit EXCEPT ![s] = status[s]]
    /\ UNCHANGED <<status, engine, age, st, src, eng, run, disturbed>>

(* ... merges the request into what it read and writes every column back,  *)
(* the status included, in a second statement.                             *)
EditWrite(s) ==
    /\ edit[s] # None /\ ~Locked(s)
    /\ Write(s, edit[s])
    /\ edit' = [edit EXCEPT ![s] = None]
    /\ disturbed' = (disturbed \/ edit[s] # status[s])
    /\ UNCHANGED <<engine, st, src, eng, run>>

(* cmd/updateSourceStatus sets whatever it is told. *)
SetStatus(s) ==
    /\ CLIEnabled /\ ~Locked(s)
    /\ \E new \in Statuses : Write(s, new)
    /\ disturbed' = (disturbed \/ LiveOn(s))
    /\ UNCHANGED <<engine, st, src, eng, run, edit>>

(***************************************************************************)
(* Time. A crawl ends by its own timer, set to ProcessingTimeout less a    *)
(* second when it starts, so none is let past Timeout ticks; nothing       *)
(* bounds the time a source spends in the queue. A processing row is taken *)
(* for abandoned at the shorter of ProcessingTimeout and CrawlingIfOk.     *)
(***************************************************************************)
Expiry == IF IfOk # Off /\ IfOk < Timeout THEN IfOk ELSE Timeout

(* Faulty variant: the crawl's timer is not set. *)
TickNoTimer ==
    /\ age' = [s \in Sources |-> IF age[s] < MaxAge THEN age[s] + 1 ELSE MaxAge]
    /\ run' = [j \in Jobs |-> IF st[j] = "crawling" THEN run[j] + 1 ELSE run[j]]
    /\ disturbed' = (disturbed \/ \E s \in Sources : LiveOn(s) /\ age'[s] > Expiry)
    /\ UNCHANGED <<status, engine, st, src, eng, edit>>

Tick ==
    /\ \A j \in Jobs : st[j] = "crawling" => run[j] < Timeout
    /\ age' = [s \in Sources |-> IF age[s] < MaxAge THEN age[s] + 1 ELSE MaxAge]
    /\ run' = [j \in Jobs |-> IF st[j] = "crawling" THEN run[j] + 1 ELSE run[j]]
    /\ disturbed' = (disturbed \/ \E s \in Sources : LiveOn(s) /\ age'[s] > Expiry)
    /\ UNCHANGED <<status, engine, st, src, eng, edit>>

Next ==
    \/ \E e \in Engines :
         \/ ClaimBegin(e) \/ ClaimCommit(e) \/ ClaimCommitUnseen(e) \/ ClaimAbort(e)
         \/ Crash(e)
    \/ \E j \in Jobs : StartCrawl(j) \/ FinishCrawl(j) \/ FinishLost(j) \/ DropQueued(j)
    \/ \E s \in Sources :
         Schedule(s) \/ Import(s) \/ EditRead(s) \/ EditWrite(s) \/ SetStatus(s)
    \/ Tick

Spec == Init /\ [][Next]_vars

(***************************************************************************)
(* Engines poll, time passes, the claim of a source that is retried for    *)
(* ever commits now and then, and a crawl that started ends (its timer):   *)
(* row locks are granted in turn, so its UPDATE is not held off for ever.  *)
(***************************************************************************)
Fairness ==
    /\ WF_vars(Tick)
    /\ \A e \in Engines :
         /\ WF_vars(ClaimBegin(e))
         /\ \A s \in Sources : SF_vars(s \in ClaimedRows(e) /\ ClaimCommit(e))
    /\ \A j \in Jobs : WF_vars(StartCrawl(j)) /\ SF_vars(FinishCrawl(j))

FairSpec == Spec /\ Fairness

(***************************************************************************)
(* Properties.                                                             *)
(***************************************************************************)
(* SKIP LOCKED: two open claim transactions never hold the same row. *)
ClaimsDisjoint ==
    \A j, k \in Jobs :
        (st[j] = "claiming" /\ st[k] = "claiming" /\ src[j] = src[k]) => j = k

(* Until a claim outlives the time after which its row counts as           *)
(* abandoned, an operator sets the status of a source in work, or a        *)
(* console edit writes back a stale status, a fetched source is fetched by *)
(* one engine, its row says so, and no open transaction is claiming it.    *)
(* Aborted claims, lost commits and outcomes, dropped queues, crashes,     *)
(* reschedules and imports do not break this.                              *)
FetchedOnce ==
    ~disturbed =>
        \A j \in Jobs : Live(j) =>
            /\ status[src[j]] = "processing" /\ engine[src[j]] = eng[j]
            /\ ~Locked(src[j])
            /\ \A k \in Jobs : Live(k) /\ src[k] = src[j] => k = j

(* "Multiple workers and engine instances can claim work without           *)
(* processing the same Source concurrently" (docs/features.md).            *)
NotCrawledTwice ==
    \A j, k \in Jobs :
        (st[j] = "crawling" /\ st[k] = "crawling" /\ src[j] = src[k]) => j = k

(* A source left processing by a crash, a lost commit, a lost outcome or a *)
(* dropped queue does not stay so: some engine fetches it again, or its    *)
(* status is changed. ("If a source stays in processing for more than this *)
(* time, the CROWler will re-schedule it", schema of processing_timeout.)  *)
AbandonedRecovered ==
    \A s \in Sources :
        (status[s] = "processing" /\ ~LiveOn(s)) ~> (status[s] # "processing" \/ LiveOn(s))
=============================================================================
