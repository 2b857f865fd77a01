----------------------------- MODULE EventQueue ------------------------------
(***************************************************************************)
(* The master events manager (services/events/main.go): events posted to   *)
(* its API wait in memory for workers that insert them, every insert is    *)
(* heard again by NOTIFY (pkg/database/events.go), and what is heard goes  *)
(* through two queues to the workers that run plugins and agents.          *)
(*                                                                         *)
(* An event's id is a hash of its content: an event posted twice, or       *)
(* inserted again because the answer to the insert was lost, is refused    *)
(* as a duplicate for as long as its row is there, and its worker tries    *)
(* on. A failed attempt changes nothing and is no step of the model.       *)
(***************************************************************************)
EXTENDS Integers, FiniteSets, Sequences, FiniteSetsExt, SequencesExt

CONSTANTS
    Events,         \* contents of events (an expires_at that cannot be parsed is left out)
    Refused,        \* those the table never accepts: a type too long, bad text
    Workers,        \* API create workers
    Listeners,      \* notification workers
    Handlers,       \* external workers
    ApiCap,         \* apiEventQ
    QueueCap,       \* jobQueue with the event workers; externalQ
    MaxPosts,       \* bound: accepted posts of each event
    MaxUnanswered,  \* bound: inserts whose answer is lost
    MaxCatchUps,    \* bound: silence catch-ups
    None

ASSUME EventsAssumption ==
    /\ IsFiniteSet(Events) /\ Refused \subseteq Events /\ None \notin Events
    /\ MaxPosts \in [Events -> Nat]
ASSUME SizesAssumption ==
    {Listeners, Handlers, ApiCap, QueueCap, MaxUnanswered, MaxCatchUps} \subseteq Nat

VARIABLES
    phase,      \* "up", "stopping" (two seconds after a signal), "down"
    apiQ,       \* apiEventQ
    task,       \* the event each API worker is inserting
    row,        \* Events table: "none", "live", "expired"
    notices,    \* copies of each event announced and not fetched
    fetched,    \* copies held by notification workers
    jobs,       \* copies in jobQueue
    external,   \* copies in externalQ
    running,    \* copies an external worker has taken
    ran,        \* copies whose plugins have run, rows not yet settled
    acked,      \* history: events acknowledged by this process
    posted, inserted, unanswered, caught, handled  \* history: how often

memory == <<apiQ, task, acked>>
pipeline == <<notices, fetched, jobs, external, running, ran>>
counts == <<posted, inserted, unanswered, caught, handled>>
vars == <<phase, memory, row, pipeline, counts>>

Bags == [Events -> Nat]
Empty == [e \in Events |-> 0]
Put(b, e) == [b EXCEPT ![e] = @ + 1]
Drop(b, e) == [b EXCEPT ![e] = @ - 1]
Size(b) == MapThenSumSet(LAMBDA e : b[e], Events)
Up == phase # "down"

TypeOK ==
    /\ phase \in {"up", "stopping", "down"}
    /\ apiQ \in Seq(Events) /\ Len(apiQ) <= ApiCap
    /\ task \in [Workers -> Events \cup {None}]
    /\ row \in [Events -> {"none", "live", "expired"}]
    /\ notices \in Bags
    /\ fetched \in Bags /\ Size(fetched) <= Listeners
    /\ jobs \in Bags /\ Size(jobs) <= QueueCap
    /\ external \in Bags /\ Size(external) <= QueueCap
    /\ running \in Bags /\ ran \in Bags /\ Size(running) + Size(ran) <= Handlers
    /\ acked \subseteq Events
    /\ {posted, inserted, unanswered, caught, handled} \subseteq Bags

Init ==
    /\ phase = "up"
    /\ apiQ = <<>> /\ task = [w \in Workers |-> None] /\ acked = {}
    /\ row = [e \in Events |-> "none"]
    /\ notices = Empty /\ fetched = Empty /\ jobs = Empty /\ external = Empty
    /\ running = Empty /\ ran = Empty
    /\ posted = Empty /\ inserted = Empty /\ unanswered = Empty
    /\ caught = Empty /\ handled = Empty

(***************************************************************************)
(* Posts.                                                                  *)
(***************************************************************************)
(* Faulty: a full queue makes the answer no different. *)
PostAlways(e) ==
    /\ Up /\ posted[e] < MaxPosts[e]
    /\ apiQ' = IF Len(apiQ) < ApiCap THEN Append(apiQ, e) ELSE apiQ
    /\ acked' = acked \cup {e} /\ posted' = Put(posted, e)
    /\ UNCHANGED <<phase, task, row, pipeline, inserted, unanswered, caught, handled>>

(* createEventHandler; with a full queue the post is answered 503.         *)
Post(e) ==
    /\ Up /\ posted[e] < MaxPosts[e] /\ Len(apiQ) < ApiCap
    /\ apiQ' = Append(apiQ, e)
    /\ acked' = acked \cup {e} /\ posted' = Put(posted, e)
    /\ UNCHANGED <<phase, task, row, pipeline, inserted, unanswered, caught, handled>>

(* Faulty: one worker at a time. *)
TakeAlone(w) ==
    /\ Up /\ (\A v \in Workers : task[v] = None) /\ apiQ # <<>>
    /\ task' = [task EXCEPT ![w] = Head(apiQ)] /\ apiQ' = Tail(apiQ)
    /\ UNCHANGED <<phase, acked, row, pipeline, counts>>

Take(w) ==
    /\ Up /\ task[w] = None /\ apiQ # <<>>
    /\ task' = [task EXCEPT ![w] = Head(apiQ)] /\ apiQ' = Tail(apiQ)
    /\ UNCHANGED <<phase, acked, row, pipeline, counts>>

Insertable(w) == Up /\ task[w] \in Events \ Refused /\ row[task[w]] = "none"

(* The row is committed and its trigger notifies. *)
Stored(e) ==
    /\ row' = [row EXCEPT ![e] = "live"]
    /\ notices' = Put(notices, e) /\ inserted' = Put(inserted, e)

(* Faulty: the worker inserts its event once more. *)
InsertAgain(w) ==
    /\ Insertable(w) /\ Stored(task[w])
    /\ UNCHANGED <<phase, apiQ, task, acked, fetched, jobs, external, running, ran,
                   posted, unanswered, caught, handled>>

Insert(w) ==
    /\ Insertable(w) /\ Stored(task[w])
    /\ task' = [task EXCEPT ![w] = None]
    /\ UNCHANGED <<phase, apiQ, acked, fetched, jobs, external, running, ran,
                   posted, unanswered, caught, handled>>

(* The commit is not answered in time, or the broadcast that follows it    *)
(* panics: the worker tries again.                                         *)
InsertUnanswered(w) ==
    /\ Insertable(w) /\ Stored(task[w]) /\ Size(unanswered) < MaxUnanswered
    /\ unanswered' = Put(unanswered, task[w])
    /\ UNCHANGED <<phase, memory, fetched, jobs, external, running, ran,
                   posted, caught, handled>>

(***************************************************************************)
(* The table.                                                              *)
(***************************************************************************)
(* expires_at, which CreateEvent always fills, has passed. *)
Expire(e) ==
    /\ row[e] = "live" /\ row' = [row EXCEPT ![e] = "expired"]
    /\ UNCHANGED <<phase, memory, pipeline, counts>>

(* Faulty: rows are only marked. *)
JanitorMarks ==
    /\ Up /\ \E e \in Events : row[e] = "expired"
    /\ row' = [e \in Events |-> IF row[e] = "expired" THEN "live" ELSE row[e]]
    /\ UNCHANGED <<phase, memory, pipeline, counts>>

(* cleanupExpiredEvents *)
Janitor ==
    /\ Up /\ \E e \in Events : row[e] = "expired"
    /\ row' = [e \in Events |-> IF row[e] = "expired" THEN "none" ELSE row[e]]
    /\ UNCHANGED <<phase, memory, pipeline, counts>>

(***************************************************************************)
(* Notifications.                                                          *)
(***************************************************************************)
(* runSilenceCatchUp announces recent rows again. *)
CatchUp(S) ==
    /\ Up /\ S # {} /\ S \subseteq {e \in Events : row[e] = "live"}
    /\ \A e \in S : caught[e] < MaxCatchUps
    /\ notices' = [e \in Events |-> notices[e] + IF e \in S THEN 1 ELSE 0]
    /\ caught' = [e \in Events |-> caught[e] + IF e \in S THEN 1 ELSE 0]
    /\ UNCHANGED <<phase, memory, row, fetched, jobs, external, running, ran,
                   posted, inserted, unanswered, handled>>

(* NOTIFY while the listener reconnects, or a fetch that fails. *)
LoseNotice(e) ==
    /\ Up /\ notices[e] > 0 /\ notices' = Drop(notices, e)
    /\ UNCHANGED <<phase, memory, row, fetched, jobs, external, running, ran, counts>>

(* processEventNotification: an event whose row is gone is not passed on.  *)
Fetch(e) ==
    /\ Up /\ notices[e] > 0 /\ Size(fetched) < Listeners
    /\ notices' = Drop(notices, e)
    /\ fetched' = IF row[e] = "none" THEN fetched ELSE Put(fetched, e)
    /\ UNCHANGED <<phase, memory, row, jobs, external, running, ran, counts>>

(* Faulty: the notification worker keeps its copy. *)
EnqueueCopies(e) ==
    /\ Up /\ fetched[e] > 0 /\ Size(jobs) < QueueCap
    /\ jobs' = Put(jobs, e)
    /\ UNCHANGED <<phase, memory, row, notices, fetched, external, running, ran, counts>>

(* handleNotification waits for room in jobQueue. *)
Enqueue(e) ==
    /\ Up /\ fetched[e] > 0 /\ Size(jobs) < QueueCap
    /\ fetched' = Drop(fetched, e) /\ jobs' = Put(jobs, e)
    /\ UNCHANGED <<phase, memory, row, notices, external, running, ran, counts>>

(* Faulty: there is always room. *)
RouteUnbounded(e) ==
    /\ Up /\ jobs[e] > 0
    /\ jobs' = Drop(jobs, e) /\ external' = Put(external, e)
    /\ UNCHANGED <<phase, memory, row, notices, fetched, running, ran, counts>>

(* eventWorker; a fetched event has no action, so internalQ stays empty.   *)
Route(e) ==
    /\ Up /\ jobs[e] > 0 /\ Size(external) < QueueCap
    /\ jobs' = Drop(jobs, e) /\ external' = Put(external, e)
    /\ UNCHANGED <<phase, memory, row, notices, fetched, running, ran, counts>>

Begin(e) ==
    /\ Up /\ external[e] > 0 /\ Size(running) + Size(ran) < Handlers
    /\ external' = Drop(external, e) /\ running' = Put(running, e)
    /\ UNCHANGED <<phase, memory, row, notices, fetched, jobs, ran, counts>>

(* processEvent with no plugin or agent for it, or one that panics.        *)
Ignore(e) ==
    /\ Up /\ running[e] > 0 /\ running' = Drop(running, e)
    /\ UNCHANGED <<phase, memory, row, notices, fetched, jobs, external, ran, counts>>

Run(e) ==
    /\ Up /\ running[e] > 0
    /\ running' = Drop(running, e) /\ ran' = Put(ran, e) /\ handled' = Put(handled, e)
    /\ UNCHANGED <<phase, memory, row, notices, fetched, jobs, external,
                   posted, inserted, unanswered, caught>>

(* Faulty: a row that is gone keeps its worker busy. *)
SettleExisting(e) ==
    /\ Up /\ ran[e] > 0 /\ row[e] # "none"
    /\ ran' = Drop(ran, e) /\ row' \in {row, [row EXCEPT ![e] = "none"]}
    /\ UNCHANGED <<phase, memory, notices, fetched, jobs, external, running, counts>>

(* The removal policy: the row is removed, or left to expire.              *)
Settle(e) ==
    /\ Up /\ ran[e] > 0
    /\ ran' = Drop(ran, e) /\ row' \in {row, [row EXCEPT ![e] = "none"]}
    /\ UNCHANGED <<phase, memory, notices, fetched, jobs, external, running, counts>>

(***************************************************************************)
(* The process.                                                            *)
(***************************************************************************)
Signal ==
    /\ phase = "up" /\ phase' = "stopping"
    /\ UNCHANGED <<memory, row, pipeline, counts>>

(* os.Exit two seconds after the signal, or a crash: what is in memory is  *)
(* gone. (shutdownEventsHTTPServer, which would wait for it, is not called.) *)
Exit ==
    /\ Up /\ phase' = "down"
    /\ apiQ' = <<>> /\ task' = [w \in Workers |-> None] /\ acked' = {}
    /\ notices' = Empty /\ fetched' = Empty /\ jobs' = Empty /\ external' = Empty
    /\ running' = Empty /\ ran' = Empty
    /\ UNCHANGED <<row, counts>>

Restart ==
    /\ phase = "down" /\ phase' = "up"
    /\ UNCHANGED <<memory, row, pipeline, counts>>

WorkerStep(w) == Insert(w) \/ InsertUnanswered(w)
HandlerStep(e) == Run(e) \/ Ignore(e)

Next ==
    \/ \E w \in Workers : Take(w) \/ Insert(w) \/ InsertUnanswered(w)
    \/ \E e \in Events :
         \/ Post(e) \/ Expire(e) \/ LoseNotice(e)
         \/ Fetch(e) \/ Enqueue(e) \/ Route(e) \/ Begin(e)
         \/ Ignore(e) \/ Run(e) \/ Settle(e)
    \/ \E S \in SUBSET Events : CatchUp(S)
    \/ Janitor \/ Signal \/ Exit \/ Restart

Spec == Init /\ [][Next]_vars

(* The database answers in the end, workers wait only where the code does, *)
(* plugins return, time passes and the janitor's ticker runs.              *)
Fairness ==
    /\ \A w \in Workers : WF_vars(Take(w)) /\ WF_vars(WorkerStep(w))
    /\ \A e \in Events :
         /\ WF_vars(Expire(e))
         /\ SF_vars(Enqueue(e)) /\ SF_vars(Route(e)) /\ SF_vars(Begin(e))
         /\ WF_vars(HandlerStep(e)) /\ WF_vars(Settle(e))
    /\ WF_vars(Janitor)

FairSpec == Spec /\ Fairness

(***************************************************************************)
(* Properties.                                                             *)
(***************************************************************************)
Waiting(e) == (\E i \in DOMAIN apiQ : apiQ[i] = e) \/ (\E w \in Workers : task[w] = e)

(* While the process runs, an acknowledged event is waiting, with a worker *)
(* or has been stored: no worker gives one up, whatever the insert answers. *)
AckedHeld == \A e \in acked : Waiting(e) \/ inserted[e] > 0

(* A post is stored once, unless the answer to its insert was lost.        *)
StoredOnce == \A e \in Events : inserted[e] <= posted[e] + unanswered[e]

(* Nothing is copied on the way from the table to the plugins: an event is *)
(* handled no more often than it was announced.                            *)
HandledAsAnnounced == \A e \in Events : handled[e] <= inserted[e] + caught[e]

(* As long as the process stays up an acknowledged event is stored, even   *)
(* next to an event that keeps a worker for good.                          *)
AckedStored ==
    \A e \in Events \ Refused :
        (e \in acked) ~> (inserted[e] > 0 \/ phase # "up")

(* A worker whose event has been stored before, by another post or by an   *)
(* insert whose answer was lost, is free once the row has gone.            *)
WorkerFreed ==
    \A w \in Workers, e \in Events \ Refused : (task[w] = e) ~> (task[w] # e)

Copies(e) == fetched[e] + jobs[e] + external[e] + running[e] + ran[e]

(* No full queue holds up the others for good: what has been fetched       *)
(* leaves the pipeline.                                                    *)
PipelineDrains == \A e \in Events : (Copies(e) > 0) ~> (Copies(e) = 0)

(* "shutdown waits rather than discarding accepted events" (main.go): at   *)
(* the end of a shutdown every acknowledged event has been stored.         *)
ShutdownDrains ==
    [][phase = "stopping" /\ phase' = "down" => \A e \in acked : inserted[e] > 0]_vars
=============================================================================
