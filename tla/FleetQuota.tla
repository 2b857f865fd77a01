----------------------------- MODULE FleetQuota ------------------------------
(***************************************************************************)
(* The database connection budget of a fleet: the heartbeat rounds of the  *)
(* events manager (services/events/helpers.go), the division of the usable *)
(* connections among the members that answered (fleet_db_budget.go), and   *)
(* the quota each member applies to its pool (the three fleet_db_quota.go, *)
(* which agree).                                                           *)
(*                                                                         *)
(* Heartbeats, answers and reports are rows of the Events table. A member  *)
(* hears of a row by NOTIFY, through a pool of workers, and again from the *)
(* silence catch-up: late, out of order, more than once or not at all. So  *)
(* a row is never consumed: whoever may hear of it may do so at any time.  *)
(***************************************************************************)
EXTENDS Integers, FiniteSets, FiniteSetsExt

CONSTANTS
    Members,    \* API, engine and Events instances
    Rank,       \* their place in NormalizeFleetMembers' order
    MaxOpen,    \* the effective maximum of connections
    MaxRounds,  \* bound: heartbeat rounds
    None

(* FleetDBReservedConnections *)
Reserved == 3
Usable == MaxOpen - Reserved

ASSUME MembersAssumption ==
    /\ IsFiniteSet(Members) /\ None \notin Nat
    /\ Rank \in [Members -> Nat]
    /\ \A m, n \in Members : Rank[m] = Rank[n] => m = n
ASSUME BoundsAssumption == MaxOpen \in Nat \ {0} /\ MaxRounds \in Nat

Rounds == 1 .. MaxRounds

VARIABLES
    \* the coordinator
    round,      \* rounds begun
    active,     \* activeHeartbeat: the round that is open, or None
    parent,     \* its ParentID is set
    responses,  \* members whose answer has been captured
    detached,   \* finalized rounds with no report yet: <<round, members>>
    clock,      \* time of the last report
    \* the Events table
    asked,      \* rounds whose heartbeat is stored
    answers,    \* <<member, round>>
    reports,    \* [round, stamp, shares]
    \* each member
    conn,       \* "configured", "connected" (static limits), "up"
    dynamic,    \* heartbeats are enabled in its configuration
    valid,      \* hasValidReport
    quota,
    last,       \* lastGeneratedAt, 0: none
    limit,      \* the maximum its pool has now, 0: no pool
    got,        \* history: stamps of the reports it has handled since the last reset
    came        \* history: answers the coordinator handled while their round was open

coordVars == <<round, active, parent, responses, detached, clock>>
tableVars == <<asked, answers, reports>>
memberVars == <<conn, dynamic, valid, quota, last, limit, got>>
vars == <<coordVars, tableVars, memberVars, came>>

TypeOK ==
    /\ round \in 0 .. MaxRounds /\ active \in Rounds \cup {None}
    /\ active # None => active = round
    /\ parent \in BOOLEAN /\ (parent => active \in asked)
    /\ responses \subseteq Members /\ (responses # {} => parent)
    /\ detached \subseteq (1 .. round) \X SUBSET Members
    /\ clock \in Nat
    /\ asked \subseteq 1 .. round /\ answers \subseteq Members \X asked
    /\ \A r \in reports :
         /\ r.round \in asked /\ r.stamp \in 1 .. clock
         /\ DOMAIN r.shares \subseteq Members
         /\ \A m \in DOMAIN r.shares : r.shares[m] \in Nat
    /\ conn \in [Members -> {"configured", "connected", "up"}]
    /\ dynamic \in [Members -> BOOLEAN] /\ valid \in [Members -> BOOLEAN]
    /\ quota \in [Members -> Nat] /\ last \in [Members -> 0 .. clock]
    /\ limit \in [Members -> Nat]
    /\ got \in [Members -> SUBSET (1 .. clock)]
    /\ came \subseteq answers

Init ==
    /\ round = 0 /\ active = None /\ parent = FALSE /\ responses = {}
    /\ detached = {} /\ clock = 0
    /\ asked = {} /\ answers = {} /\ reports = {}
    /\ conn = [m \in Members |-> "configured"]
    /\ dynamic \in [Members -> BOOLEAN]
    /\ valid = [m \in Members |-> FALSE]
    /\ quota = [m \in Members |-> IF dynamic[m] THEN 0 ELSE MaxOpen]
    /\ last = [m \in Members |-> 0] /\ limit = [m \in Members |-> 0]
    /\ got = [m \in Members |-> {}]
    /\ came = {}

(***************************************************************************)
(* The division.                                                           *)
(***************************************************************************)
(* Faulty: every share is rounded up. *)
SharesRoundedUp(S) ==
    IF S = {} \/ Usable < Cardinality(S) THEN [m \in {} |-> 0]
    ELSE [m \in S |-> (Usable + Cardinality(S) - 1) \div Cardinality(S)]

(* AllocateFleetDBConnections; no shares when it is not valid. *)
Shares(S) ==
    IF S = {} \/ Usable < Cardinality(S) THEN [m \in {} |-> 0]
    ELSE [m \in S |->
            LET place == Cardinality({n \in S : Rank[n] < Rank[m]})
            IN (Usable \div Cardinality(S))
               + (IF place < Usable % Cardinality(S) THEN 1 ELSE 0)]

(***************************************************************************)
(* The coordinator.                                                        *)
(***************************************************************************)
(* startHeartbeat: nothing happens while a round is open. *)
StartRound ==
    /\ active = None /\ round < MaxRounds
    /\ round' = round + 1 /\ active' = round + 1
    /\ parent' = FALSE /\ responses' = {}
    /\ UNCHANGED <<detached, clock, tableVars, memberVars, came>>

(* The heartbeat is in the table, and members hear of it, before           *)
(* createHeartbeatEvent has returned its id.                               *)
Stored ==
    /\ active # None /\ ~parent /\ active \notin asked
    /\ asked' = asked \cup {active}
    /\ UNCHANGED <<coordVars, answers, reports, memberVars, came>>

Created ==
    /\ active \in asked /\ ~parent
    /\ parent' = TRUE
    /\ UNCHANGED <<round, active, responses, detached, clock, tableVars, memberVars, came>>

(* Faulty: the round stays open. *)
CreateFailsOpen ==
    /\ active # None /\ ~parent /\ parent' = FALSE
    /\ UNCHANGED <<round, active, responses, detached, clock, tableVars, memberVars, came>>

(* No insert succeeds, or the answer to the first is lost and the next one *)
(* is a duplicate.                                                         *)
CreateFails ==
    /\ active # None /\ ~parent
    /\ active' = None
    /\ UNCHANGED <<round, parent, responses, detached, clock, tableVars, memberVars, came>>

(* Faulty: an answer to any round is taken. *)
AnswerAnyRound(m, r) ==
    /\ <<m, r>> \in answers /\ active # None
    /\ responses' = IF parent THEN responses \cup {m} ELSE responses
    /\ came' = IF r = active THEN came \cup {<<m, r>>} ELSE came
    /\ UNCHANGED <<round, active, parent, detached, clock, tableVars, memberVars>>

(* Faulty: an answer to the open round is taken before its id is known. *)
AnswerEarly(m, r) ==
    /\ <<m, r>> \in answers /\ r = active
    /\ responses' = responses \cup {m}
    /\ came' = came \cup {<<m, r>>}
    /\ UNCHANGED <<round, active, parent, detached, clock, tableVars, memberVars>>

(* maybeHandleHeartbeatResponse: the answer must name the id of the open   *)
(* round, which the coordinator may not know yet.                          *)
Answer(m, r) ==
    /\ <<m, r>> \in answers /\ r = active
    /\ responses' = IF parent THEN responses \cup {m} ELSE responses
    /\ came' = came \cup {<<m, r>>}
    /\ UNCHANGED <<round, active, parent, detached, clock, tableVars, memberVars>>

(* heartbeatTimeoutWatcher: the round is closed and a copy of it analysed. *)
Finalize ==
    /\ active # None /\ parent
    /\ detached' = detached \cup {<<active, responses>>}
    /\ active' = None /\ parent' = FALSE /\ responses' = {}
    /\ UNCHANGED <<round, clock, tableVars, memberVars, came>>

(* persistFleetDBHeartbeatReport, stamped when it is made; the insert may fail. *)
Publish(d) ==
    /\ d \in detached /\ detached' = detached \ {d}
    /\ clock' = clock + 1
    /\ reports' \in {reports, reports \cup
                     {[round |-> d[1], stamp |-> clock + 1, shares |-> Shares(d[2])]}}
    /\ UNCHANGED <<round, active, parent, responses, asked, answers, memberVars, came>>

CoordinatorRestart ==
    /\ active' = None /\ parent' = FALSE /\ responses' = {} /\ detached' = {}
    /\ UNCHANGED <<round, clock, tableVars, memberVars, came>>

(***************************************************************************)
(* A member.                                                               *)
(***************************************************************************)
(* respondToHeartbeat, processHeartbeatEvent *)
Respond(m, r) ==
    /\ r \in asked /\ conn[m] # "configured"
    /\ answers' = answers \cup {<<m, r>>}
    /\ UNCHANGED <<coordVars, asked, reports, memberVars, came>>

(* Faulty: the pool could not be changed, the report counts as applied.    *)
HandleReportFailed(m, r) ==
    /\ dynamic[m] /\ m \in DOMAIN r.shares
    /\ got' = [got EXCEPT ![m] = @ \cup {r.stamp}]
    /\ IF r.stamp > last[m]
       THEN /\ last' = [last EXCEPT ![m] = r.stamp] /\ valid' = [valid EXCEPT ![m] = TRUE]
            /\ IF conn[m] = "configured" THEN UNCHANGED <<quota, limit>>
               ELSE /\ quota' = [quota EXCEPT ![m] = r.shares[m]]
                    /\ limit' = [limit EXCEPT ![m] = r.shares[m]]
       ELSE UNCHANGED <<quota, last, valid, limit>>
    /\ UNCHANGED <<coordVars, tableVars, conn, dynamic, came>>

(* processEngineHeartbeatReport and its twins. With no pool to change the  *)
(* report is dropped: no step of the model. While Connect is opening the   *)
(* pool the limit may be set, and is set again when it returns.            *)
HandleReport(m, r) ==
    /\ dynamic[m] /\ m \in DOMAIN r.shares
    /\ got' = [got EXCEPT ![m] = @ \cup {r.stamp}]
    /\ IF r.stamp > last[m]
       THEN /\ limit' = [limit EXCEPT ![m] = r.shares[m]]
            /\ quota' = [quota EXCEPT ![m] = r.shares[m]]
            /\ last' = [last EXCEPT ![m] = r.stamp]
            /\ valid' = [valid EXCEPT ![m] = TRUE]
       ELSE UNCHANGED <<quota, last, valid, limit>>
    /\ UNCHANGED <<coordVars, tableVars, conn, dynamic, came>>

(* A reload: configureEngineDBQuota, and a new handler without a pool.     *)
Configure(m) ==
    /\ conn[m] = "up"
    /\ \E d \in BOOLEAN :
         /\ dynamic' = [dynamic EXCEPT ![m] = d]
         /\ quota' = IF d THEN quota ELSE [quota EXCEPT ![m] = MaxOpen]
         /\ IF ~d /\ dynamic[m]
            THEN /\ valid' = [valid EXCEPT ![m] = FALSE] /\ last' = [last EXCEPT ![m] = 0]
                 /\ got' = [got EXCEPT ![m] = {}]
            ELSE UNCHANGED <<valid, last, got>>
    /\ conn' = [conn EXCEPT ![m] = "configured"] /\ limit' = [limit EXCEPT ![m] = 0]
    /\ UNCHANGED <<coordVars, tableVars, came>>

(* Connect sets the static limits. *)
Connect(m) ==
    /\ conn[m] = "configured"
    /\ conn' = [conn EXCEPT ![m] = "connected"] /\ limit' = [limit EXCEPT ![m] = MaxOpen]
    /\ UNCHANGED <<coordVars, tableVars, dynamic, valid, quota, last, got, came>>

(* Faulty: only a quota that came with a report is restored. *)
RestoreReported(m) ==
    /\ conn[m] = "connected"
    /\ conn' = [conn EXCEPT ![m] = "up"]
    /\ IF dynamic[m]
       THEN LET q == IF valid[m] THEN quota[m] ELSE 1 IN
            /\ limit' = IF valid[m] THEN [limit EXCEPT ![m] = q] ELSE limit
            /\ quota' = [quota EXCEPT ![m] = q]
       ELSE quota' = [quota EXCEPT ![m] = MaxOpen] /\ UNCHANGED limit
    /\ UNCHANGED <<coordVars, tableVars, dynamic, valid, last, got, came>>

(* applyEngineDBQuotaAfterConnect: the last quota, or 1 before a report.   *)
Restore(m) ==
    /\ conn[m] = "connected"
    /\ conn' = [conn EXCEPT ![m] = "up"]
    /\ IF dynamic[m]
       THEN LET q == IF valid[m] THEN quota[m] ELSE 1 IN
            /\ limit' = [limit EXCEPT ![m] = q] /\ quota' = [quota EXCEPT ![m] = q]
       ELSE quota' = [quota EXCEPT ![m] = MaxOpen] /\ UNCHANGED limit
    /\ UNCHANGED <<coordVars, tableVars, dynamic, valid, last, got, came>>

(* The process dies and another starts in its place. *)
Restart(m) ==
    /\ conn' = [conn EXCEPT ![m] = "configured"] /\ limit' = [limit EXCEPT ![m] = 0]
    /\ \E d \in BOOLEAN :
         /\ dynamic' = [dynamic EXCEPT ![m] = d]
         /\ quota' = [quota EXCEPT ![m] = IF d THEN 0 ELSE MaxOpen]
    /\ valid' = [valid EXCEPT ![m] = FALSE] /\ last' = [last EXCEPT ![m] = 0]
    /\ got' = [got EXCEPT ![m] = {}]
    /\ UNCHANGED <<coordVars, tableVars, came>>

Next ==
    \/ StartRound \/ Stored \/ Created \/ CreateFails \/ Finalize
    \/ \E d \in detached : Publish(d)
    \/ CoordinatorRestart
    \/ \E m \in Members :
         \/ \E r \in Rounds : Respond(m, r) \/ Answer(m, r)
         \/ \E r \in reports : HandleReport(m, r)
         \/ Configure(m) \/ Connect(m) \/ Restore(m) \/ Restart(m)

Spec == Init /\ [][Next]_vars

(* The coordinator's goroutine gets an answer from the database or an      *)
(* error, and its timer fires.                                             *)
Fairness == WF_vars(Created \/ CreateFails) /\ WF_vars(Finalize)

FairSpec == Spec /\ Fairness

(***************************************************************************)
(* Properties.                                                             *)
(***************************************************************************)
(* A report divides the budget among members that answered its own round:  *)
(* an answer to an earlier round, heard late, does not make its sender a   *)
(* member of this one.                                                     *)
CensusOfRound ==
    \A r \in reports : \A m \in DOMAIN r.shares : <<m, r.round>> \in came

(* Whatever the order in which reports are heard, and however often, a     *)
(* member holds its share in the newest of those it has heard.             *)
NewestReportHeld ==
    \A m \in Members : valid[m] =>
        \E r \in reports :
            /\ r.stamp \in got[m] /\ \A t \in got[m] : t <= r.stamp
            /\ m \in DOMAIN r.shares /\ quota[m] = r.shares[m]

(* A pool in use has the member's quota, through reloads, changes between  *)
(* static and dynamic, and reports that come in between.                   *)
LimitIsQuota ==
    \A m \in Members : conn[m] = "up" =>
        /\ limit[m] = quota[m]
        /\ dynamic[m] /\ ~valid[m] => quota[m] = 1

Limits(S) == MapThenSumSet(LAMBDA m : limit[m], S)
Holds(m, r) == conn[m] = "up" /\ dynamic[m] /\ last[m] = r.stamp

(* "A heartbeat round therefore converges the fleet on one allocation"     *)
(* (docs/fleets.md): members that hold the same report have pools that     *)
(* differ by at most one and together stay within the budget.              *)
BudgetKept ==
    \A r \in reports :
        LET S == {m \in Members : Holds(m, r)} IN
        /\ Limits(S) <= Usable \/ S = {}
        /\ S # {} /\ S = DOMAIN r.shares => Limits(S) = Usable
        /\ \A m, n \in S : limit[m] <= limit[n] + 1

(* "divides that budget among the active, recognized API, engine, and      *)
(* Events instances" (docs/fleets.md): a member whose answer was heard     *)
(* while the round was open has a share.                                   *)
AnswersCounted ==
    \A r \in reports : DOMAIN r.shares # {} =>
        \A m \in Members : <<m, r.round>> \in came => m \in DOMAIN r.shares

(* "Dynamic mode can therefore never expose the static pool maximum, even  *)
(* briefly after Connect returns." (services/api/fleet_db_quota.go)        *)
NeverStatic ==
    \A m \in Members : conn[m] = "connected" /\ dynamic[m] => limit[m] # MaxOpen

(* A round ends, also when its heartbeat cannot be stored: as long as one  *)
(* is open no other is begun.                                              *)
RoundEnds == (active # None) ~> (active = None)
=============================================================================
