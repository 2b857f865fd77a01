-------------------------- MODULE CrawlBatch_proofs --------------------------
(***************************************************************************)
(* Proofs about CrawlBatch, for every set of sources, number of pipelines, *)
(* channel size and bound on the statuses.                                 *)
(***************************************************************************)
EXTENDS CrawlBatch, FiniteSetTheorems, TLAPS

(* Outside a batch nothing is claimed and no goroutine of a batch acts;    *)
(* the list of sources is used up by the first load.                       *)
Quiet ==
    /\ ~InBatch => /\ queue = {} /\ hand = {} /\ refill = "gone"
                   /\ \A p \in Pipelines : pc[p] = "off"
    /\ main # "load" => batch = {}

(* A pipeline has a source exactly while it crawls; the refill has sources *)
(* only while it queues them.                                              *)
Hands ==
    /\ \A p \in Pipelines : IF pc[p] = "crawl" THEN job[p] \in Sources ELSE job[p] = None
    /\ refill # "push" => hand = {}

(* The channel is closed, or a pipeline has left, only when the batch was  *)
(* given up.                                                               *)
GivenUp ==
    /\ closed => batchDone
    /\ \A p \in Pipelines : pc[p] = "exited" => batchDone

(* The index a pipeline works with is one of the slice's. *)
SlotInRange ==
    \A p \in Pipelines :
        /\ pc[p] = "crawl" => slot[p] # None
        /\ slot[p] # None => slot[p] \in 1 .. Len(running)

(* What the pipelines, the loader and the refill hold. *)
Places == Quiet /\ Hands /\ OnePlace /\ ReloadWaitsForJobs

(* The inductive invariant. *)
IInv ==
    /\ TypeOK
    /\ IsFiniteSet(queue)
    /\ Places
    /\ GivenUp
    /\ SlotInRange

USE SizeAssumption, SwitchAssumption, NoneAssumption
DEF SizeAssumption, SwitchAssumption, NoneAssumption

(* Every step keeps the sources where they belong. *)
LEMMA NextPlaces == IInv /\ [Next]_vars => Places'
<1> SUFFICES ASSUME IInv, [Next]_vars PROVE Places'
  OBVIOUS
<1> USE DEF IInv, TypeOK, Places, Quiet, Hands, OnePlace, ReloadWaitsForJobs, Crawling,
   InBatch, Claimable, mainVars, flags, refillVars, pipeVars, helpers, Pipelines
<1>2. ASSUME StartBatch PROVE Places'
  BY <1>2 DEF StartBatch
<1>3. ASSUME LoadOnClosed PROVE Places'
  BY <1>3 DEF LoadOnClosed, Panic
<1>4. ASSUME LoadDone PROVE Places'
  BY <1>4 DEF LoadDone
<1>5. ASSUME RampDone PROVE Places'
  BY <1>5 DEF RampDone
<1>6. ASSUME BatchEnd PROVE Places'
  BY <1>6 DEF BatchEnd
<1>7. ASSUME RefillTimer PROVE Places'
  BY <1>7 DEF RefillTimer
<1>8. ASSUME RefillLock PROVE Places'
  BY <1>8 DEF RefillLock
<1>9. ASSUME RefillInactive PROVE Places'
  BY <1>9 DEF RefillInactive
<1>10. ASSUME RefillCheck PROVE Places'
  BY <1>10 DEF RefillCheck
<1>11. ASSUME RefillNothing PROVE Places'
  BY <1>11 DEF RefillNothing
<1>12. ASSUME RefillFetched PROVE Places'
  BY <1>12 DEF RefillFetched
<1>13. ASSUME RefillPushOnClosed PROVE Places'
  BY <1>13 DEF RefillPushOnClosed, Panic
<1>14. ASSUME Report PROVE Places'
  BY <1>14 DEF Report
<1>15. ASSUME Heartbeat PROVE Places'
  BY <1>15 DEF Heartbeat
<1>16. ASSUME WatchdogTest PROVE Places'
  BY <1>16 DEF WatchdogTest
<1>17. ASSUME WatchdogClose PROVE Places'
  BY <1>17 DEF WatchdogClose
<1>18. ASSUME Tick PROVE Places'
  BY <1>18 DEF Tick
<1>19. ASSUME TimerFires PROVE Places'
  BY <1>19 DEF TimerFires
<1>20. ASSUME Sighup PROVE Places'
  BY <1>20 DEF Sighup
<1>21. ASSUME Reload PROVE Places'
  BY <1>21 DEF Reload
<1>22. ASSUME ReloadDone PROVE Places'
  BY <1>22 DEF ReloadDone
<1>23. ASSUME NEW s \in Sources, Load(s) PROVE Places'
  BY <1>23 DEF Load
<1>24. ASSUME NEW s \in Sources, RefillPush(s) PROVE Places'
  BY <1>24 DEF RefillPush
<1>25. ASSUME NEW p \in Pipelines, Spawn(p) PROVE Places'
  BY <1>25 DEF Spawn
<1>26. ASSUME NEW p \in Pipelines, Take(p) PROVE Places'
  BY <1>26 DEF Take
<1>27. ASSUME NEW p \in Pipelines, Exit(p) PROVE Places'
  BY <1>27 DEF Exit
<1>28. ASSUME NEW p \in Pipelines, Refresh(p) PROVE Places'
  BY <1>28 DEF Refresh
<1>29. ASSUME NEW p \in Pipelines, Finish(p) PROVE Places'
  BY <1>29 DEF Finish
<1>30. ASSUME NEW i \in 1 .. MaxStatus, NetDone(i) PROVE Places'
  BY <1>30 DEF NetDone
<1>31. CASE UNCHANGED vars
  BY <1>31 DEF vars
<1>32. QED
  BY <1>2, <1>3, <1>4, <1>5, <1>6, <1>7, <1>8, <1>9, <1>10, <1>11, <1>12, <1>13, <1>14,
     <1>15, <1>16, <1>17, <1>18, <1>19, <1>20, <1>21, <1>22, <1>23, <1>24, <1>25,
     <1>26, <1>27, <1>28, <1>29, <1>30, <1>31 DEF Next, MainStep, RefillStep

(* Every step keeps a closed channel and a left pipeline the sign of a batch given up. *)
LEMMA NextGivenUp == IInv /\ [Next]_vars => GivenUp'
<1> SUFFICES ASSUME IInv, [Next]_vars PROVE GivenUp'
  OBVIOUS
<1> USE DEF IInv, TypeOK, Places, Quiet, GivenUp, InBatch, mainVars, flags, refillVars,
   pipeVars, helpers, Pipelines
<1>2. ASSUME StartBatch PROVE GivenUp'
  BY <1>2 DEF StartBatch
<1>3. ASSUME LoadOnClosed PROVE GivenUp'
  BY <1>3 DEF LoadOnClosed, Panic
<1>4. ASSUME LoadDone PROVE GivenUp'
  BY <1>4 DEF LoadDone
<1>5. ASSUME RampDone PROVE GivenUp'
  BY <1>5 DEF RampDone
<1>6. ASSUME BatchEnd PROVE GivenUp'
  BY <1>6 DEF BatchEnd
<1>7. ASSUME RefillTimer PROVE GivenUp'
  BY <1>7 DEF RefillTimer
<1>8. ASSUME RefillLock PROVE GivenUp'
  BY <1>8 DEF RefillLock
<1>9. ASSUME RefillInactive PROVE GivenUp'
  BY <1>9 DEF RefillInactive
<1>10. ASSUME RefillCheck PROVE GivenUp'
  BY <1>10 DEF RefillCheck
<1>11. ASSUME RefillNothing PROVE GivenUp'
  BY <1>11 DEF RefillNothing
<1>12. ASSUME RefillFetched PROVE GivenUp'
  BY <1>12 DEF RefillFetched
<1>13. ASSUME RefillPushOnClosed PROVE GivenUp'
  BY <1>13 DEF RefillPushOnClosed, Panic
<1>14. ASSUME Report PROVE GivenUp'
  BY <1>14 DEF Report
<1>15. ASSUME Heartbeat PROVE GivenUp'
  BY <1>15 DEF Heartbeat
<1>16. ASSUME WatchdogTest PROVE GivenUp'
  BY <1>16 DEF WatchdogTest
<1>17. ASSUME WatchdogClose PROVE GivenUp'
  BY <1>17 DEF WatchdogClose
<1>18. ASSUME Tick PROVE GivenUp'
  BY <1>18 DEF Tick
<1>19. ASSUME TimerFires PROVE GivenUp'
  BY <1>19 DEF TimerFires
<1>20. ASSUME Sighup PROVE GivenUp'
  BY <1>20 DEF Sighup
<1>21. ASSUME Reload PROVE GivenUp'
  BY <1>21 DEF Reload
<1>22. ASSUME ReloadDone PROVE GivenUp'
  BY <1>22 DEF ReloadDone
<1>23. ASSUME NEW s \in Sources, Load(s) PROVE GivenUp'
  BY <1>23 DEF Load
<1>24. ASSUME NEW s \in Sources, RefillPush(s) PROVE GivenUp'
  BY <1>24 DEF RefillPush
<1>25. ASSUME NEW p \in Pipelines, Spawn(p) PROVE GivenUp'
  BY <1>25 DEF Spawn
<1>26. ASSUME NEW p \in Pipelines, Take(p) PROVE GivenUp'
  BY <1>26 DEF Take
<1>27. ASSUME NEW p \in Pipelines, Exit(p) PROVE GivenUp'
  BY <1>27 DEF Exit
<1>28. ASSUME NEW p \in Pipelines, Refresh(p) PROVE GivenUp'
  BY <1>28 DEF Refresh
<1>29. ASSUME NEW p \in Pipelines, Finish(p) PROVE GivenUp'
  BY <1>29 DEF Finish
<1>30. ASSUME NEW i \in 1 .. MaxStatus, NetDone(i) PROVE GivenUp'
  BY <1>30 DEF NetDone
<1>31. CASE UNCHANGED vars
  BY <1>31 DEF vars
<1>32. QED
  BY <1>2, <1>3, <1>4, <1>5, <1>6, <1>7, <1>8, <1>9, <1>10, <1>11, <1>12, <1>13, <1>14,
     <1>15, <1>16, <1>17, <1>18, <1>19, <1>20, <1>21, <1>22, <1>23, <1>24, <1>25,
     <1>26, <1>27, <1>28, <1>29, <1>30, <1>31 DEF Next, MainStep, RefillStep

(* A send fits where the channel has room. *)
LEMMA OneMore ==
    ASSUME NEW s, IsFiniteSet(queue), Cardinality(queue) < Cap
    PROVE  Cardinality(queue \cup {s}) <= Cap
<1>1. Cardinality(queue) \in Nat /\ Cap \in Nat
  BY FS_CardinalityType DEF Cap
<1>2. Cardinality(queue \cup {s}) \in {Cardinality(queue), Cardinality(queue) + 1}
  BY FS_AddElement
<1>3. QED
  BY <1>1, <1>2

(* Values the steps write. *)
LEMMA Small == 0 \in 0 .. 2 /\ 1 \in 0 .. 2 /\ 2 \in 0 .. 2
  OBVIOUS

(* The state a restarted process would find is well typed. *)
LEMMA PanicTypes ==
    ASSUME Panic, TypeOK PROVE TypeOK'
<1>1. queue' = {} /\ hand' = {} /\ batch' = {} /\ Cardinality(queue') <= Cap
  BY FS_EmptySet DEF Panic, Cap
<1>2. /\ running' \in Seq(0 .. 2) /\ Len(running') <= MaxStatus
      /\ net' = {} /\ stale' = {} /\ idle' \in 0 .. 2
  BY Small DEF Panic
<1>3. /\ pc' \in [Pipelines -> {"off", "poll", "crawl", "exited"}]
      /\ job' \in [Pipelines -> Sources \cup {None}]
      /\ slot' \in [Pipelines -> 1 .. MaxStatus \cup {None}]
  BY DEF Panic
<1>4. QED
  BY <1>1, <1>2, <1>3 DEF Panic, TypeOK

(* A pipeline takes a source: its entry is one of the slice's, or the next.*)
LEMMA TakeTypes ==
    ASSUME IInv, NEW p \in Pipelines, Take(p) PROVE TypeOK'
<1>1. queue' \subseteq queue /\ Cardinality(queue') <= Cap /\ idle' \in 0 .. 2
  BY FS_Subset, FS_CardinalityType, Small DEF Take, Cap, IInv, TypeOK
<1>2. /\ job' \in [Pipelines -> Sources \cup {None}]
      /\ pc' \in [Pipelines -> {"off", "poll", "crawl", "exited"}]
  BY DEF Take, IInv, TypeOK
<1>3. PICK i \in 1 .. Len(running) + 1 :
        /\ StatusIndex(p, i)
        /\ slot' = [slot EXCEPT ![p] = i]
        /\ running' = IF i > Len(running) THEN Append(running, 1)
                      ELSE [running EXCEPT ![i] = 1]
        /\ net' = net \ {i}
        /\ stale' = (IF Outgrown(i) THEN Crawling ELSE stale) \ {p}
  BY DEF Take
<1>4. i \in 1 .. MaxStatus /\ (i > Len(running) => i = Len(running) + 1)
  BY <1>3 DEF StatusIndex, IsFirst, FreeStatuses, IInv, TypeOK, SlotInRange
<1>5. /\ running' \in Seq(0 .. 2) /\ Len(running') <= MaxStatus
      /\ Len(running) <= Len(running')
  BY <1>3, <1>4, Small DEF IInv, TypeOK
<1>6. /\ slot' \in [Pipelines -> 1 .. MaxStatus \cup {None}]
      /\ net' \subseteq 1 .. Len(running')
      /\ stale' \subseteq Pipelines
  BY <1>3, <1>4, <1>5 DEF IInv, TypeOK, Crawling
<1>7. QED
  BY <1>1, <1>2, <1>5, <1>6 DEF Take, IInv, TypeOK, mainVars, flags,
     refillVars, helpers

(* A crawl ends: its entry is one of the slice's. *)
LEMMA FinishTypes ==
    ASSUME IInv, NEW p \in Pipelines, Finish(p) PROVE TypeOK'
<1>1. /\ job' \in [Pipelines -> Sources \cup {None}]
      /\ pc' \in [Pipelines -> {"off", "poll", "crawl", "exited"}]
      /\ stale' \subseteq Pipelines /\ idle' \in 0 .. 2
  BY Small DEF Finish, IInv, TypeOK
<1>2. running' \in Seq(0 .. 2) /\ Len(running') = Len(running)
  BY Small DEF Finish, IInv, TypeOK
<1>3. slot[p] \in 1 .. Len(running)
  BY DEF Finish, IInv, SlotInRange
<1>4. /\ slot' \in [Pipelines -> 1 .. MaxStatus \cup {None}]
      /\ net' \subseteq 1 .. Len(running')
  BY <1>2, <1>3 DEF Finish, IInv, TypeOK
<1>5. QED
  BY <1>1, <1>2, <1>4 DEF Finish, IInv, TypeOK, mainVars, flags, refillVars,
     helpers

(* Every step keeps the types. *)
LEMMA NextTypes == IInv /\ [Next]_vars => TypeOK'
<1> SUFFICES ASSUME IInv, [Next]_vars PROVE TypeOK'
  OBVIOUS
<1> USE DEF IInv, TypeOK, mainVars, flags, refillVars, pipeVars, helpers, Pipelines,
   SlotInRange
<1>2. ASSUME StartBatch PROVE TypeOK'
  <2>1. queue' = {} /\ hand' = {} /\ batch' \subseteq Sources /\ Cardinality(queue') <= Cap
    BY <1>2, FS_EmptySet DEF StartBatch, Claimable, Cap
  <2>2. idle' \in 0 .. 2
    BY <1>2, Small DEF StartBatch
  <2>3. QED
    BY <1>2, <2>1, <2>2 DEF StartBatch, IInv, TypeOK, pipeVars
<1>3. ASSUME LoadOnClosed PROVE TypeOK'
  BY <1>3, PanicTypes DEF LoadOnClosed, IInv
<1>4. ASSUME LoadDone PROVE TypeOK'
  BY <1>4 DEF LoadDone
<1>5. ASSUME RampDone PROVE TypeOK'
  <2>1. main' = "wait" /\ rampUp' = FALSE
    BY <1>5 DEF RampDone
  <2>2. UNCHANGED <<batch, queue, closed, batchDone, plRunning, idle, timer, refill, hand,
                    reports, watchdog, pc, job, slot, running, net, stale, sighup>>
    BY <1>5 DEF RampDone
  <2>3. TypeOK
    OBVIOUS
  <2> HIDE DEF IInv, TypeOK, mainVars, flags, refillVars, pipeVars, helpers, SlotInRange
  <2>4. main' \in {"idle", "load", "ramp", "wait", "crashed"} /\ rampUp' \in BOOLEAN
    BY <2>1
  <2>5. /\ running' \in Seq(0 .. 2) /\ Len(running') <= MaxStatus
        /\ net' \subseteq 1 .. Len(running') /\ Cardinality(queue') <= Cap
    BY <2>2, <2>3 DEF TypeOK
  <2>6. QED
    BY <2>2, <2>3, <2>4, <2>5 DEF TypeOK
<1>6. ASSUME BatchEnd PROVE TypeOK'
  <2>1. queue' = {} /\ hand' = {} /\ Cardinality(queue') <= Cap
    BY <1>6, FS_EmptySet DEF BatchEnd, Cap
  <2>2. Len(running) \in Nat /\ \A i \in 1 .. Len(running) : running[i] \in 0 .. 2
    BY DEF IInv, TypeOK
  <2>3. running' \in Seq(0 .. 2) /\ Len(running') = Len(running)
    BY <1>6, <2>2, Small DEF BatchEnd
  <2>4. idle' \in 0 .. 2 /\ pc' \in [Pipelines -> {"off", "poll", "crawl", "exited"}]
    BY <1>6, Small DEF BatchEnd
  <2>5. QED
    BY <1>6, <2>1, <2>3, <2>4 DEF BatchEnd, IInv, TypeOK
<1>7. ASSUME RefillTimer PROVE TypeOK'
  BY <1>7 DEF RefillTimer
<1>8. ASSUME RefillLock PROVE TypeOK'
  BY <1>8 DEF RefillLock
<1>9. ASSUME RefillInactive PROVE TypeOK'
  BY <1>9 DEF RefillInactive
<1>10. ASSUME RefillCheck PROVE TypeOK'
  BY <1>10 DEF RefillCheck
<1>11. ASSUME RefillNothing PROVE TypeOK'
  BY <1>11 DEF RefillNothing
<1>12. ASSUME RefillFetched PROVE TypeOK'
  <2>1. hand' \subseteq Sources /\ idle' \in 0 .. 2
    BY <1>12, Small DEF RefillFetched, Claimable
  <2>2. QED
    BY <1>12, <2>1 DEF RefillFetched, IInv, TypeOK, mainVars, flags, pipeVars, helpers
<1>13. ASSUME RefillPushOnClosed PROVE TypeOK'
  BY <1>13, PanicTypes DEF RefillPushOnClosed, IInv
<1>14. ASSUME Report PROVE TypeOK'
  BY <1>14 DEF Report, Cleared
<1>15. ASSUME Heartbeat PROVE TypeOK'
  BY <1>15 DEF Heartbeat, Cleared
<1>16. ASSUME WatchdogTest PROVE TypeOK'
  BY <1>16 DEF WatchdogTest
<1>17. ASSUME WatchdogClose PROVE TypeOK'
  BY <1>17 DEF WatchdogClose
<1>18. ASSUME Tick PROVE TypeOK'
  BY <1>18 DEF Tick
<1>19. ASSUME TimerFires PROVE TypeOK'
  BY <1>19 DEF TimerFires
<1>20. ASSUME Sighup PROVE TypeOK'
  BY <1>20 DEF Sighup
<1>21. ASSUME Reload PROVE TypeOK'
  BY <1>21 DEF Reload
<1>22. ASSUME ReloadDone PROVE TypeOK'
  BY <1>22 DEF ReloadDone
<1>23. ASSUME NEW s \in Sources, Load(s) PROVE TypeOK'
  <2>1. queue' \subseteq Sources /\ Cardinality(queue') <= Cap
    BY <1>23, OneMore DEF Load, IInv, TypeOK
  <2>2. QED
    BY <1>23, <2>1 DEF Load, IInv, TypeOK, flags, refillVars, pipeVars, helpers
<1>24. ASSUME NEW s \in Sources, RefillPush(s) PROVE TypeOK'
  <2>1. queue' \subseteq Sources /\ Cardinality(queue') <= Cap
    BY <1>24, OneMore DEF RefillPush, IInv, TypeOK
  <2>2. QED
    BY <1>24, <2>1 DEF RefillPush, IInv, TypeOK, mainVars, flags, pipeVars, helpers
<1>25. ASSUME NEW p \in Pipelines, Spawn(p) PROVE TypeOK'
  <2>1. idle' \in 0 .. 2 /\ pc' \in [Pipelines -> {"off", "poll", "crawl", "exited"}]
    BY <1>25, Small DEF Spawn, IInv, TypeOK
  <2>2. plRunning' \in BOOLEAN
    BY <1>25 DEF Spawn, IInv, TypeOK
  <2>3. QED
    BY <1>25, <2>1, <2>2 DEF Spawn, IInv, TypeOK, mainVars, refillVars, helpers
<1>26. ASSUME NEW p \in Pipelines, Take(p) PROVE TypeOK'
  BY <1>26, TakeTypes
<1>27. ASSUME NEW p \in Pipelines, Exit(p) PROVE TypeOK'
  BY <1>27 DEF Exit
<1>28. ASSUME NEW p \in Pipelines, Refresh(p) PROVE TypeOK'
  BY <1>28 DEF Refresh
<1>29. ASSUME NEW p \in Pipelines, Finish(p) PROVE TypeOK'
  BY <1>29, FinishTypes
<1>30. ASSUME NEW i \in 1 .. MaxStatus, NetDone(i) PROVE TypeOK'
  BY <1>30 DEF NetDone
<1>31. CASE UNCHANGED vars
  BY <1>31 DEF vars
<1>32. QED
  BY <1>2, <1>3, <1>4, <1>5, <1>6, <1>7, <1>8, <1>9, <1>10, <1>11, <1>12, <1>13, <1>14,
     <1>15, <1>16, <1>17, <1>18, <1>19, <1>20, <1>21, <1>22, <1>23, <1>24, <1>25,
     <1>26, <1>27, <1>28, <1>29, <1>30, <1>31 DEF Next, MainStep, RefillStep

(* Every step keeps the indexes of the pipelines inside the slice, which never shrinks. *)
LEMMA NextSlots == IInv /\ [Next]_vars => SlotInRange'
<1> SUFFICES ASSUME IInv, [Next]_vars PROVE SlotInRange'
  OBVIOUS
<1> USE DEF IInv, TypeOK, mainVars, flags, refillVars, pipeVars, helpers, Pipelines,
   SlotInRange
<1>2. ASSUME StartBatch PROVE SlotInRange'
  BY <1>2 DEF StartBatch
<1>3. ASSUME LoadOnClosed PROVE SlotInRange'
  BY <1>3 DEF LoadOnClosed, Panic
<1>4. ASSUME LoadDone PROVE SlotInRange'
  BY <1>4 DEF LoadDone
<1>5. ASSUME RampDone PROVE SlotInRange'
  BY <1>5 DEF RampDone
<1>6. ASSUME BatchEnd PROVE SlotInRange'
  BY <1>6 DEF BatchEnd
<1>7. ASSUME RefillTimer PROVE SlotInRange'
  BY <1>7 DEF RefillTimer
<1>8. ASSUME RefillLock PROVE SlotInRange'
  BY <1>8 DEF RefillLock
<1>9. ASSUME RefillInactive PROVE SlotInRange'
  BY <1>9 DEF RefillInactive
<1>10. ASSUME RefillCheck PROVE SlotInRange'
  BY <1>10 DEF RefillCheck
<1>11. ASSUME RefillNothing PROVE SlotInRange'
  BY <1>11 DEF RefillNothing
<1>12. ASSUME RefillFetched PROVE SlotInRange'
  BY <1>12 DEF RefillFetched
<1>13. ASSUME RefillPushOnClosed PROVE SlotInRange'
  BY <1>13 DEF RefillPushOnClosed, Panic
<1>14. ASSUME Report PROVE SlotInRange'
  BY <1>14 DEF Report, Cleared
<1>15. ASSUME Heartbeat PROVE SlotInRange'
  BY <1>15 DEF Heartbeat, Cleared
<1>16. ASSUME WatchdogTest PROVE SlotInRange'
  BY <1>16 DEF WatchdogTest
<1>17. ASSUME WatchdogClose PROVE SlotInRange'
  BY <1>17 DEF WatchdogClose
<1>18. ASSUME Tick PROVE SlotInRange'
  BY <1>18 DEF Tick
<1>19. ASSUME TimerFires PROVE SlotInRange'
  BY <1>19 DEF TimerFires
<1>20. ASSUME Sighup PROVE SlotInRange'
  BY <1>20 DEF Sighup
<1>21. ASSUME Reload PROVE SlotInRange'
  BY <1>21 DEF Reload
<1>22. ASSUME ReloadDone PROVE SlotInRange'
  BY <1>22 DEF ReloadDone
<1>23. ASSUME NEW s \in Sources, Load(s) PROVE SlotInRange'
  BY <1>23 DEF Load
<1>24. ASSUME NEW s \in Sources, RefillPush(s) PROVE SlotInRange'
  BY <1>24 DEF RefillPush
<1>25. ASSUME NEW p \in Pipelines, Spawn(p) PROVE SlotInRange'
  BY <1>25 DEF Spawn
<1>26. ASSUME NEW p \in Pipelines, Take(p) PROVE SlotInRange'
  BY <1>26 DEF Take
<1>27. ASSUME NEW p \in Pipelines, Exit(p) PROVE SlotInRange'
  BY <1>27 DEF Exit
<1>28. ASSUME NEW p \in Pipelines, Refresh(p) PROVE SlotInRange'
  BY <1>28 DEF Refresh
<1>29. ASSUME NEW p \in Pipelines, Finish(p) PROVE SlotInRange'
  BY <1>29 DEF Finish
<1>30. ASSUME NEW i \in 1 .. MaxStatus, NetDone(i) PROVE SlotInRange'
  BY <1>30 DEF NetDone
<1>31. CASE UNCHANGED vars
  BY <1>31 DEF vars
<1>32. QED
  BY <1>2, <1>3, <1>4, <1>5, <1>6, <1>7, <1>8, <1>9, <1>10, <1>11, <1>12, <1>13, <1>14,
     <1>15, <1>16, <1>17, <1>18, <1>19, <1>20, <1>21, <1>22, <1>23, <1>24, <1>25,
     <1>26, <1>27, <1>28, <1>29, <1>30, <1>31 DEF Next, MainStep, RefillStep

(* The channel stays finite: it is emptied, or loses or gains one source. *)
LEMMA NextFinite == IInv /\ [Next]_vars => IsFiniteSet(queue')
<1> SUFFICES ASSUME IInv, [Next]_vars PROVE IsFiniteSet(queue')
  OBVIOUS
<1>1. queue' \in {queue,
   {}} \/ queue' \subseteq queue \/ \E s \in Sources : queue' = queue \cup {s}
  BY DEF Next, MainStep, RefillStep, vars, StartBatch, LoadOnClosed, LoadDone, RampDone,
     BatchEnd, RefillTimer, RefillLock, RefillInactive, RefillCheck, RefillNothing,
     RefillFetched, RefillPushOnClosed, Panic, Report, Heartbeat, WatchdogTest,
        WatchdogClose,
     Tick, TimerFires, Sighup, Reload, ReloadDone, Load, RefillPush, Spawn, Take, Exit,
     Refresh, Finish, NetDone
<1>2. QED
  BY <1>1, FS_EmptySet, FS_Subset, FS_AddElement DEF IInv

(* A fresh engine has claimed nothing. *)
LEMMA InitIInv == Init => IInv
<1> SUFFICES ASSUME Init PROVE IInv
  OBVIOUS
<1>1. IsFiniteSet(queue) /\ Cardinality(queue) <= Cap /\ idle \in 0 .. 2
  BY FS_EmptySet, Small DEF Init, Cap
<1>2. /\ pc \in [Pipelines -> {"off", "poll", "crawl", "exited"}]
      /\ job \in [Pipelines -> Sources \cup {None}]
      /\ slot \in [Pipelines -> 1 .. MaxStatus \cup {None}]
  BY DEF Init
<1>3. running \in Seq(0 .. 2) /\ Len(running) <= MaxStatus
  BY DEF Init
<1>4. TypeOK
  BY <1>1, <1>2, <1>3 DEF Init, TypeOK
<1>5. Places
  BY DEF Init, Places, Quiet, Hands, OnePlace, ReloadWaitsForJobs, Crawling, InBatch
<1>6. GivenUp /\ SlotInRange
  BY DEF Init, GivenUp, SlotInRange
<1>7. QED
  BY <1>1, <1>4, <1>5, <1>6 DEF IInv

(* The invariant is inductive. *)
LEMMA NextIInv == IInv /\ [Next]_vars => IInv'
<1> SUFFICES ASSUME IInv, [Next]_vars PROVE IInv'
  OBVIOUS
<1>1. TypeOK'
  BY NextTypes
<1>2. IsFiniteSet(queue')
  BY NextFinite
<1>3. Places'
  BY NextPlaces
<1>4. GivenUp' /\ SlotInRange'
  BY NextGivenUp, NextSlots
<1>5. QED
  BY <1>1, <1>2, <1>3, <1>4 DEF IInv

(* The types of the batch's state, and the invariants below, hold in every *)
(* reachable state.                                                        *)
THEOREM BatchInvariant == Spec => []IInv
<1>1. QED
  BY InitIInv, NextIInv, PTL DEF Spec

(* The channel, the refill's hands, the pipelines and the statuses keep    *)
(* their types and stay within their bounds.                               *)
THEOREM BatchTypes == Spec => []TypeOK
  BY BatchInvariant, PTL DEF IInv

(* A source this engine claimed is in one place of the engine: no two      *)
(* pipelines crawl it, and none crawls what the loader, the channel or the *)
(* refill still has.                                                       *)
THEOREM SourceInOnePlace == Spec => []OnePlace
<1>1. IInv => OnePlace
  BY DEF IInv, Places
<1>2. QED
  BY <1>1, BatchInvariant, PTL

(* initAll runs in the SIGHUP handler only when no pipeline crawls.        *)
THEOREM ReloadExcludesCrawls == Spec => []ReloadWaitsForJobs
<1>1. IInv => ReloadWaitsForJobs
  BY DEF IInv, Places
<1>2. QED
  BY <1>1, BatchInvariant, PTL

(* What NothingDropped says of a step. *)
Kept ==
    (batch \cup queue \cup hand) \ (batch' \cup queue' \cup hand' \cup
         {job'[p] : p \in Pipelines}) # {}  =>  batchDone \/ main' = "crashed"

(* No step drops a claimed source before the batch is given up: the loader *)
(* and the refill hand on what they take, a pipeline crawls what it takes, *)
(* and crawlSources returns only after its pipelines were told to stop.    *)
THEOREM NoSourceDropped == Spec => NothingDropped
<1>1. ASSUME IInv, [Next]_vars PROVE Kept
  <2> USE DEF IInv, TypeOK, Places, Quiet, Hands, GivenUp, InBatch, mainVars, flags,
     refillVars, pipeVars, helpers, Pipelines, Kept
  <2>2. ASSUME StartBatch PROVE Kept
    <3>1. batch = {} /\ queue = {} /\ hand = {}
      BY <1>1, <2>2 DEF StartBatch, IInv, Places, Quiet, InBatch
    <3>2. QED
      BY <3>1 DEF Kept
  <2>3. ASSUME LoadOnClosed PROVE Kept
    BY <2>3 DEF LoadOnClosed, Panic
  <2>4. ASSUME LoadDone PROVE Kept
    BY <2>4 DEF LoadDone
  <2>5. ASSUME RampDone PROVE Kept
    BY <2>5 DEF RampDone
  <2>6. ASSUME BatchEnd PROVE Kept
    <3>1. 1 \in Pipelines
      BY DEF Pipelines
    <3>2. batchDone
      BY <1>1, <2>6, <3>1 DEF BatchEnd, IInv, GivenUp
    <3>3. QED
      BY <3>2 DEF Kept
  <2>7. ASSUME RefillTimer PROVE Kept
    BY <2>7 DEF RefillTimer
  <2>8. ASSUME RefillLock PROVE Kept
    BY <2>8 DEF RefillLock
  <2>9. ASSUME RefillInactive PROVE Kept
    BY <2>9 DEF RefillInactive
  <2>10. ASSUME RefillCheck PROVE Kept
    BY <2>10 DEF RefillCheck
  <2>11. ASSUME RefillNothing PROVE Kept
    BY <2>11 DEF RefillNothing
  <2>12. ASSUME RefillFetched PROVE Kept
    <3>1. hand = {}
      BY <1>1, <2>12 DEF RefillFetched, IInv, Places, Hands
    <3>2. batch' = batch /\ queue' = queue
      BY <2>12 DEF RefillFetched, mainVars
    <3>3. QED
      BY <3>1, <3>2 DEF Kept
  <2>13. ASSUME RefillPushOnClosed PROVE Kept
    BY <2>13 DEF RefillPushOnClosed, Panic
  <2>14. ASSUME Report PROVE Kept
    BY <2>14 DEF Report, Cleared
  <2>15. ASSUME Heartbeat PROVE Kept
    BY <2>15 DEF Heartbeat, Cleared
  <2>16. ASSUME WatchdogTest PROVE Kept
    BY <2>16 DEF WatchdogTest
  <2>17. ASSUME WatchdogClose PROVE Kept
    BY <2>17 DEF WatchdogClose
  <2>18. ASSUME Tick PROVE Kept
    BY <2>18 DEF Tick
  <2>19. ASSUME TimerFires PROVE Kept
    BY <2>19 DEF TimerFires
  <2>20. ASSUME Sighup PROVE Kept
    BY <2>20 DEF Sighup
  <2>21. ASSUME Reload PROVE Kept
    BY <2>21 DEF Reload
  <2>22. ASSUME ReloadDone PROVE Kept
    BY <2>22 DEF ReloadDone
  <2>23. ASSUME NEW s \in Sources, Load(s) PROVE Kept
    BY <2>23 DEF Load
  <2>24. ASSUME NEW s \in Sources, RefillPush(s) PROVE Kept
    BY <2>24 DEF RefillPush
  <2>25. ASSUME NEW p \in Pipelines, Spawn(p) PROVE Kept
    BY <2>25 DEF Spawn
  <2>26. ASSUME NEW p \in Pipelines, Take(p) PROVE Kept
    <3>1. PICK s \in queue : queue' = queue \ {s} /\ job' = [job EXCEPT ![p] = s]
      BY <2>26 DEF Take
    <3>2. batch' = batch /\ hand' = hand /\ job'[p] = s
      BY <1>1, <2>26, <3>1 DEF Take, mainVars, refillVars, IInv, TypeOK
    <3>3. QED
      BY <3>1, <3>2 DEF Kept
  <2>27. ASSUME NEW p \in Pipelines, Exit(p) PROVE Kept
    BY <2>27 DEF Exit
  <2>28. ASSUME NEW p \in Pipelines, Refresh(p) PROVE Kept
    BY <2>28 DEF Refresh
  <2>29. ASSUME NEW p \in Pipelines, Finish(p) PROVE Kept
    BY <2>29 DEF Finish
  <2>30. ASSUME NEW i \in 1 .. MaxStatus, NetDone(i) PROVE Kept
    BY <2>30 DEF NetDone
  <2>31. CASE UNCHANGED vars
    BY <2>31 DEF vars
  <2>32. QED
    BY <1>1, <2>2, <2>3, <2>4, <2>5, <2>6, <2>7, <2>8, <2>9, <2>10, <2>11, <2>12,
       <2>13, <2>14, <2>15, <2>16, <2>17, <2>18, <2>19, <2>20, <2>21, <2>22, <2>23,
       <2>24, <2>25, <2>26, <2>27, <2>28, <2>29, <2>30, <2>31 DEF Next, MainStep,
       RefillStep
<1>2. IInv /\ [Next]_vars => [Kept]_vars
  BY <1>1
<1>3. QED
  BY <1>2, BatchInvariant, PTL DEF NothingDropped, Kept, Spec

(***************************************************************************)
(* With as many statuses as pipelines the slice is never outgrown.         *)
(***************************************************************************)
Truthful == StatusTruthful /\ stale = {}

(* Every step keeps a running entry somebody's. *)
LEMMA NextTruthful ==
    ASSUME MaxStatus = N PROVE IInv /\ Truthful /\ [Next]_vars => Truthful'
<1> SUFFICES ASSUME IInv, Truthful, [Next]_vars PROVE Truthful'
  OBVIOUS
<1> USE DEF IInv, TypeOK, Places, Quiet, Hands, SlotInRange, Truthful, StatusTruthful,
   Crawling, InBatch, mainVars, flags, refillVars, pipeVars, helpers, Pipelines
<1>2. ASSUME StartBatch PROVE Truthful'
  BY <1>2 DEF StartBatch
<1>3. ASSUME LoadOnClosed PROVE Truthful'
  BY <1>3 DEF LoadOnClosed, Panic
<1>4. ASSUME LoadDone PROVE Truthful'
  BY <1>4 DEF LoadDone
<1>5. ASSUME RampDone PROVE Truthful'
  BY <1>5 DEF RampDone
<1>6. ASSUME BatchEnd PROVE Truthful'
  BY <1>6 DEF BatchEnd
<1>7. ASSUME RefillTimer PROVE Truthful'
  BY <1>7 DEF RefillTimer
<1>8. ASSUME RefillLock PROVE Truthful'
  BY <1>8 DEF RefillLock
<1>9. ASSUME RefillInactive PROVE Truthful'
  BY <1>9 DEF RefillInactive
<1>10. ASSUME RefillCheck PROVE Truthful'
  BY <1>10 DEF RefillCheck
<1>11. ASSUME RefillNothing PROVE Truthful'
  BY <1>11 DEF RefillNothing
<1>12. ASSUME RefillFetched PROVE Truthful'
  BY <1>12 DEF RefillFetched
<1>13. ASSUME RefillPushOnClosed PROVE Truthful'
  BY <1>13 DEF RefillPushOnClosed, Panic
<1>14. ASSUME Report PROVE Truthful'
  BY <1>14 DEF Report, Cleared
<1>15. ASSUME Heartbeat PROVE Truthful'
  BY <1>15 DEF Heartbeat, Cleared
<1>16. ASSUME WatchdogTest PROVE Truthful'
  BY <1>16 DEF WatchdogTest
<1>17. ASSUME WatchdogClose PROVE Truthful'
  BY <1>17 DEF WatchdogClose
<1>18. ASSUME Tick PROVE Truthful'
  BY <1>18 DEF Tick
<1>19. ASSUME TimerFires PROVE Truthful'
  BY <1>19 DEF TimerFires
<1>20. ASSUME Sighup PROVE Truthful'
  BY <1>20 DEF Sighup
<1>21. ASSUME Reload PROVE Truthful'
  BY <1>21 DEF Reload
<1>22. ASSUME ReloadDone PROVE Truthful'
  BY <1>22 DEF ReloadDone
<1>23. ASSUME NEW s \in Sources, Load(s) PROVE Truthful'
  BY <1>23 DEF Load
<1>24. ASSUME NEW s \in Sources, RefillPush(s) PROVE Truthful'
  BY <1>24 DEF RefillPush
<1>25. ASSUME NEW p \in Pipelines, Spawn(p) PROVE Truthful'
  BY <1>25 DEF Spawn
<1>26. ASSUME NEW p \in Pipelines, Take(p) PROVE Truthful'
  <2>1. PICK i \in 1 .. Len(running) + 1 :
          /\ StatusIndex(p, i)
          /\ slot' = [slot EXCEPT ![p] = i]
          /\ running' = IF i > Len(running) THEN Append(running, 1)
                        ELSE [running EXCEPT ![i] = 1]
          /\ stale' = (IF Outgrown(i) THEN Crawling ELSE stale) \ {p}
    BY <1>26 DEF Take
  <2>2. i \in 1 .. N /\ (i > Len(running) => i = Len(running) + 1)
    BY <2>1, MaxStatus = N DEF StatusIndex, IsFirst, FreeStatuses, IInv, TypeOK,
       SlotInRange
  <2>3. stale' = {}
    BY <2>1, <2>2 DEF Outgrown, Truthful
  <2>4. pc[p] = "poll" /\ pc' = [pc EXCEPT ![p] = "crawl"]
    BY <1>26 DEF Take
  <2>5. ASSUME NEW k \in 1 .. Len(running'), running'[k] = 1
        PROVE  \E q \in Crawling' : slot'[q] = k
    <3>1. CASE k = i
      BY <2>1, <2>4, <3>1 DEF Crawling, IInv, TypeOK
    <3>2. CASE k # i
      <4>1. k \in 1 .. Len(running) /\ running[k] = 1
        BY <2>1, <2>2, <2>5, <3>2 DEF IInv, TypeOK
      <4>2. PICK q \in Crawling : slot[q] = k
        BY <4>1 DEF Truthful, StatusTruthful
      <4>3. q \in Crawling' /\ slot'[q] = k
        BY <2>1, <2>4, <4>2 DEF Crawling, IInv, TypeOK
      <4>4. QED
        BY <4>3
    <3>3. QED
      BY <3>1, <3>2
  <2>6. QED
    BY <2>3, <2>5 DEF Truthful, StatusTruthful
<1>27. ASSUME NEW p \in Pipelines, Exit(p) PROVE Truthful'
  BY <1>27 DEF Exit
<1>28. ASSUME NEW p \in Pipelines, Refresh(p) PROVE Truthful'
  BY <1>28 DEF Refresh
<1>29. ASSUME NEW p \in Pipelines, Finish(p) PROVE Truthful'
  BY <1>29 DEF Finish
<1>30. ASSUME NEW i \in 1 .. MaxStatus, NetDone(i) PROVE Truthful'
  BY <1>30 DEF NetDone
<1>31. CASE UNCHANGED vars
  BY <1>31 DEF vars
<1>32. QED
  BY <1>2, <1>3, <1>4, <1>5, <1>6, <1>7, <1>8, <1>9, <1>10, <1>11, <1>12, <1>13, <1>14,
     <1>15, <1>16, <1>17, <1>18, <1>19, <1>20, <1>21, <1>22, <1>23, <1>24, <1>25,
     <1>26, <1>27, <1>28, <1>29, <1>30, <1>31 DEF Next, MainStep, RefillStep

(* An entry says running only while a pipeline crawls on it, as long as    *)
(* the slice of statuses does not grow past the number of pipelines.       *)
THEOREM StatusesTruthful ==
    ASSUME MaxStatus = N PROVE Spec => []StatusTruthful
<1>1. Init => Truthful
  BY DEF Init, Truthful, StatusTruthful
<1>2. IInv /\ Truthful /\ [Next]_vars => Truthful'
  BY NextTruthful
<1>3. QED
  BY <1>1, <1>2, BatchInvariant, PTL DEF Spec, Truthful

(***************************************************************************)
(* The loader. With an early refill it can find the channel closed, and    *)
(* its send panics; a refill that begins once the load is done does not    *)
(* close it, and the watchdog leaves it alone until the ramp-up is over.   *)
(***************************************************************************)
(* The loader's channel is open.                                           *)
ChannelOpenForLoad == main = "load" => ~closed

(* While the first sources are loaded, nobody has begun to give up.        *)
LoadAlone ==
    main = "load" => ~closed /\ rampUp /\ refill = "poll" /\ watchdog = "on"

(* With a late refill no step of the load disturbs this.                   *)
LEMMA NextLoadAlone ==
    ASSUME ~RefillEarly, LoadAlone, [Next]_vars
    PROVE  LoadAlone'
<1> USE DEF LoadAlone, mainVars, flags, refillVars, helpers, pipeVars
<1>1. CASE StartBatch
  BY <1>1 DEF StartBatch
<1>2. CASE LoadOnClosed \/ RefillPushOnClosed
  BY <1>2 DEF LoadOnClosed, RefillPushOnClosed, Panic
<1>3. CASE LoadDone \/ RampDone \/ BatchEnd
  BY <1>3 DEF LoadDone, RampDone, BatchEnd
<1>4. CASE \E s \in Sources : Load(s)
  BY <1>4 DEF Load
<1>5. CASE \E p \in Pipelines : Spawn(p)
  BY <1>5 DEF Spawn
<1>6. CASE RefillTimer \/ RefillLock
  BY <1>6 DEF RefillTimer, RefillLock, RefillRuns
<1>7. CASE RefillInactive \/ RefillCheck \/ RefillNothing \/ RefillFetched
  BY <1>7 DEF RefillInactive, RefillCheck, RefillNothing, RefillFetched
<1>8. CASE \E s \in Sources : RefillPush(s)
  BY <1>8 DEF RefillPush
<1>9. CASE \E p \in Pipelines : Take(p) \/ Exit(p) \/ Refresh(p) \/ Finish(p)
  BY <1>9 DEF Take, Exit, Refresh, Finish
<1>10. CASE \E i \in 1 .. MaxStatus : NetDone(i)
  BY <1>10 DEF NetDone
<1>11. CASE Report \/ Heartbeat \/ Tick \/ TimerFires \/ Sighup \/ Reload \/ ReloadDone
  BY <1>11 DEF Report, Heartbeat, Tick, TimerFires, Sighup, Reload, ReloadDone
<1>12. CASE WatchdogTest \/ WatchdogClose
  BY <1>12 DEF WatchdogTest, WatchdogClose
<1>13. CASE UNCHANGED vars
  BY <1>13 DEF vars
<1> QED
  BY <1>1, <1>2, <1>3, <1>4, <1>5, <1>6, <1>7, <1>8, <1>9, <1>10, <1>11, <1>12, <1>13
     DEF Next, MainStep, RefillStep

(* If the refill waits for the first load, the loader never sends on a     *)
(* closed channel, however long the load takes.                            *)
THEOREM LoaderSafe ==
    ASSUME ~RefillEarly PROVE Spec => []ChannelOpenForLoad
<1>1. Init => LoadAlone
  BY DEF Init, LoadAlone
<1>2. LoadAlone /\ [Next]_vars => LoadAlone'
  BY NextLoadAlone
<1>3. LoadAlone => ChannelOpenForLoad
  BY DEF LoadAlone, ChannelOpenForLoad
<1> QED
  BY <1>1, <1>2, <1>3, PTL DEF Spec
=============================================================================
