------------------------------- MODULE VDIPool -------------------------------
(***************************************************************************)
(* The pool of VDIs (remote browsers) of one engine: pkg/vdi/vdi.go,       *)
(* Pool and Lease, with the three kinds of caller it has:                  *)
(*  - engine pipelines (startCrawling in cmd/thecrowler/main.go), which    *)
(*    use the compatibility calls Acquire and Pool.Release(index, names);  *)
(*  - information-seed browsers and browser.Manager, which use             *)
(*    AcquireContext with a context and give the lease back with           *)
(*    Lease.Release;                                                       *)
(*  - the SIGHUP handler (initAll -> NewVDIPool), which calls Init and     *)
(*    then Add for every configured VDI on the pool in use.                *)
(* Every method body runs under Pool.mu, so each is one action; a caller   *)
(* blocked in AcquireContext is parked on the wake-up channel it captured. *)
(* Pool.Remove has no caller and is not modelled.                          *)
(***************************************************************************)
EXTENDS Integers, Sequences

CONSTANTS
    VDIs,            \* Selenium instances named in the configuration
    Names,           \* VDI names
    NameOf,          \* NameOf[v]: configured name of v (trimmed, case-folded)
    Config,          \* config.Selenium: the instances, in order
    EngineClients,   \* startCrawling goroutines
    SeedClients,     \* callers of AcquireContext / Lease.Release
    EngineAllow,     \* Crawler.VDIName as a set of names ({} allows any)
    SeedAllowLists,  \* the allow lists seed clients may ask for
    NoLease,         \* no lease registered on the slot
    NoVDI,           \* no VDI in use (refinement mapping)
    MaxSlots         \* bound: slots the pool may grow to (reloads append)

Clients == EngineClients \cup SeedClients
SlotIdx == 1 .. MaxSlots

ASSUME VDIsAssumption ==
    /\ NameOf \in [VDIs -> Names]
    /\ Config \in Seq(VDIs)
    /\ \A i, j \in DOMAIN Config : Config[i] = Config[j] => i = j
ASSUME ClientsAssumption ==
    /\ EngineClients \cap SeedClients = {}
    /\ NoLease \notin Clients
    /\ NoVDI \notin VDIs
ASSUME AllowAssumption ==
    EngineAllow \in SUBSET Names /\ SeedAllowLists \subseteq SUBSET Names
ASSUME BoundAssumption == MaxSlots \in Nat /\ Len(Config) <= MaxSlots

VARIABLES
    slot,     \* Pool.slot: the instances, by index
    busy,     \* indices marked TRUE in Pool.busy (an absent entry is false)
    leases,   \* Pool.leases: the client whose lease is registered, or NoLease
    pc,       \* where each client is
    want,     \* allow list of the client's current request
    held,     \* index the client's lease names (0: none)
    toAdd,    \* instances NewVDIPool still has to Add in the current reload
    reloaded  \* a reload has happened

vars == <<slot, busy, leases, pc, want, held, toAdd, reloaded>>

(***************************************************************************)
(* pc values: "idle"; "trying", about to run the locked part of the        *)
(* AcquireContext loop; "parked", blocked on the pool's current wake-up    *)
(* channel; "stranded", blocked on a channel Init replaced, which nobody   *)
(* will close; "holding", using the VDI; "returning", the engine's crawl   *)
(* is over but the goroutine has not called Pool.Release yet.              *)
(***************************************************************************)
PCs == {"idle", "trying", "parked", "stranded", "holding", "returning"}

TypeOK ==
    /\ slot \in Seq(VDIs) /\ Len(slot) <= MaxSlots
    /\ busy \in SUBSET SlotIdx
    /\ leases \in [SlotIdx -> Clients \cup {NoLease}]
    /\ pc \in [Clients -> PCs]
    /\ want \in [Clients -> SUBSET Names]
    /\ held \in [Clients -> 0 .. MaxSlots]
    /\ toAdd \in 0 .. Len(Config)
    /\ reloaded \in BOOLEAN

(* The pool initAll leaves at start-up, before any client runs. *)
Init ==
    /\ slot = Config
    /\ busy = {}
    /\ leases = [i \in SlotIdx |-> NoLease]
    /\ pc = [c \in Clients |-> "idle"]
    /\ want = [c \in Clients |-> {}]
    /\ held = [c \in Clients |-> 0]
    /\ toAdd = 0
    /\ reloaded = FALSE

(* nameAllowed: an empty list allows every name. *)
NameAllowed(v, allow) == allow = {} \/ NameOf[v] \in allow

Matching(allow) == {i \in DOMAIN slot : NameAllowed(slot[i], allow)}

(* signalLocked closes the wake-up channel and makes a new one: everyone   *)
(* parked on the current channel goes back to the head of the loop.        *)
Signalled(p) == [c \in Clients |-> IF p[c] = "parked" THEN "trying" ELSE p[c]]

(* Faulty variants of releaseLocked: the busy mark stays; nobody is woken. *)
ReleaseKeepsBusy(i, c, s) ==
    /\ leases' = [leases EXCEPT ![i] = NoLease]
    /\ pc' = Signalled([pc EXCEPT ![c] = s])
    /\ UNCHANGED busy
ReleaseSilently(i, c, s) ==
    /\ leases' = [leases EXCEPT ![i] = NoLease]
    /\ busy' = busy \ {i}
    /\ pc' = [pc EXCEPT ![c] = s]

(* releaseLocked, by client c leaving with state s *)
ReleaseLocked(i, c, s) ==
    /\ leases' = [leases EXCEPT ![i] = NoLease]
    /\ busy' = busy \ {i}
    /\ pc' = Signalled([pc EXCEPT ![c] = s])

(***************************************************************************)
(* Acquiring.                                                              *)
(***************************************************************************)
(* startCrawling calls Acquire(Crawler.VDIName) during a batch; the batch  *)
(* holds configMutex for reading, so no reload is under way.               *)
EngineStart(c) ==
    /\ pc[c] = "idle" /\ toAdd = 0
    /\ pc' = [pc EXCEPT ![c] = "trying"]
    /\ want' = [want EXCEPT ![c] = EngineAllow]
    /\ UNCHANGED <<slot, busy, leases, held, toAdd, reloaded>>

(* A seed browser calls AcquireContext with its allow list, at any time. *)
SeedStart(c) ==
    /\ pc[c] = "idle"
    /\ \E allow \in SeedAllowLists : want' = [want EXCEPT ![c] = allow]
    /\ pc' = [pc EXCEPT ![c] = "trying"]
    /\ UNCHANGED <<slot, busy, leases, held, toAdd, reloaded>>

(* Faulty variant: the loop takes the first matching slot, busy or not. *)
AcquireIgnoringBusy(c) ==
    /\ pc[c] = "trying"
    /\ \E i \in Matching(want[c]) :
         /\ \A j \in Matching(want[c]) : i <= j
         /\ busy' = busy \cup {i}
         /\ leases' = [leases EXCEPT ![i] = c]
         /\ held' = [held EXCEPT ![c] = i]
    /\ pc' = [pc EXCEPT ![c] = "holding"]
    /\ UNCHANGED <<slot, want, toAdd, reloaded>>

(* The locked part of the loop finds a free matching slot: the first one. *)
AcquireSlot(c) ==
    /\ pc[c] = "trying"
    /\ \E i \in Matching(want[c]) \ busy :
         /\ \A j \in Matching(want[c]) \ busy : i <= j
         /\ busy' = busy \cup {i}
         /\ leases' = [leases EXCEPT ![i] = c]
         /\ held' = [held EXCEPT ![c] = i]
    /\ pc' = [pc EXCEPT ![c] = "holding"]
    /\ UNCHANGED <<slot, want, toAdd, reloaded>>

(* Every matching slot is busy: capture the channel and wait on it. *)
AcquirePark(c) ==
    /\ pc[c] = "trying"
    /\ Matching(want[c]) # {} /\ Matching(want[c]) \subseteq busy
    /\ pc' = [pc EXCEPT ![c] = "parked"]
    /\ UNCHANGED <<slot, busy, leases, want, held, toAdd, reloaded>>

(* No slot has an allowed name: the call fails. *)
AcquireFail(c) ==
    /\ pc[c] = "trying"
    /\ Matching(want[c]) = {}
    /\ pc' = [pc EXCEPT ![c] = "idle"]
    /\ UNCHANGED <<slot, busy, leases, want, held, toAdd, reloaded>>

(* The caller's context ends before or during the wait. Acquire uses the   *)
(* background context, which never ends.                                   *)
AcquireCancel(c) ==
    /\ pc[c] \in {"trying", "parked", "stranded"}
    /\ pc' = [pc EXCEPT ![c] = "idle"]
    /\ UNCHANGED <<slot, busy, leases, want, held, toAdd, reloaded>>

TryAcquire(c) == AcquireSlot(c) \/ AcquirePark(c) \/ AcquireFail(c)

(***************************************************************************)
(* Releasing.                                                              *)
(***************************************************************************)
(* CrawlWebsite has sent the VDI on releaseVDI and called WG.Done.         *)
EngineFinish(c) ==
    /\ pc[c] = "holding"
    /\ pc' = [pc EXCEPT ![c] = "returning"]
    /\ UNCHANGED <<slot, busy, leases, want, held, toAdd, reloaded>>

(* Pool.Release(index, VDIName): ends whatever lease the slot has, or      *)
(* returns when the index is out of range, the name is not allowed or no   *)
(* lease is registered.                                                    *)
EngineRelease(c) ==
    LET i == held[c] IN
    /\ pc[c] = "returning"
    /\ IF /\ i \in DOMAIN slot
          /\ NameAllowed(slot[i], EngineAllow)
          /\ leases[i] # NoLease
         THEN ReleaseLocked(i, c, "idle")
         ELSE pc' = [pc EXCEPT ![c] = "idle"] /\ UNCHANGED <<busy, leases>>
    /\ held' = [held EXCEPT ![c] = 0]
    /\ UNCHANGED <<slot, want, toAdd, reloaded>>

(* Faulty variant of Lease.Release: no check of who holds the slot. *)
LeaseReleaseAny(c) ==
    LET i == held[c] IN
    /\ pc[c] = "holding"
    /\ IF i \in DOMAIN slot /\ leases[i] # NoLease
         THEN ReleaseLocked(i, c, "idle")
         ELSE pc' = [pc EXCEPT ![c] = "idle"] /\ UNCHANGED <<busy, leases>>
    /\ held' = [held EXCEPT ![c] = 0]
    /\ UNCHANGED <<slot, want, toAdd, reloaded>>

(* Lease.Release, once per lease: it ends the registered lease only when   *)
(* that is this very lease; otherwise the slot is left alone.              *)
LeaseRelease(c) ==
    LET i == held[c] IN
    /\ pc[c] = "holding"
    /\ IF i \in DOMAIN slot /\ leases[i] = c
         THEN ReleaseLocked(i, c, "idle")
         ELSE pc' = [pc EXCEPT ![c] = "idle"] /\ UNCHANGED <<busy, leases>>
    /\ held' = [held EXCEPT ![c] = 0]
    /\ UNCHANGED <<slot, want, toAdd, reloaded>>

(***************************************************************************)
(* Reloading on SIGHUP. configMutex keeps a reload out of a batch: every   *)
(* pipeline has passed crawlWG.Wait, so no engine client is acquiring or   *)
(* using a VDI; the seed clients do not take that lock.                    *)
(***************************************************************************)
(* Pool.Init(len(configs)): fresh busy and leases maps and a fresh wake-up *)
(* channel; the slots stay (the line that cleared them is commented out)   *)
(* and the old channel is not closed.                                      *)
ReloadInit ==
    /\ toAdd = 0 /\ Len(slot) + Len(Config) <= MaxSlots
    /\ \A c \in EngineClients : pc[c] \in {"idle", "returning"}
    /\ busy' = {}
    /\ leases' = [i \in SlotIdx |-> NoLease]
    /\ pc' = [c \in Clients |-> IF pc[c] = "parked" THEN "stranded" ELSE pc[c]]
    /\ toAdd' = Len(Config)
    /\ reloaded' = TRUE
    /\ UNCHANGED <<slot, want, held>>

(* Faulty variant: the loop over the configuration does not advance. *)
ReloadAddAgain ==
    /\ toAdd > 0
    /\ slot' = Append(slot, Config[Len(Config) - toAdd + 1])
    /\ busy' = busy \ {Len(slot) + 1}
    /\ pc' = Signalled(pc)
    /\ UNCHANGED <<leases, want, held, toAdd, reloaded>>

(* Pool.Add of the next configured instance. *)
ReloadAdd ==
    /\ toAdd > 0
    /\ slot' = Append(slot, Config[Len(Config) - toAdd + 1])
    /\ busy' = busy \ {Len(slot) + 1}
    /\ pc' = Signalled(pc)
    /\ toAdd' = toAdd - 1
    /\ UNCHANGED <<leases, want, held, reloaded>>

Next ==
    \/ \E c \in EngineClients : EngineStart(c) \/ EngineFinish(c) \/ EngineRelease(c)
    \/ \E c \in SeedClients : SeedStart(c) \/ AcquireCancel(c) \/ LeaseRelease(c)
    \/ \E c \in Clients : TryAcquire(c)
    \/ ReloadInit
    \/ ReloadAdd

Spec == Init /\ [][Next]_vars

(***************************************************************************)
(* A runnable goroutine runs; a crawl ends (ProcessingTimeout bounds it)   *)
(* and its goroutine releases the VDI; a seed session ends. Nothing makes  *)
(* a client start, a context end or a SIGHUP arrive.                       *)
(***************************************************************************)
Fairness ==
    /\ \A c \in Clients : WF_vars(TryAcquire(c))
    /\ \A c \in EngineClients : WF_vars(EngineFinish(c)) /\ WF_vars(EngineRelease(c))
    /\ \A c \in SeedClients : WF_vars(LeaseRelease(c))
    /\ WF_vars(ReloadAdd)

FairSpec == Spec /\ Fairness

(***************************************************************************)
(* Properties.                                                             *)
(***************************************************************************)
HasLease(c) == pc[c] \in {"holding", "returning"}
Waiting(c)  == pc[c] \in {"trying", "parked"}

(* The two maps of the pool agree, and a registered lease is the lease its *)
(* client still has: Acquire, both Releases, Init and Add keep             *)
(* Pool.busy and Pool.leases in step whatever order they run in.           *)
LeaseTableConsistent ==
    /\ \A i \in SlotIdx : i \in busy <=> leases[i] # NoLease
    /\ \A i \in SlotIdx : leases[i] # NoLease =>
         HasLease(leases[i]) /\ held[leases[i]] = i

(* A client parked on the pool's wake-up channel has no free slot to take: *)
(* AcquireContext captures the channel under the lock that every release   *)
(* and Add signals under, so no wake-up is lost.                           *)
NoLostWakeup ==
    \A c \in Clients : pc[c] = "parked" => Matching(want[c]) \subseteq busy

(* A registered lease ends only when its own client lets go of it, when a  *)
(* reload wipes the table, or when an engine that was still returning its  *)
(* VDI across a reload releases by index. "A stale or altered lease cannot *)
(* release a slot owned by another acquisition" (Lease.Release).           *)
LeaseEndsWithHolder ==
    [][\A i \in SlotIdx :
         (leases[i] # NoLease /\ leases'[i] # leases[i]) =>
            \/ pc'[leases[i]] = "idle"
            \/ reloaded' /\ toAdd = 0 /\ toAdd' = Len(Config)
            \/ /\ reloaded
               /\ \E e \in EngineClients : pc[e] = "returning" /\ pc'[e] = "idle"]_vars

(* Until the first reload a leased slot stays registered to its client, so *)
(* no slot is leased twice.                                                *)
OwnersRegistered ==
    ~reloaded => \A c \in Clients : HasLease(c) => leases[held[c]] = c

(* "Lease represents exclusive ownership": two clients never drive the     *)
(* same browser. A reload breaks it.                                       *)
ExclusiveVDI ==
    \A c, d \in Clients :
        (pc[c] = "holding" /\ pc[d] = "holding" /\ slot[held[c]] = slot[held[d]]) => c = d

(* A free slot is not left idle while a client that may use it waits: it   *)
(* is taken, by that client or another, or the client stops waiting.       *)
FreeSlotIsTaken ==
    \A c \in Clients, i \in SlotIdx :
        (Waiting(c) /\ i \in Matching(want[c]) \ busy) ~> (i \in busy \/ ~Waiting(c))

(* The clients' view of the pool: it implements VDIOwnership. *)
Own == INSTANCE VDIOwnership WITH
    using <- [c \in Clients |-> IF HasLease(c) THEN slot[held[c]] ELSE NoVDI],
    rebuilt <- reloaded

(* Every step of the pool takes a VDI, gives one back, is the first reload *)
(* or changes nothing a client can see: a reload takes no VDI away, and    *)
(* before it nobody gets a VDI that is in use.                             *)
ImplementsOwnership == Own!Spec
=============================================================================
