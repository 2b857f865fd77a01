--------------------------- MODULE VDIPool_proofs ---------------------------
(***************************************************************************)
(* Proofs about VDIPool, for every set of clients, configuration, set of   *)
(* allow lists and bound on the number of slots.                           *)
(***************************************************************************)
EXTENDS VDIPool, TLAPS

(* A lease names a slot its client asked for (slots are only appended),    *)
(* and an engine client asks for what it will release with.                *)
LeaseMatches ==
    /\ \A c \in Clients : HasLease(c) => held[c] \in Matching(want[c])
    /\ \A c \in EngineClients : pc[c] # "idle" => want[c] = EngineAllow

(* The Adds of the reload under way fit under the bound. *)
SlotRoom == Len(slot) + toAdd <= MaxSlots

(* Until the first reload the slots are the configured VDIs, each once. *)
SlotsAsConfigured == ~reloaded => slot = Config /\ toAdd = 0

(* The inductive invariant. *)
IInv ==
    /\ TypeOK
    /\ LeaseMatches
    /\ SlotRoom
    /\ SlotsAsConfigured
    /\ LeaseTableConsistent
    /\ NoLostWakeup
    /\ OwnersRegistered

USE VDIsAssumption, ClientsAssumption, AllowAssumption, BoundAssumption
DEF VDIsAssumption, ClientsAssumption, AllowAssumption, BoundAssumption

(* What IInv gives about the slots, in the form the steps use it. *)
LEMMA SlotFacts ==
    ASSUME IInv
    PROVE  /\ slot \in Seq(VDIs) /\ Len(slot) \in Nat
           /\ DOMAIN slot = 1 .. Len(slot)
           /\ DOMAIN slot \subseteq SlotIdx
  BY DEF IInv, TypeOK, SlotIdx, SlotRoom

(* Signalling changes no client's lease and parks nobody. *)
LEMMA SignalledFacts ==
    ASSUME NEW p \in [Clients -> PCs]
    PROVE  /\ Signalled(p) \in [Clients -> PCs]
           /\ \A c \in Clients : Signalled(p)[c] # "parked"
           /\ \A c \in Clients : p[c] # "parked" => Signalled(p)[c] = p[c]
           /\ \A c \in Clients : p[c] = "parked" => Signalled(p)[c] = "trying"
  BY DEF Signalled, PCs

(* The pool initAll leaves at start-up satisfies the invariant. *)
LEMMA InitIInv == Init => IInv
<1> SUFFICES ASSUME Init PROVE IInv
  OBVIOUS
<1>1. TypeOK
  <2>1. Len(Config) \in Nat /\ 0 \in 0 .. MaxSlots
    OBVIOUS
  <2>2. /\ leases \in [SlotIdx -> Clients \cup {NoLease}]
        /\ pc \in [Clients -> PCs]
        /\ want \in [Clients -> SUBSET Names]
    BY DEF Init, PCs
  <2>3. held \in [Clients -> 0 .. MaxSlots] /\ toAdd \in 0 .. Len(Config)
    BY <2>1 DEF Init
  <2>4. slot \in Seq(VDIs) /\ Len(slot) <= MaxSlots /\ busy \in SUBSET SlotIdx
    BY DEF Init
  <2>5. QED
    BY <2>2, <2>3, <2>4 DEF Init, TypeOK
<1>2. QED
  BY <1>1 DEF Init, IInv, LeaseMatches, SlotRoom, SlotsAsConfigured, HasLease,
      LeaseTableConsistent, NoLostWakeup, OwnersRegistered, Clients

(* Steps that only move a client between places where it has no lease and  *)
(* is not parked (EngineStart, SeedStart, AcquireFail, AcquireCancel).     *)
LEMMA MoveIInv ==
    ASSUME IInv, NEW c \in Clients, NEW s \in {"idle", "trying"},
           ~HasLease(c), pc' = [pc EXCEPT ![c] = s],
           want' \in [Clients -> SUBSET Names],
           \A d \in Clients : d # c => want'[d] = want[d],
           c \in EngineClients /\ s = "trying" => want'[c] = EngineAllow,
           UNCHANGED <<slot, busy, leases, held, toAdd, reloaded>>
    PROVE  IInv'
<1>1. TypeOK'
  BY DEF IInv, TypeOK, PCs
<1>2. LeaseMatches' /\ SlotRoom' /\ SlotsAsConfigured'
  BY DEF IInv, TypeOK, LeaseMatches, SlotRoom, SlotsAsConfigured, HasLease,
     Matching, NameAllowed, Clients
<1>3. LeaseTableConsistent'
  BY DEF IInv, TypeOK, LeaseTableConsistent, HasLease
<1>4. NoLostWakeup'
  BY DEF IInv, TypeOK, NoLostWakeup, Matching, NameAllowed
<1>5. OwnersRegistered'
  BY DEF IInv, TypeOK, OwnersRegistered, HasLease
<1>6. QED
  BY <1>1, <1>2, <1>3, <1>4, <1>5 DEF IInv

(* tryAcquire takes a free slot whose lease map entry is empty: the new   *)
(* lease is registered there and nowhere else.                             *)
LEMMA AcquireSlotIInv ==
    ASSUME IInv, NEW c \in Clients, AcquireSlot(c)
    PROVE  IInv'
<1>1. PICK i \in Matching(want[c]) \ busy :
          /\ busy' = busy \cup {i}
          /\ leases' = [leases EXCEPT ![i] = c]
          /\ held' = [held EXCEPT ![c] = i]
  BY DEF AcquireSlot
<1>2. /\ pc[c] = "trying"
      /\ pc' = [pc EXCEPT ![c] = "holding"]
      /\ UNCHANGED <<slot, want, toAdd, reloaded>>
  BY DEF AcquireSlot
<1>3. i \in DOMAIN slot /\ i \in SlotIdx /\ i \notin busy
  BY <1>1, SlotFacts DEF Matching
<1>4. leases[i] = NoLease
  BY <1>3 DEF IInv, LeaseTableConsistent
<1>5. TypeOK'
  <2>1. i \in 0 .. MaxSlots
    BY <1>3 DEF SlotIdx
  <2>2. busy' \in SUBSET SlotIdx /\ leases' \in [SlotIdx -> Clients \cup {NoLease}]
    BY <1>1, <1>3 DEF IInv, TypeOK
  <2>3. pc' \in [Clients -> PCs] /\ held' \in [Clients -> 0 .. MaxSlots]
    BY <2>1, <1>1, <1>2 DEF IInv, TypeOK, PCs
  <2>4. QED
    BY <2>2, <2>3, <1>2 DEF IInv, TypeOK
<1>6. LeaseMatches' /\ SlotRoom' /\ SlotsAsConfigured'
  BY <1>1, <1>2, <1>3
  DEF IInv, TypeOK, LeaseMatches, SlotRoom, SlotsAsConfigured, HasLease,
     Matching, NameAllowed, Clients
<1>7. LeaseTableConsistent'
  BY <1>1, <1>2, <1>3, <1>4 DEF IInv, TypeOK, LeaseTableConsistent, HasLease
<1>8. NoLostWakeup'
  BY <1>1, <1>2 DEF IInv, TypeOK, NoLostWakeup, Matching, NameAllowed
<1>9. OwnersRegistered'
  <2> SUFFICES ASSUME ~reloaded, NEW d \in Clients, HasLease(d)'
               PROVE  leases'[held'[d]] = d
    BY <1>2 DEF OwnersRegistered
  <2>1. CASE d = c
    BY <2>1, <1>1, <1>3 DEF IInv, TypeOK
  <2>2. CASE d # c
    <3>1. HasLease(d) /\ held'[d] = held[d]
      BY <2>2, <1>1, <1>2 DEF IInv, TypeOK, HasLease
    <3>2. leases[held[d]] = d /\ held[d] \in SlotIdx
      BY <3>1, SlotFacts DEF IInv, OwnersRegistered, LeaseMatches, Matching
    <3>3. held[d] # i
      BY <3>2, <1>4
    <3>4. QED
      BY <3>1, <3>2, <3>3, <1>1 DEF IInv, TypeOK
  <2>3. QED
    BY <2>1, <2>2
<1>10. QED
  BY <1>5, <1>6, <1>7, <1>8, <1>9 DEF IInv

(* A client parks only when every matching slot is busy. *)
LEMMA AcquireParkIInv ==
    ASSUME IInv, NEW c \in Clients, AcquirePark(c)
    PROVE  IInv'
<1>1. TypeOK'
  BY DEF AcquirePark, IInv, TypeOK, PCs
<1>2. LeaseMatches' /\ SlotRoom' /\ SlotsAsConfigured'
  BY DEF AcquirePark, IInv, TypeOK, LeaseMatches, SlotRoom, SlotsAsConfigured, HasLease,
     Matching, NameAllowed, Clients
<1>3. LeaseTableConsistent'
  BY DEF AcquirePark, IInv, TypeOK, LeaseTableConsistent, HasLease
<1>4. NoLostWakeup'
  BY DEF AcquirePark, IInv, TypeOK, NoLostWakeup, Matching, NameAllowed
<1>5. OwnersRegistered'
  BY DEF AcquirePark, IInv, TypeOK, OwnersRegistered, HasLease
<1>6. QED
  BY <1>1, <1>2, <1>3, <1>4, <1>5 DEF IInv

(* CrawlWebsite returns: the lease is still registered until the release. *)
LEMMA EngineFinishIInv ==
    ASSUME IInv, NEW c \in Clients, EngineFinish(c)
    PROVE  IInv'
<1>1. TypeOK'
  BY DEF EngineFinish, IInv, TypeOK, PCs
<1>2. LeaseMatches' /\ SlotRoom' /\ SlotsAsConfigured'
  BY DEF EngineFinish, IInv, TypeOK, LeaseMatches, SlotRoom, SlotsAsConfigured, HasLease,
     Matching, NameAllowed, Clients
<1>3. LeaseTableConsistent'
  BY DEF EngineFinish, IInv, TypeOK, LeaseTableConsistent, HasLease
<1>4. NoLostWakeup'
  BY DEF EngineFinish, IInv, TypeOK, NoLostWakeup, Matching, NameAllowed
<1>5. OwnersRegistered'
  BY DEF EngineFinish, IInv, TypeOK, OwnersRegistered, HasLease
<1>6. QED
  BY <1>1, <1>2, <1>3, <1>4, <1>5 DEF IInv

(* releaseLocked, whoever calls it on slot i: the lease registered there   *)
(* ends, and everyone parked goes back to the loop. The caller c gives up  *)
(* its own lease; after a reload the registered one may be another's.      *)
LEMMA ReleaseLockedIInv ==
    ASSUME IInv, NEW c \in Clients, HasLease(c),
           ReleaseLocked(held[c], c, "idle"),
           ~reloaded => leases[held[c]] = c,
           held' = [held EXCEPT ![c] = 0],
           UNCHANGED <<slot, want, toAdd, reloaded>>
    PROVE  IInv'
<1> DEFINE i == held[c]
<1> DEFINE p == [pc EXCEPT ![c] = "idle"]
<1>1. i \in SlotIdx /\ i \in DOMAIN slot
  BY SlotFacts DEF IInv, LeaseMatches, Matching
<1>2. p \in [Clients -> PCs] /\ p[c] = "idle" /\ \A d \in Clients : d # c => p[d] = pc[d]
  BY DEF IInv, TypeOK, PCs
<1>3. /\ leases' = [leases EXCEPT ![i] = NoLease]
      /\ busy' = busy \ {i}
      /\ pc' = Signalled(p)
  BY DEF ReleaseLocked
<1> HIDE DEF i, p
<1>4. /\ pc' \in [Clients -> PCs]
      /\ \A d \in Clients : pc'[d] # "parked"
      /\ pc'[c] = "idle"
      /\ \A d \in Clients : HasLease(d)' <=> d # c /\ HasLease(d)
      /\ \A d \in Clients : pc'[d] = "idle" \/ (d # c /\ pc[d] # "idle")
  BY <1>2, <1>3, SignalledFacts DEF HasLease
<1>5. \A d \in Clients : d # c => held'[d] = held[d]
  BY DEF IInv, TypeOK
<1>6. TypeOK'
  <2>1. 0 \in 0 .. MaxSlots
    OBVIOUS
  <2>2. held' \in [Clients -> 0 .. MaxSlots]
    BY <2>1 DEF IInv, TypeOK
  <2>3. busy' \in SUBSET SlotIdx /\ leases' \in [SlotIdx -> Clients \cup {NoLease}]
    BY <1>1, <1>3 DEF IInv, TypeOK
  <2>4. QED
    BY <2>2, <2>3, <1>4 DEF IInv, TypeOK
<1>7. LeaseMatches' /\ SlotRoom' /\ SlotsAsConfigured'
  BY <1>4, <1>5 DEF IInv, LeaseMatches, SlotRoom, SlotsAsConfigured,
     Matching, NameAllowed, Clients
<1>8. \A j \in SlotIdx : j # i => leases'[j] = leases[j] /\ leases[j] # c
  BY <1>1, <1>3 DEF IInv, TypeOK, LeaseTableConsistent, i
<1>9. leases'[i] = NoLease
  BY <1>1, <1>3 DEF IInv, TypeOK
<1>10. LeaseTableConsistent'
  <2>1. \A j \in SlotIdx : j \in busy' <=> leases'[j] # NoLease
    BY <1>3, <1>8, <1>9 DEF IInv, LeaseTableConsistent
  <2>2. ASSUME NEW j \in SlotIdx, leases'[j] # NoLease
        PROVE  pc'[leases'[j]] \in {"holding", "returning"} /\ held'[leases'[j]] = j
    <3>1. j # i /\ leases'[j] = leases[j] /\ leases[j] # c
      BY <2>2, <1>8, <1>9
    <3>2. leases[j] \in Clients /\ HasLease(leases[j]) /\ held[leases[j]] = j
      BY <2>2, <3>1 DEF IInv, TypeOK, LeaseTableConsistent
    <3>3. QED
      BY <3>1, <3>2, <1>4, <1>5 DEF HasLease
  <2>3. QED
    BY <2>1, <2>2 DEF LeaseTableConsistent, HasLease
<1>11. NoLostWakeup'
  BY <1>4 DEF NoLostWakeup
<1>12. OwnersRegistered'
  <2> SUFFICES ASSUME ~reloaded, NEW d \in Clients, HasLease(d)'
               PROVE  leases'[held'[d]] = d
    BY DEF OwnersRegistered
  <2>1. d # c /\ HasLease(d) /\ held'[d] = held[d]
    BY <1>4, <1>5
  <2>2. leases[held[d]] = d /\ held[d] \in SlotIdx /\ leases[i] = c
    BY <2>1, SlotFacts DEF IInv, OwnersRegistered, LeaseMatches, Matching, i
  <2>3. QED
    BY <2>1, <2>2, <1>8
<1>13. QED
  BY <1>6, <1>7, <1>10, <1>11, <1>12 DEF IInv

(* A client that leaves without touching the table: it had no lease there. *)
LEMMA DropIInv ==
    ASSUME IInv, NEW c \in Clients, reloaded,
           \A j \in SlotIdx : leases[j] # c,
           pc' = [pc EXCEPT ![c] = "idle"],
           held' = [held EXCEPT ![c] = 0],
           UNCHANGED <<slot, busy, leases, want, toAdd, reloaded>>
    PROVE  IInv'
<1>1. /\ pc' \in [Clients -> PCs] /\ pc'[c] = "idle"
      /\ \A d \in Clients : d # c => pc'[d] = pc[d] /\ held'[d] = held[d]
  BY DEF IInv, TypeOK, PCs
<1>2. TypeOK'
  <2>1. 0 \in 0 .. MaxSlots
    OBVIOUS
  <2>2. held' \in [Clients -> 0 .. MaxSlots]
    BY <2>1 DEF IInv, TypeOK
  <2>3. QED
    BY <1>1, <2>2 DEF IInv, TypeOK
<1>3. LeaseMatches' /\ SlotRoom' /\ SlotsAsConfigured'
  BY <1>1 DEF IInv, LeaseMatches, SlotRoom, SlotsAsConfigured, HasLease,
     Matching, NameAllowed, Clients
<1>4. LeaseTableConsistent'
  BY <1>1 DEF IInv, TypeOK, LeaseTableConsistent, HasLease
<1>5. NoLostWakeup'
  BY <1>1 DEF IInv, NoLostWakeup, Matching, NameAllowed
<1>6. OwnersRegistered'
  BY DEF OwnersRegistered
<1>7. QED
  BY <1>2, <1>3, <1>4, <1>5, <1>6 DEF IInv

(* Pool.Release by an engine client: the slot it names exists and its name *)
(* is allowed, so the call returns early only when no lease is registered. *)
LEMMA EngineReleaseIInv ==
    ASSUME IInv, NEW c \in EngineClients, EngineRelease(c)
    PROVE  IInv'
<1>1. c \in Clients /\ HasLease(c) /\ pc[c] # "idle"
  BY DEF Clients, EngineRelease, HasLease
<1>2. held[c] \in DOMAIN slot /\ NameAllowed(slot[held[c]], EngineAllow)
  BY <1>1 DEF IInv, LeaseMatches, Matching
<1>3. ~reloaded => leases[held[c]] = c
  BY <1>1 DEF IInv, OwnersRegistered
<1>4. CASE leases[held[c]] # NoLease
  BY <1>1, <1>2, <1>3, <1>4, ReleaseLockedIInv DEF EngineRelease
<1>5. CASE leases[held[c]] = NoLease
  <2>1. /\ reloaded
        /\ pc' = [pc EXCEPT ![c] = "idle"]
        /\ held' = [held EXCEPT ![c] = 0]
        /\ UNCHANGED <<slot, busy, leases, want, toAdd, reloaded>>
    BY <1>1, <1>3, <1>5 DEF EngineRelease
  <2>2. \A j \in SlotIdx : leases[j] # c
    BY <1>1, <1>5 DEF IInv, LeaseTableConsistent
  <2>3. QED
    BY <1>1, <2>1, <2>2, DropIInv
<1>6. QED
  BY <1>4, <1>5

(* Lease.Release: when the registered lease is another's nothing is lost   *)
(* by leaving the slot alone.                                              *)
LEMMA LeaseReleaseIInv ==
    ASSUME IInv, NEW c \in SeedClients, LeaseRelease(c)
    PROVE  IInv'
<1>1. c \in Clients /\ HasLease(c)
  BY DEF Clients, LeaseRelease, HasLease
<1>2. held[c] \in DOMAIN slot
  BY <1>1 DEF IInv, LeaseMatches, Matching
<1>3. CASE leases[held[c]] = c
  BY <1>1, <1>2, <1>3, ReleaseLockedIInv DEF LeaseRelease
<1>4. CASE leases[held[c]] # c
  <2>1. /\ reloaded
        /\ pc' = [pc EXCEPT ![c] = "idle"]
        /\ held' = [held EXCEPT ![c] = 0]
        /\ UNCHANGED <<slot, busy, leases, want, toAdd, reloaded>>
    BY <1>1, <1>4 DEF LeaseRelease, IInv, OwnersRegistered
  <2>2. \A j \in SlotIdx : leases[j] # c
    BY <1>1, <1>4 DEF IInv, LeaseTableConsistent
  <2>3. QED
    BY <1>1, <2>1, <2>2, DropIInv
<1>5. QED
  BY <1>3, <1>4

(* Pool.Init empties both maps; nobody is left on the new channel. *)
LEMMA ReloadInitIInv ==
    ASSUME IInv, ReloadInit
    PROVE  IInv'
<1>1. /\ pc' \in [Clients -> PCs]
      /\ \A c \in Clients : pc'[c] # "parked"
      /\ \A c \in Clients : HasLease(c)' <=> HasLease(c)
      /\ \A c \in Clients : pc'[c] # "idle" => pc[c] # "idle"
  BY DEF ReloadInit, IInv, TypeOK, PCs, HasLease
<1>2. TypeOK'
  <2>1. Len(Config) \in 0 .. Len(Config)
    OBVIOUS
  <2>2. busy' \in SUBSET SlotIdx /\ leases' \in [SlotIdx -> Clients \cup {NoLease}]
    BY DEF ReloadInit
  <2>3. QED
    BY <1>1, <2>1, <2>2 DEF ReloadInit, IInv, TypeOK
<1>3. LeaseMatches' /\ SlotRoom' /\ SlotsAsConfigured'
  BY <1>1 DEF ReloadInit, IInv, LeaseMatches, SlotRoom, SlotsAsConfigured,
     Matching, NameAllowed, Clients
<1>4. LeaseTableConsistent'
  BY DEF ReloadInit, LeaseTableConsistent
<1>5. NoLostWakeup'
  BY <1>1 DEF NoLostWakeup
<1>6. OwnersRegistered'
  BY DEF ReloadInit, OwnersRegistered
<1>7. QED
  BY <1>2, <1>3, <1>4, <1>5, <1>6 DEF IInv

(* Pool.Add: the new index has no lease yet, and the add wakes everyone. *)
LEMMA ReloadAddIInv ==
    ASSUME IInv, ReloadAdd
    PROVE  IInv'
<1> DEFINE n == Len(slot) + 1
           v == Config[Len(Config) - toAdd + 1]
<1>1. /\ pc' \in [Clients -> PCs]
      /\ \A c \in Clients : pc'[c] # "parked"
      /\ \A c \in Clients : HasLease(c)' <=> HasLease(c)
      /\ \A c \in Clients : pc'[c] # "idle" => pc[c] # "idle"
  BY SignalledFacts DEF ReloadAdd, IInv, TypeOK, HasLease
<1>2. toAdd \in Nat /\ toAdd > 0 /\ toAdd <= Len(Config) /\ Len(Config) \in Nat
  BY DEF ReloadAdd, IInv, TypeOK
<1>3. v \in VDIs
  <2>1. Len(Config) - toAdd + 1 \in 1 .. Len(Config)
    BY <1>2
  <2>2. QED
    BY <2>1
<1>4. slot' = Append(slot, v)
  BY DEF ReloadAdd
<1>5. /\ slot' \in Seq(VDIs)
      /\ Len(slot') = n
      /\ \A i \in DOMAIN slot : i \in DOMAIN slot' /\ slot'[i] = slot[i]
  BY <1>3, <1>4, SlotFacts
<1>6. n \in SlotIdx /\ n \notin DOMAIN slot /\ Len(slot') + toAdd' <= MaxSlots
  BY <1>2, <1>5, SlotFacts DEF ReloadAdd, IInv, SlotRoom, SlotIdx
<1>7. \A i \in SlotIdx : leases[i] # NoLease => i # n
  BY <1>6 DEF IInv, TypeOK, LeaseTableConsistent, LeaseMatches, Matching
<1>8. n \notin busy
  BY <1>6, <1>7 DEF IInv, LeaseTableConsistent
<1>9. busy' = busy
  BY <1>8 DEF ReloadAdd
<1>10. reloaded
  BY <1>2 DEF IInv, SlotsAsConfigured
<1> HIDE DEF n, v
<1>11. TypeOK'
  <2>1. toAdd' \in 0 .. Len(Config)
    BY <1>2 DEF ReloadAdd
  <2>2. Len(slot') <= MaxSlots
    BY <1>5, <1>6 DEF SlotIdx
  <2>3. QED
    BY <1>1, <1>5, <1>9, <2>1, <2>2 DEF ReloadAdd, IInv, TypeOK
<1>12. LeaseMatches'
  BY <1>1, <1>5 DEF ReloadAdd, IInv, LeaseMatches, Matching, NameAllowed, Clients
<1>13. SlotRoom' /\ SlotsAsConfigured' /\ OwnersRegistered'
  BY <1>6, <1>10 DEF ReloadAdd, SlotRoom, SlotsAsConfigured, OwnersRegistered
<1>14. LeaseTableConsistent'
  BY <1>1, <1>9 DEF ReloadAdd, IInv, TypeOK, LeaseTableConsistent
<1>15. NoLostWakeup'
  BY <1>1 DEF NoLostWakeup
<1>16. QED
  BY <1>11, <1>12, <1>13, <1>14, <1>15 DEF IInv

(* One step per action. *)
LEMMA NextIInv == IInv /\ [Next]_vars => IInv'
<1> SUFFICES ASSUME IInv, [Next]_vars PROVE IInv'
  OBVIOUS
<1>1. ASSUME NEW c \in EngineClients, EngineStart(c) PROVE IInv'
  <2>1. /\ c \in Clients /\ ~HasLease(c)
        /\ pc' = [pc EXCEPT ![c] = "trying"]
        /\ want' = [want EXCEPT ![c] = EngineAllow]
        /\ UNCHANGED <<slot, busy, leases, held, toAdd, reloaded>>
    BY <1>1 DEF EngineStart, Clients, HasLease
  <2>2. /\ want' \in [Clients -> SUBSET Names]
        /\ want'[c] = EngineAllow
        /\ \A d \in Clients : d # c => want'[d] = want[d]
    BY <2>1 DEF IInv, TypeOK
  <2>3. QED
    BY <2>1, <2>2, MoveIInv
<1>2. ASSUME NEW c \in SeedClients, SeedStart(c) PROVE IInv'
  <2>1. PICK allow \in SeedAllowLists : want' = [want EXCEPT ![c] = allow]
    BY <1>2 DEF SeedStart
  <2>2. /\ c \in Clients /\ c \notin EngineClients /\ ~HasLease(c)
        /\ pc' = [pc EXCEPT ![c] = "trying"]
        /\ UNCHANGED <<slot, busy, leases, held, toAdd, reloaded>>
    BY <1>2 DEF SeedStart, Clients, HasLease
  <2>3. /\ want' \in [Clients -> SUBSET Names]
        /\ \A d \in Clients : d # c => want'[d] = want[d]
    BY <2>1, <2>2 DEF IInv, TypeOK
  <2>4. QED
    BY <2>2, <2>3, MoveIInv
<1>3. ASSUME NEW c \in Clients, AcquireFail(c) \/ AcquireCancel(c) PROVE IInv'
  <2>1. /\ ~HasLease(c)
        /\ pc' = [pc EXCEPT ![c] = "idle"]
        /\ UNCHANGED <<slot, busy, leases, want, held, toAdd, reloaded>>
    BY <1>3 DEF AcquireFail, AcquireCancel, HasLease
  <2>2. want' \in [Clients -> SUBSET Names] /\ \A d \in Clients : want'[d] = want[d]
    BY <2>1 DEF IInv, TypeOK
  <2>3. QED
    BY <2>1, <2>2, MoveIInv
<1>4. ASSUME NEW c \in Clients, AcquireSlot(c) PROVE IInv'
  BY <1>4, AcquireSlotIInv
<1>5. ASSUME NEW c \in Clients, AcquirePark(c) PROVE IInv'
  BY <1>5, AcquireParkIInv
<1>6. ASSUME NEW c \in EngineClients, EngineFinish(c) PROVE IInv'
  BY <1>6, EngineFinishIInv DEF Clients
<1>7. ASSUME NEW c \in EngineClients, EngineRelease(c) PROVE IInv'
  BY <1>7, EngineReleaseIInv
<1>8. ASSUME NEW c \in SeedClients, LeaseRelease(c) PROVE IInv'
  BY <1>8, LeaseReleaseIInv
<1>9. CASE ReloadInit
  BY <1>9, ReloadInitIInv
<1>10. CASE ReloadAdd
  BY <1>10, ReloadAddIInv
<1>11. CASE UNCHANGED vars
  BY <1>11 DEF vars, IInv, TypeOK, LeaseMatches, SlotRoom, SlotsAsConfigured,
     LeaseTableConsistent, NoLostWakeup, OwnersRegistered, HasLease, Matching, NameAllowed
<1>12. QED
  BY <1>1, <1>2, <1>3, <1>4, <1>5, <1>6, <1>7, <1>8, <1>9, <1>10, <1>11
  DEF Next, TryAcquire, Clients

(* The pool's invariant holds in every reachable state, reloads included:  *)
(* types, agreement of busy and leases, no lost wake-up.                   *)
THEOREM PoolInvariant == Spec => []IInv
<1>1. Init => IInv
  BY InitIInv
<1>2. IInv /\ [Next]_vars => IInv'
  BY NextIInv
<1>3. QED
  BY <1>1, <1>2, PTL DEF Spec

(* Every variable keeps its type; the slots never outgrow their bound. *)
THEOREM PoolTypes == Spec => []TypeOK
  BY PoolInvariant, PTL DEF IInv

(* Pool.busy and Pool.leases never disagree, and a registered lease is the *)
(* lease its client still has.                                             *)
THEOREM LeaseTable == Spec => []LeaseTableConsistent
  BY PoolInvariant, PTL DEF IInv

(* A client parked in AcquireContext never sleeps on a free matching slot. *)
THEOREM NoWakeupLost == Spec => []NoLostWakeup
  BY PoolInvariant, PTL DEF IInv

(* Until the first reload a leased slot stays registered to its client.    *)
THEOREM Owners == Spec => []OwnersRegistered
  BY PoolInvariant, PTL DEF IInv

(* Two clients holding one VDI hold one slot, and a slot has one lease.    *)
LEMMA HoldersDistinct ==
    ASSUME IInv, ~reloaded, NEW c \in Clients, NEW d \in Clients,
           HasLease(c), HasLease(d), slot[held[c]] = slot[held[d]]
    PROVE  c = d
<1>1. held[c] \in DOMAIN Config /\ held[d] \in DOMAIN Config /\ slot = Config
  BY DEF IInv, LeaseMatches, Matching, SlotsAsConfigured
<1>2. held[c] = held[d]
  BY <1>1
<1>3. leases[held[c]] = c /\ leases[held[d]] = d
  BY DEF IInv, OwnersRegistered
<1>4. QED
  BY <1>2, <1>3

(* Until a SIGHUP reload, no two clients drive the same browser. *)
THEOREM ExclusiveUntilReload == Spec => [](~reloaded => ExclusiveVDI)
<1>1. IInv => (~reloaded => ExclusiveVDI)
  BY HoldersDistinct DEF ExclusiveVDI, HasLease
<1>2. QED
  BY <1>1, PoolInvariant, PTL

(* A lease is ended only by its holder, by a reload, or, after one, by an  *)
(* engine's release by index: never by another client's Lease.Release.     *)
THEOREM LeaseEnds == Spec => LeaseEndsWithHolder
<1> DEFINE Ends(i) ==
      (leases[i] # NoLease /\ leases'[i] # leases[i]) =>
         \/ pc'[leases[i]] = "idle"
         \/ reloaded' /\ toAdd = 0 /\ toAdd' = Len(Config)
         \/ /\ reloaded
            /\ \E e \in EngineClients : pc[e] = "returning" /\ pc'[e] = "idle"
<1>1. ASSUME IInv, [Next]_vars, NEW i \in SlotIdx PROVE Ends(i)
  <2>1. ASSUME NEW c \in Clients, AcquireSlot(c) PROVE Ends(i)
    BY <1>1, <2>1 DEF AcquireSlot, IInv, TypeOK, LeaseTableConsistent, Matching
  <2>2. ASSUME NEW c \in EngineClients, EngineRelease(c) PROVE Ends(i)
    <3>1. c \in Clients /\ HasLease(c) /\ pc[c] = "returning"
      BY <2>2 DEF Clients, EngineRelease, HasLease
    <3>2. pc'[c] = "idle"
      BY <1>1, <2>2, <3>1 DEF EngineRelease, ReleaseLocked, Signalled, IInv, TypeOK
    <3>3. leases'[i] # leases[i] => i = held[c]
      BY <1>1, <2>2 DEF EngineRelease, ReleaseLocked, IInv, TypeOK
    <3>4. ~reloaded => leases[held[c]] = c
      BY <1>1, <3>1 DEF IInv, OwnersRegistered
    <3>5. QED
      BY <3>1, <3>2, <3>3, <3>4
  <2>3. ASSUME NEW c \in SeedClients, LeaseRelease(c) PROVE Ends(i)
    <3>1. c \in Clients
      BY <2>3 DEF Clients
    <3>2. pc'[c] = "idle"
      BY <1>1, <2>3, <3>1 DEF LeaseRelease, ReleaseLocked, Signalled, IInv, TypeOK
    <3>3. leases'[i] # leases[i] => leases[i] = c
      BY <1>1, <2>3 DEF LeaseRelease, ReleaseLocked, IInv, TypeOK
    <3>4. QED
      BY <3>2, <3>3
  <2>4. CASE ReloadInit
    BY <2>4 DEF ReloadInit
  <2>5. CASE UNCHANGED leases
    BY <2>5
  <2>6. QED
    BY <1>1, <2>1, <2>2, <2>3, <2>4, <2>5
    DEF Next, TryAcquire, EngineStart, EngineFinish, SeedStart, AcquireCancel,
        AcquirePark, AcquireFail, ReloadAdd, vars
<1>2. IInv /\ [Next]_vars => [\A i \in SlotIdx : Ends(i)]_vars
  BY <1>1
<1>3. QED
  BY <1>2, PoolInvariant, PTL DEF LeaseEndsWithHolder, Spec

(* The pool implements the ownership its callers (startCrawling, seed      *)
(* browsers) rely on: each step takes a VDI, which until the first reload  *)
(* nobody uses, gives one back, is the first reload, or changes nothing a  *)
(* client can see.                                                         *)
THEOREM OwnershipImplemented == Spec => ImplementsOwnership
<1> DEFINE u == [c \in Clients |-> IF HasLease(c) THEN slot[held[c]] ELSE NoVDI]
<1>1. Init => Own!Init
  BY DEF Init, Own!Init, HasLease
<1>2. ASSUME IInv, [Next]_vars
      PROVE  [Own!Next]_<<u, reloaded>>
  <2>1. ~reloaded => slot = Config
    BY <1>2 DEF IInv, SlotsAsConfigured
  <2>2. CASE ReloadInit
    <3>1. \A d \in Clients : HasLease(d)' <=> HasLease(d)
      BY <2>2, <1>2 DEF ReloadInit, HasLease, IInv, TypeOK
    <3>2. slot' = slot /\ held' = held /\ reloaded' = TRUE
      BY <2>2 DEF ReloadInit
    <3>3. QED
      BY <3>1, <3>2 DEF Own!Next, Own!Rebuild
  <2>21. CASE ReloadAdd
    <3>1. \A d \in Clients : HasLease(d)' <=> HasLease(d)
      BY <2>21, <1>2 DEF ReloadAdd, Signalled, HasLease, IInv, TypeOK
    <3>2. \A d \in Clients : HasLease(d) => slot'[held'[d]] = slot[held[d]]
      BY <2>21, <1>2 DEF ReloadAdd, IInv, TypeOK, LeaseMatches, Matching
    <3>3. QED
      BY <2>21, <3>1, <3>2 DEF ReloadAdd
  <2>3. ASSUME NEW c \in Clients, AcquireSlot(c) PROVE Own!Next
    <3>0. PICK i \in Matching(want[c]) \ busy : held' = [held EXCEPT ![c] = i]
      BY <2>3 DEF AcquireSlot
    <3>1. i \in DOMAIN slot /\ slot[i] \in VDIs /\ i \notin busy
      BY <1>2 DEF Matching, IInv, TypeOK
    <3>2. /\ pc[c] = "trying" /\ pc' = [pc EXCEPT ![c] = "holding"]
          /\ slot' = slot /\ reloaded' = reloaded
      BY <2>3 DEF AcquireSlot
    <3>3. u[c] = NoVDI
      BY <3>2 DEF HasLease
    <3>4. u' = [u EXCEPT ![c] = slot[i]]
      BY <3>0, <3>1, <3>2, <1>2 DEF HasLease, IInv, TypeOK
    <3>5. reloaded \/ \A d \in Clients : u[d] # slot[i]
      <4> SUFFICES ASSUME ~reloaded, NEW d \in Clients, HasLease(d), slot[held[d]] = slot[i]
                   PROVE  FALSE
        BY <3>1
      <4>1. held[d] \in DOMAIN slot /\ leases[held[d]] = d
        BY <1>2 DEF IInv, LeaseMatches, Matching, OwnersRegistered
      <4>2. held[d] = i
        BY <4>1, <3>1, <2>1
      <4>3. held[d] \in SlotIdx /\ held[d] \in busy
        BY <4>1, <1>2, SlotFacts DEF IInv, LeaseTableConsistent
      <4>4. QED
        BY <4>2, <4>3, <3>1
    <3>6. QED
      BY <3>1, <3>2, <3>3, <3>4, <3>5, <1>2 DEF Own!Next, Own!Take
  <2>4. ASSUME NEW c \in Clients, HasLease(c), pc' \in [Clients -> PCs], pc'[c] = "idle",
               \A d \in Clients : d # c => (HasLease(d)' <=> HasLease(d)),
               held' = [held EXCEPT ![c] = 0], slot' = slot, reloaded' = reloaded
        PROVE  Own!Next
    <3>1. u[c] # NoVDI
      BY <2>4, <1>2 DEF IInv, TypeOK, LeaseMatches, Matching
    <3>2. u' = [u EXCEPT ![c] = NoVDI]
      BY <2>4, <1>2 DEF HasLease, IInv, TypeOK
    <3>3. QED
      BY <2>4, <3>1, <3>2, <1>2 DEF Own!Next, Own!Give
  <2>5. ASSUME NEW c \in EngineClients, EngineRelease(c) PROVE Own!Next
    <3>1. c \in Clients /\ HasLease(c)
      BY <2>5 DEF EngineRelease, HasLease, Clients
    <3>2. /\ pc' \in [Clients -> PCs] /\ pc'[c] = "idle"
          /\ \A d \in Clients : d # c => (HasLease(d)' <=> HasLease(d))
      BY <2>5, <3>1, <1>2
      DEF EngineRelease, ReleaseLocked, Signalled, IInv, TypeOK, HasLease, PCs
    <3>3. held' = [held EXCEPT ![c] = 0] /\ slot' = slot /\ reloaded' = reloaded
      BY <2>5 DEF EngineRelease
    <3>4. QED
      BY <3>1, <3>2, <3>3, <2>4
  <2>6. ASSUME NEW c \in SeedClients, LeaseRelease(c) PROVE Own!Next
    <3>1. c \in Clients /\ HasLease(c)
      BY <2>6 DEF LeaseRelease, HasLease, Clients
    <3>2. /\ pc' \in [Clients -> PCs] /\ pc'[c] = "idle"
          /\ \A d \in Clients : d # c => (HasLease(d)' <=> HasLease(d))
      BY <2>6, <3>1, <1>2
      DEF LeaseRelease, ReleaseLocked, Signalled, IInv, TypeOK, HasLease, PCs
    <3>3. held' = [held EXCEPT ![c] = 0] /\ slot' = slot /\ reloaded' = reloaded
      BY <2>6 DEF LeaseRelease
    <3>4. QED
      BY <3>1, <3>2, <3>3, <2>4
  <2>7. ASSUME \A c \in Clients : HasLease(c)' <=> HasLease(c),
               slot' = slot, held' = held, reloaded' = reloaded
        PROVE  <<u, reloaded>>' = <<u, reloaded>>
    BY <2>7, <1>2
  <2>8. ASSUME NEW c \in Clients,
               \/ EngineStart(c) \/ SeedStart(c) \/ AcquirePark(c) \/ AcquireFail(c)
               \/ AcquireCancel(c) \/ EngineFinish(c)
        PROVE  <<u, reloaded>>' = <<u, reloaded>>
    <3>1. \A d \in Clients : HasLease(d)' <=> HasLease(d)
      BY <2>8, <1>2 DEF IInv, TypeOK, HasLease, EngineStart, SeedStart, AcquirePark,
         AcquireFail, AcquireCancel, EngineFinish
    <3>2. slot' = slot /\ held' = held /\ reloaded' = reloaded
      BY <2>8 DEF EngineStart, SeedStart, AcquirePark,
         AcquireFail, AcquireCancel, EngineFinish
    <3>3. QED
      BY <3>1, <3>2, <2>7
  <2>9. CASE UNCHANGED vars
    BY <2>9, <2>7 DEF vars, HasLease
  <2>10. QED
    BY <1>2, <2>2, <2>21, <2>3, <2>5, <2>6, <2>8, <2>9 DEF Next, TryAcquire, Clients
<1>3. QED
  BY <1>1, <1>2, PoolInvariant, PTL DEF Spec, ImplementsOwnership, Own!Spec, Own!vars
=============================================================================
