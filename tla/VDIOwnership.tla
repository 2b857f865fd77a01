---------------------------- MODULE VDIOwnership ----------------------------
(***************************************************************************)
(* What the VDI pool promises to its callers, without slots, leases or     *)
(* wake-up channels: a client uses one VDI at a time, and no VDI is used   *)
(* by two clients ("Lease represents exclusive ownership", pkg/vdi/vdi.go) *)
(* until the pool is rebuilt.                                              *)
(***************************************************************************)
CONSTANTS
    Clients,    \* goroutines that acquire a VDI
    VDIs,       \* the configured Selenium instances
    NoVDI       \* the client uses none (not a VDI)

VARIABLES
    using,    \* using[c]: the VDI client c uses, or NoVDI
    rebuilt   \* the pool has been rebuilt under its clients (SIGHUP)

vars == <<using, rebuilt>>

TypeOK ==
    /\ using \in [Clients -> VDIs \cup {NoVDI}]
    /\ rebuilt \in BOOLEAN

Init ==
    /\ using = [c \in Clients |-> NoVDI]
    /\ rebuilt = FALSE

(* An idle client takes a VDI nobody uses; a rebuilt pool no longer knows  *)
(* who uses which.                                                         *)
Take(c, v) ==
    /\ using[c] = NoVDI
    /\ rebuilt \/ \A d \in Clients : using[d] # v
    /\ using' = [using EXCEPT ![c] = v]
    /\ rebuilt' = rebuilt

(* A client gives its VDI back. *)
Give(c) ==
    /\ using[c] # NoVDI
    /\ using' = [using EXCEPT ![c] = NoVDI]
    /\ rebuilt' = rebuilt

(* The configuration is loaded again; nobody loses the VDI it uses. *)
Rebuild == rebuilt' = TRUE /\ UNCHANGED using

Next ==
    \/ \E c \in Clients : Give(c) \/ \E v \in VDIs : Take(c, v)
    \/ Rebuild

Spec == Init /\ [][Next]_vars
=============================================================================
