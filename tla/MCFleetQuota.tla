---------------------------- MODULE MCFleetQuota -----------------------------
(* Two members, in a fixed order, and an odd number of connections. *)
EXTENDS FleetQuota, TLC
CONSTANTS m1, m2

MCRank == m1 :> 1 @@ m2 :> 2
=============================================================================
