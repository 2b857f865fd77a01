---------------------------- MODULE MCSourceClaim ----------------------------
(* Two engines, two sources in a fixed order. *)
EXTENDS SourceClaim, TLC
CONSTANTS s1, s2, e1, e2, j1, j2

MCRank == s1 :> 1 @@ s2 :> 2
MCRank1 == s1 :> 1
MCOff  == Off
MCSymmetry == Permutations({e1, e2}) \cup Permutations({j1, j2})
=============================================================================
