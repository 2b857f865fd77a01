------------------------------ MODULE MCVDIPool ------------------------------
(* Two VDIs with different names and one of each name class of request:    *)
(* any VDI, one VDI, a name no VDI has.                                    *)
EXTENDS VDIPool, TLC
CONSTANTS v1, v2, e1, e2, s1, s2

MCVDIs     == {v1, v2}
MCNames    == {"a", "b", "none"}
MCNameOf   == v1 :> "a" @@ v2 :> "b"
MCConfig   == <<v1, v2>>
MCAllow    == {{}, {"b"}, {"none"}}
MCSymmetry == Permutations({e1, e2}) \cup Permutations({s1, s2})
=============================================================================
