---------------------------- MODULE MCEventQueue -----------------------------
(* Instances of EventQueue for TLC. *)
EXTENDS EventQueue

CONSTANTS a, b

MCPosts == [e \in Events |-> IF e \in Refused THEN 1 ELSE 2]
=============================================================================
