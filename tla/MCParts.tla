------------------------------- MODULE MCParts -------------------------------
(* Parts in which both browsers show the same room. *)
EXTENDS Parts

CONSTANTS a1, a2, r1, r2, r3

SharedRoom == [p \in {a1, a2} |-> r1]
=============================================================================
